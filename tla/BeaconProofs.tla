---------------------------- MODULE BeaconProofs ----------------------------
(***************************************************************************)
(* What the runs of Beacon and BeaconRadio check with windows of a few     *)
(* time units, for windows of any length, every set of advertisements and  *)
(* every capacity of the channel.                                          *)
(***************************************************************************)
EXTENDS BeaconRadio, SequenceTheorems, TLAPS

-----------------------------------------------------------------------------
\* An age stays within its limit.
LEMMA OlderIsAge ==
  ASSUME NEW limit \in Nat, NEW age \in Ages(limit) \union {Never}
  PROVE  Older(age, limit) \in Ages(limit) \union {Never} /\ (age # Never => Older(age, limit) # Never)
  BY BeaconAssumption DEF Older, Ages

\* What a round leaves to be sent is a note, an edge, both or nothing.
LEMMA OutboxIsShort ==
  ASSUME NEW note \in {<<>>, <<"note">>}, NEW news \in {<<>>, <<"away">>, <<"back">>}
  PROVE  note \o news \in Seq(Signals) /\ Len(note \o news) <= 2
<1>1. \A s \in {"note", "away", "back"} : <<s>> \in Seq(Signals) /\ Len(<<s>>) = 1
  BY DEF Signals
<1>2. <<>> \in Seq(Signals) /\ Len(<<>>) = 0
  BY EmptySeq
<1>3. note \in Seq(Signals) /\ news \in Seq(Signals) /\ Len(note) \in {0, 1} /\ Len(news) \in {0, 1}
  BY <1>1, <1>2
<1>4. Len(note \o news) = Len(note) + Len(news) /\ note \o news \in Seq(Signals)
  BY <1>3, ConcatProperties
<1>5. \A m, n \in {0, 1} : m + n <= 2
  OBVIOUS
<1> QED
  BY <1>3, <1>4, <1>5, Zenon

LEMMA NewsIsOneEdge == News \in {<<>>, <<"away">>, <<"back">>}
  BY DEF News

\* A round keeps every type.
LEMMA TickTypes == ASSUME TypeOK, Tick PROVE TypeOK'
<1> USE BeaconAssumption DEF TypeOK, world
<1>1. connected' \in BOOLEAN
  <2>1. connected' = (known /\ link)
    BY DEF Tick, ReadBluez
  <2> QED
    BY <2>1, Zenon
<1>2. /\ rssi' \in Side \union {Never} /\ inEarAge' \in Ages(InEarMemory)
      /\ adAge' \in Ages(Silence) \union {Never}
  <2>1. CASE ~known \/ ad = NoAd
    BY <2>1 DEF Tick, ReadBluez
  <2>2. CASE ~(~known \/ ad = NoAd)
    <3>1. ad.rssi \in Side \union {"missing"}
      BY <2>2 DEF Heard
    <3>2. \A v \in Smoothed(rssi, ad.rssi) : v \in Side \union {Never}
      BY <3>1 DEF Smoothed, Side
    <3>3. rssi' \in Smoothed(rssi, ad.rssi) /\ adAge' = 0 /\ inEarAge' \in {0, inEarAge}
      BY <2>2 DEF Tick, ReadBluez
    <3> QED
      BY <3>2, <3>3 DEF Ages
  <2> QED
    BY <2>1, <2>2
<1>3. belowAge' \in Ages(Hold) \union {Never}
  BY DEF Tick, BelowSince, Ages
<1>4. wasArmed' \in BOOLEAN
  <2>1. wasArmed' = (connected' /\ Worn)
    BY DEF Tick, ArmedNow
  <2> QED
    BY <2>1, Zenon
<1>5. outbox' \in Seq(Signals) /\ Len(outbox') <= 2
  BY OutboxIsShort, NewsIsOneEdge DEF Tick
<1>6. lastSent' \in {"none", "away", "back"}
  BY NewsIsOneEdge DEF Tick
<1>7. UNCHANGED <<known, link, ad, bus, chan>>
  BY DEF Tick
<1> QED
  BY <1>1, <1>2, <1>3, <1>4, <1>5, <1>6, <1>7

\* Both ends of the channel keep its type.
LEMMA ChannelTypes == ASSUME TypeOK, Send \/ Receive PROVE TypeOK'
<1> USE DEF TypeOK, world, reading
<1>1. CASE Send
  <2>1. /\ outbox # <<>> /\ Head(outbox) \in Signals /\ outbox' \in Seq(Signals)
        /\ Len(outbox') = Len(outbox) - 1 /\ Len(outbox) \in Nat
    BY <1>1, HeadTailProperties DEF Send
  <2>2. /\ chan' = Append(chan, <<Self, Head(outbox)>>)
        /\ <<Self, Head(outbox)>> \in {Self} \X Signals /\ chan \in Seq({Self} \X Signals)
    BY <1>1, <2>1 DEF Send
  <2>3. chan' \in Seq({Self} \X Signals) /\ Len(chan') = Len(chan) + 1 /\ Len(chan) \in Nat
    BY <2>2, AppendProperties
  <2>4. Len(chan) < ChannelCap /\ ChannelCap \in Nat
    BY <1>1, BeaconAssumption DEF Send
  <2> QED
    BY <1>1, <2>1, <2>3, <2>4 DEF Send
<1>2. CASE Receive
  <2>1. chan' \in Seq({Self} \X Signals) /\ Len(chan') = Len(chan) - 1 /\ Len(chan) \in Nat
    BY <1>2, HeadTailProperties DEF Receive
  <2>2. ChannelCap \in Nat
    BY BeaconAssumption
  <2> QED
    BY <1>2, <2>1, <2>2 DEF Receive
<1> QED
  BY <1>1, <1>2

\* bluez and the clock do.
LEMMA WorldTypes ==
  ASSUME TypeOK,
         \/ LinkChanges \/ PairingChanges \/ AdChanges \/ BusChanges
         \/ TimePasses \/ ReadFails \/ UNCHANGED beaconVars
  PROVE  TypeOK'
<1> USE DEF TypeOK, world, reading
<1>1. CASE LinkChanges
  BY <1>1 DEF LinkChanges
<1>2. CASE PairingChanges
  BY <1>2 DEF PairingChanges
<1>3. CASE AdChanges
  BY <1>3 DEF AdChanges
<1>4. CASE TimePasses
  <2>1. /\ inEarAge' \in Ages(InEarMemory) /\ adAge' \in Ages(Silence) \union {Never}
        /\ belowAge' \in Ages(Hold) \union {Never}
    <3>1. /\ InEarMemory \in Nat /\ Silence \in Nat /\ Hold \in Nat
          /\ inEarAge \in Ages(InEarMemory) /\ inEarAge # Never
      BY BeaconAssumption DEF Ages
    <3>2. /\ inEarAge' = Older(inEarAge, InEarMemory) /\ adAge' = Older(adAge, Silence)
          /\ belowAge' = Older(belowAge, Hold)
      BY <1>4 DEF TimePasses
    <3> QED
      BY <3>1, <3>2, OlderIsAge
  <2> QED
    BY <1>4, <2>1 DEF TimePasses
<1>5. CASE ReadFails \/ UNCHANGED beaconVars
  BY <1>5 DEF ReadFails, beaconVars
<1>6. CASE BusChanges
  BY <1>6 DEF BusChanges
<1> QED
  BY <1>1, <1>2, <1>3, <1>4, <1>5, <1>6

LEMMA InitTypes == Init => TypeOK
<1> SUFFICES ASSUME Init PROVE TypeOK
  OBVIOUS
<1>1. outbox \in Seq(Signals) /\ Len(outbox) = 0 /\ chan \in Seq({Self} \X Signals) /\ Len(chan) = 0
  BY EmptySeq DEF Init
<1>2. InEarMemory \in Ages(InEarMemory)
  BY BeaconAssumption DEF Ages
<1>3. Len(chan) <= ChannelCap
  BY <1>1, BeaconAssumption
<1>4. /\ known \in BOOLEAN /\ link \in BOOLEAN /\ ad \in Ads \union {NoAd} /\ bus \in BOOLEAN
      /\ connected \in BOOLEAN /\ wasArmed \in BOOLEAN
  BY DEF Init
<1>5. /\ rssi \in Side \union {Never} /\ adAge \in Ages(Silence) \union {Never}
      /\ belowAge \in Ages(Hold) \union {Never} /\ inEarAge \in Ages(InEarMemory)
      /\ lastSent \in {"none", "away", "back"}
  BY <1>2 DEF Init
<1> QED
  BY <1>1, <1>3, <1>4, <1>5 DEF TypeOK

\* The state of the beacon's task keeps its types, whatever is heard.
THEOREM TypeCorrect == Spec => []TypeOK
<1>1. TypeOK /\ [Next]_beaconVars => TypeOK'
  BY TickTypes, ChannelTypes, WorldTypes DEF Next
<1> QED
  BY <1>1, InitTypes, PTL DEF Spec

-----------------------------------------------------------------------------
\* Only a round of the loop reports or arms, in Beacon and in BeaconRadio.
LEMMA OthersReportNothing ==
  /\ [Next]_beaconVars => Tick \/ UNCHANGED <<wasArmed, lastSent>>
  /\ [RadioNext]_radioVars => Tick \/ UNCHANGED <<wasArmed, lastSent>>
  BY DEF Next, RadioNext, beaconVars, radioVars, Aside, LinkChanges, PairingChanges, AdChanges,
         BusChanges, TimePasses, ReadFails, Send, Receive, AirChanges, Forget, PowerChanges,
         NotchdScans, Clock, Round

\* What a round reports, it stands by.
LEMMA BackStep ==
  ASSUME BackIsTrue, Tick \/ UNCHANGED <<wasArmed, lastSent>> PROVE BackIsTrue'
<1>1. CASE UNCHANGED <<wasArmed, lastSent>>
  BY <1>1 DEF BackIsTrue
<1>2. CASE Tick
  <2>1. /\ lastSent' = (IF News = <<>> THEN lastSent ELSE News[1]) /\ (wasArmed' <=> ArmedNow)
    BY <1>2 DEF Tick
  <2>2. CASE Gone
    <3>1. News = <<"away">>
      BY <2>2 DEF News
    <3>2. lastSent' = "away"
      BY <2>1, <3>1
    <3> QED
      BY <3>2 DEF BackIsTrue
  <2>3. CASE ~Gone /\ ArmedNow
    BY <2>1, <2>3 DEF BackIsTrue
  <2>4. CASE ~Gone /\ ~ArmedNow
    <3>1. News = <<>> /\ ~wasArmed
      BY <2>4 DEF News, Gone
    <3> QED
      BY <2>1, <3>1 DEF BackIsTrue
  <2> QED
    BY <2>2, <2>3, <2>4
<1> QED
  BY <1>1, <1>2

\* The arbiter never believes in a beacon that is not armed, whatever options are
\* on, with or without a discovery of the daemon's own.
THEOREM BackIsStoodBy == (Spec => []BackIsTrue) /\ (RadioSpec => []BackIsTrue)
<1>1. (Init => BackIsTrue) /\ (RadioInit => BackIsTrue)
  BY DEF RadioInit, Init, BackIsTrue
<1>2. BackIsTrue /\ [Next]_beaconVars => BackIsTrue'
  BY BackStep, OthersReportNothing
<1>3. BackIsTrue /\ [RadioNext]_radioVars => BackIsTrue'
  BY BackStep, OthersReportNothing
<1>4. Spec => []BackIsTrue
  BY <1>1, <1>2, PTL DEF Spec
<1>5. RadioSpec => []BackIsTrue
  BY <1>1, <1>3, PTL DEF RadioSpec
<1> QED
  BY <1>4, <1>5

\* With the default options the last word says whether the beacon is armed.
Default == ~DistanceOn /\ Silence = 0
ArmedIsSaid == wasArmed => lastSent = "back"

LEMMA ArmedStep ==
  ASSUME Default, ArmedIsSaid, Tick \/ UNCHANGED <<wasArmed, lastSent>> PROVE ArmedIsSaid'
<1>1. CASE UNCHANGED <<wasArmed, lastSent>>
  BY <1>1 DEF ArmedIsSaid
<1>2. CASE Tick /\ ArmedNow
  <2>1. /\ lastSent' = (IF News = <<>> THEN lastSent ELSE News[1]) /\ ~Gone
    BY <1>2 DEF Tick, Default, Gone, Far, Silent
  <2>2. CASE wasArmed
    <3>1. News = <<>>
      BY <2>1, <2>2 DEF News
    <3> QED
      BY <2>1, <2>2, <3>1 DEF ArmedIsSaid
  <2>3. CASE ~wasArmed
    <3>1. News = <<"back">>
      BY <1>2, <2>1, <2>3 DEF News
    <3>2. lastSent' = "back"
      BY <2>1, <3>1
    <3> QED
      BY <3>2 DEF ArmedIsSaid
  <2> QED
    BY <2>2, <2>3
<1>3. CASE Tick /\ ~ArmedNow
  BY <1>3 DEF Tick, ArmedIsSaid
<1> QED
  BY <1>1, <1>2, <1>3

\* A round says that the beacon left when it was there, and that it is there when
\* it was not.
LEMMA EdgeStep ==
  ASSUME Default, BackIsTrue, ArmedIsSaid, Tick
  PROVE  /\ News = <<"away">> => lastSent = "back"
         /\ News = <<"back">> => lastSent # "back"
<1>1. CASE Gone
  <2>1. wasArmed /\ News = <<"away">>
    BY <1>1 DEF Gone, News, Default, Far, Silent
  <2>2. News # <<"back">>
    BY <2>1
  <2> QED
    BY <2>1, <2>2 DEF ArmedIsSaid
<1>2. CASE ~Gone /\ ArmedNow /\ ~wasArmed
  <2>1. News = <<"back">>
    BY <1>2 DEF News
  <2>2. News # <<"away">>
    BY <2>1
  <2> QED
    BY <1>2, <2>2 DEF BackIsTrue
<1>3. CASE ~Gone /\ ~(ArmedNow /\ ~wasArmed)
  <2>1. News = <<>>
    BY <1>3 DEF News
  <2> QED
    BY <2>1
<1> QED
  BY <1>1, <1>2, <1>3

\* The options do not change while the daemon runs.
LEMMA DefaultStays == Default => []Default
<1>1. Default => Default'
  BY DEF Default
<1> QED
  BY <1>1, PTL

\* With the default options edges alternate whatever bluez hears and forgets: the
\* repetition that run beacon_levels finds is the work of away_rssi and silence_secs alone.
THEOREM LinkEdgesAlternate == Default /\ Spec => EdgesAlternate
<1>1. Init => BackIsTrue /\ ArmedIsSaid
  BY DEF Init, BackIsTrue, ArmedIsSaid
<1>2. Default /\ BackIsTrue /\ ArmedIsSaid /\ [Next]_beaconVars => BackIsTrue' /\ ArmedIsSaid'
  BY BackStep, ArmedStep, OthersReportNothing
<1>3. Default /\ BackIsTrue /\ ArmedIsSaid /\ [Next]_beaconVars =>
        [Tick => /\ News = <<"away">> => lastSent = "back"
                 /\ News = <<"back">> => lastSent # "back"]_beaconVars
  BY EdgeStep
<1> QED
  BY <1>1, <1>2, <1>3, DefaultStays, PTL DEF Spec, EdgesAlternate

\* With the default options the radio's beacon reports edges that alternate,
\* for every duty cycle and every way the windows and the rounds fall.
THEOREM DefaultEdgesAlternate == Default /\ RadioSpec => EdgesAlternate
<1>1. RadioInit => BackIsTrue /\ ArmedIsSaid
  BY DEF RadioInit, Init, BackIsTrue, ArmedIsSaid
<1>2. Default /\ BackIsTrue /\ ArmedIsSaid /\ [RadioNext]_radioVars => BackIsTrue' /\ ArmedIsSaid'
  BY BackStep, ArmedStep, OthersReportNothing
<1>3. Default /\ BackIsTrue /\ ArmedIsSaid /\ [RadioNext]_radioVars =>
        [Tick => /\ News = <<"away">> => lastSent = "back"
                 /\ News = <<"back">> => lastSent # "back"]_beaconVars
  BY EdgeStep
<1> QED
  BY <1>1, <1>2, <1>3, DefaultStays, PTL DEF RadioSpec, EdgesAlternate

-----------------------------------------------------------------------------
\* A departure with the link up has one cause with the default options: the last
\* ad that said in-ear has grown too old.
LEMMA DepartureStep ==
  ASSUME Default, Tick, TypeOK', News = <<"away">>, connected'
  PROVE  RequireInEar /\ inEarAge' = InEarMemory
<1>1. Gone
  <2>1. CASE ~Gone /\ ArmedNow /\ ~wasArmed
    <3>1. News = <<"back">>
      BY <2>1 DEF News
    <3> QED
      BY <3>1
  <2>2. CASE ~Gone /\ ~(ArmedNow /\ ~wasArmed)
    <3>1. News = <<>>
      BY <2>2 DEF News
    <3> QED
      BY <3>1
  <2> QED
    BY <2>1, <2>2
<1>2. ~ArmedNow
  BY <1>1 DEF Gone, Far, Silent, Default
<1>3. RequireInEar /\ ~(inEarAge' < InEarMemory)
  BY <1>2 DEF ArmedNow, Worn
<1>4. inEarAge' \in 0..InEarMemory /\ InEarMemory \in Nat
  BY BeaconAssumption DEF TypeOK, Ages
<1> QED
  BY <1>3, <1>4

\* Buds on the desk are reported gone by the expiry of the in-ear reading and by
\* nothing else (beacon.rs:201-203), while the options are the default ones.
THEOREM OnlyExpiryReportsTheDesk ==
  Default /\ Spec =>
    [][Tick /\ News = <<"away">> /\ connected' => RequireInEar /\ inEarAge' = InEarMemory]_beaconVars
<1>1. Default /\ TypeOK /\ TypeOK' /\ [Next]_beaconVars =>
        [Tick /\ News = <<"away">> /\ connected' =>
           RequireInEar /\ inEarAge' = InEarMemory]_beaconVars
  BY DepartureStep
<1> QED
  BY <1>1, TypeCorrect, DefaultStays, PTL DEF Spec

\* And so, without require_in_ear, buds on the desk are left alone, as README.md:106
\* has it.
THEOREM WithoutInEarDeskIsIgnored ==
  Default /\ ~RequireInEar /\ Spec => [][Tick /\ News = <<"away">> => ~connected']_beaconVars
<1>1. ~RequireInEar => []~RequireInEar
  <2>1. ~RequireInEar => (~RequireInEar)'
    OBVIOUS
  <2> QED
    BY <2>1, PTL
<1>2. Default /\ ~RequireInEar /\ TypeOK /\ TypeOK' /\ [Next]_beaconVars =>
        [Tick /\ News = <<"away">> => ~connected']_beaconVars
  BY DepartureStep
<1> QED
  BY <1>1, <1>2, TypeCorrect, DefaultStays, PTL DEF Spec

-----------------------------------------------------------------------------
\* The adapter and the clocks.
RadioTypes ==
  /\ loudest \in Ads \union {NoAd}
  /\ powered \in BOOLEAN /\ mine \in BOOLEAN /\ theirs \in BOOLEAN
  /\ pos \in 0..Period-1 /\ sinceTick \in 0..MaxGap /\ answered \in BOOLEAN

LEMMA RadioStepTypes == ASSUME TypeOK, RadioTypes, [RadioNext]_radioVars PROVE RadioTypes'
<1> USE RadioAssumption DEF RadioTypes, radio, clocks
<1>1. CASE AirChanges
  BY <1>1 DEF AirChanges
<1>2. CASE Forget
  BY <1>2 DEF Forget
<1>3. CASE PowerChanges
  BY <1>3 DEF PowerChanges
<1>4. CASE NotchdScans
  BY <1>4 DEF NotchdScans
<1>5. CASE Clock
  BY <1>5 DEF Clock
<1>6. CASE Round
  <2>1. mine' \in BOOLEAN
    <3>1. mine' \in {mine, Want, TRUE, mine /\ Want}
      BY <1>6 DEF Round, Reassert
    <3>2. Want \in BOOLEAN /\ (mine /\ Want) \in BOOLEAN
      BY Zenon DEF Want, Window
    <3> QED
      BY <3>1, <3>2, Zenon
  <2>2. sinceTick' = 0 /\ answered' = bus /\ UNCHANGED <<loudest, powered, theirs, pos>>
    BY <1>6 DEF Round
  <2> QED
    BY <2>1, <2>2 DEF TypeOK
<1>7. CASE \/ Aside(LinkChanges) \/ Aside(PairingChanges) \/ Aside(BusChanges)
           \/ Aside(Send) \/ Aside(Receive)
  BY <1>7 DEF Aside
<1>8. CASE UNCHANGED radioVars
  BY <1>8 DEF radioVars
<1> QED
  BY <1>1, <1>2, <1>3, <1>4, <1>5, <1>6, <1>7, <1>8 DEF RadioNext

\* The part that is Beacon's: only Clock, Forget and Round are not a step of it.
LEMMA RadioKeepsTypes == ASSUME TypeOK, RadioTypes, [RadioNext]_radioVars PROVE TypeOK'
<1>1. CASE AirChanges \/ PowerChanges \/ NotchdScans \/ UNCHANGED radioVars
  <2>1. UNCHANGED beaconVars
    BY <1>1 DEF AirChanges, PowerChanges, NotchdScans, radioVars
  <2> QED
    BY <2>1, WorldTypes
<1>2. CASE Forget
  BY <1>2 DEF Forget, TypeOK, reading
<1>3. CASE Clock
  <2>1. ad' \in Ads \union {NoAd}
    BY <1>3 DEF Clock, Hear, TypeOK, RadioTypes
  <2>2. /\ inEarAge' \in Ages(InEarMemory) /\ adAge' \in Ages(Silence) \union {Never}
        /\ belowAge' \in Ages(Hold) \union {Never}
    <3>1. /\ InEarMemory \in Nat /\ Silence \in Nat /\ Hold \in Nat
          /\ inEarAge \in Ages(InEarMemory) /\ inEarAge # Never
          /\ adAge \in Ages(Silence) \union {Never} /\ belowAge \in Ages(Hold) \union {Never}
      BY BeaconAssumption DEF Ages, TypeOK
    <3>2. /\ inEarAge' = Older(inEarAge, InEarMemory) /\ adAge' = Older(adAge, Silence)
          /\ belowAge' = Older(belowAge, Hold)
      BY <1>3 DEF Clock
    <3> QED
      BY <3>1, <3>2, OlderIsAge
  <2> QED
    BY <1>3, <2>1, <2>2 DEF Clock, TypeOK
<1>4. CASE Round
  BY <1>4, TickTypes, WorldTypes DEF Round
<1>5. CASE \/ Aside(LinkChanges) \/ Aside(PairingChanges) \/ Aside(BusChanges)
           \/ Aside(Send) \/ Aside(Receive)
  BY <1>5, WorldTypes, ChannelTypes DEF Aside
<1> QED
  BY <1>1, <1>2, <1>3, <1>4, <1>5 DEF RadioNext

LEMMA RadioTypesHold == RadioSpec => [](TypeOK /\ RadioTypes)
<1>1. RadioInit => TypeOK /\ RadioTypes
  <2>1. RadioInit => RadioTypes
    <3> SUFFICES ASSUME RadioInit PROVE RadioTypes
      OBVIOUS
    <3>1. sinceTick \in 0..MaxGap /\ pos \in 0..Period-1
      BY RadioAssumption DEF RadioInit
    <3>2. mine = FALSE /\ theirs = FALSE
      BY DEF RadioInit
    <3> QED
      BY <3>1, <3>2 DEF RadioInit, RadioTypes
  <2> QED
    BY <2>1, InitTypes DEF RadioInit
<1>2. TypeOK /\ RadioTypes /\ [RadioNext]_radioVars => TypeOK' /\ RadioTypes'
  BY RadioStepTypes, RadioKeepsTypes
<1> QED
  BY <1>1, <1>2, PTL DEF RadioSpec

\* The beacon, the adapter and the clocks keep their types.
THEOREM RadioTypeCorrect == RadioSpec => []RadioTypeOK
<1>1. TypeOK /\ RadioTypes => RadioTypeOK
  BY DEF RadioTypes, RadioTypeOK
<1> QED
  BY <1>1, RadioTypesHold, PTL

\* bluez holds a discovery for the daemon only while there is power, and only
\* if it is configured to ask for one.
MineNeedsPower == mine => OwnDiscovery /\ powered

LEMMA GivenBackStep ==
  ASSUME TypeOK, RadioTypes, MineNeedsPower, RadioIsGivenBack, [RadioNext]_radioVars
  PROVE  MineNeedsPower' /\ RadioIsGivenBack'
<1> USE RadioAssumption DEF MineNeedsPower, RadioIsGivenBack, RadioTypes
<1>1. CASE UNCHANGED <<mine, powered, pos, sinceTick, answered>>
  BY <1>1
<1>2. CASE PowerChanges
  BY <1>2 DEF PowerChanges, radio, clocks
<1>3. CASE Clock
  <2>1. /\ sinceTick' = sinceTick + 1 /\ sinceTick < MaxGap
        /\ pos' = IF pos + 1 = Period THEN 0 ELSE pos + 1
        /\ UNCHANGED <<mine, powered, answered>>
    BY <1>3 DEF Clock, radio
  <2>2. MineNeedsPower'
    BY <2>1
  <2>3. SUFFICES ASSUME mine, answered, Scan # 0, Scan + MaxGap <= Period
                 PROVE  pos' - sinceTick' \in 0..Scan-1
    BY <2>1, <2>2
  <2>4. pos - sinceTick \in 0..Scan-1
    BY <2>3
  <2>5. pos + 1 # Period
    BY <2>1, <2>3, <2>4
  <2> QED
    BY <2>1, <2>4, <2>5
<1>4. CASE Round
  <2>1. Reassert /\ sinceTick' = 0 /\ answered' = bus /\ UNCHANGED <<powered, pos>>
    BY <1>4 DEF Round
  <2>2. MineNeedsPower'
    BY <2>1 DEF Reassert
  <2>3. SUFFICES ASSUME mine', bus, Scan # 0, Scan + MaxGap <= Period
                 PROVE  pos' - sinceTick' \in 0..Scan-1
    BY <2>1, <2>2
  <2>4. Want /\ Scan < Period
    <3>1. Want
      <4>1. mine' \in IF Want /\ ~Discovering THEN {TRUE} ELSE {mine /\ Want}
        BY <2>1, <2>3 DEF Reassert
      <4> QED
        BY <2>3, <4>1
    <3>2. Scan < Period
      BY <2>3
    <3> QED
      BY <3>1, <3>2
  <2>5. pos < Scan
    BY <2>3, <2>4 DEF Want, Window
  <2> QED
    BY <2>1, <2>5
<1>5. CASE AirChanges \/ Forget \/ NotchdScans
  BY <1>5, <1>1 DEF AirChanges, Forget, NotchdScans, radio, clocks
<1>6. CASE \/ Aside(LinkChanges) \/ Aside(PairingChanges) \/ Aside(BusChanges)
           \/ Aside(Send) \/ Aside(Receive)
  BY <1>6, <1>1 DEF Aside, radio, clocks
<1>7. CASE UNCHANGED radioVars
  BY <1>7, <1>1 DEF radioVars, radio, clocks
<1> QED
  BY <1>2, <1>3, <1>4, <1>5, <1>6, <1>7 DEF RadioNext

\* The radio is given back at the first round after its window that bluez answers,
\* however many calls failed before, for every duty cycle and every spacing of the
\* rounds that leaves one between two windows.
THEOREM RadioGivenBack == RadioSpec => []RadioIsGivenBack
<1>1. RadioInit => MineNeedsPower /\ RadioIsGivenBack
  BY DEF RadioInit, MineNeedsPower, RadioIsGivenBack
<1>2. TypeOK /\ RadioTypes /\ MineNeedsPower /\ RadioIsGivenBack /\ [RadioNext]_radioVars
        => MineNeedsPower' /\ RadioIsGivenBack'
  BY GivenBackStep
<1> QED
  BY <1>1, <1>2, RadioTypesHold, PTL DEF RadioSpec
=============================================================================
