--------------------------- MODULE AnchorLockProofs ---------------------------
(***************************************************************************)
(* What the channel between the anchor and the arbiter does not break, for *)
(* both detectors, any number of ports and devices, any capacity of the    *)
(* channel and any requests in between.                                    *)
(***************************************************************************)
EXTENDS AnchorLock, ArbiterProofs, AnchorProofs, QueueCounts

-----------------------------------------------------------------------------
(***************************************************************************)
(* The inductive invariant of the channel.                                 *)
(***************************************************************************)

AwayMsg == <<AnchorSource, "away">>
CallMsg == <<WebhookSource, "away">>

\* What may be in the channel.
Msgs == ({AnchorSource} \X Edge) \union {CallMsg} \union {<<"lock">>, <<"resume">>}
          \union {<<"pause", d>> : d \in PauseFor}

ChannelTypes == chan \in Seq(Msgs) /\ pulses \in Nat /\ autoLocks \in Nat

\* Nobody but the anchor is absent; a webhook call can only count down.
AnchorAlone == absent \subseteq {AnchorSource} /\ pending \in {Nobody, AnchorSource, WebhookSource}

\* The balance of reports: each is on its way, held against the user (as an
\* absence, or as the countdown of a call), answered by one lock, or forgotten.
Held == (IF arb = "select" /\ AnchorSource \in absent THEN 1 ELSE 0)
          + (IF pending = WebhookSource THEN 1 ELSE 0)
ReportsCover ==
  autoLocks + Waiting(chan, AwayMsg) + Waiting(chan, CallMsg) + Held <= tally["away"] + pulses

ChannelInv == ChannelTypes /\ AnchorAlone /\ ReportsCover

-----------------------------------------------------------------------------
\* The channel adds nothing to what the arbiter does: every step of the
\* composition is one of Arbiter or leaves it alone.
LEMMA LockStepIsArbiters == [LockNext]_lockVars => [Next]_arbVars
<1> SUFFICES ASSUME [LockNext]_lockVars PROVE [Next]_arbVars
  OBVIOUS
<1>1. CASE AnchorStep \/ Call \/ Command \/ UNCHANGED lockVars
  BY <1>1 DEF AnchorStep, Call, Command, SendSignal, lockVars
<1>2. CASE Receive
  <2>1. Handle(Head(chan))
    BY <1>2 DEF Receive
  <2>2. /\ \A s \in Source : Away(s) => Next
        /\ \A s \in Source \ Pulse : Back(s) => Next
        /\ LockNow => Next
        /\ Resume => Next
        /\ \A d \in PauseFor : Pause(d) => Next
    BY DEF Next
  <2> QED
    BY <2>1, <2>2 DEF Handle
<1>3. CASE Timer
  BY <1>3 DEF Timer, Next
<1>4. CASE Unattended(LockDone) \/ Unattended(TimePasses) \/ Unattended(Unlock)
  BY <1>4 DEF Unattended, Next
<1> QED
  BY <1>1, <1>2, <1>3, <1>4 DEF LockNext

\* The arbiter behind the channel is Arbiter, with every property of it that
\* ArbiterProofs has.
THEOREM ArbiterInside == LockSpec => Spec
<1>1. LockInit => Init
  BY DEF LockInit
<1> QED
  BY <1>1, LockStepIsArbiters, PTL DEF LockSpec, Spec

\* Behind the channel of the anchor, the webhook and the user an absence still
\* leaves the books by a return, a pause or a lock only, nothing but the user's
\* request locks in a cooldown, and a window belongs to the source that opened it.
THEOREM PromiseIsKept == LockSpec => Promise!Safe /\ OnlyUserLocksThen /\ OwnerKeepsItsWindow
  BY ArbiterInside, ImplementsPresenceSafety, AutomaticLocksAreGuarded, WindowIsKept, PTL

-----------------------------------------------------------------------------
\* What a signal does to the absences.
LEMMA AbsencesAfter ==
  /\ \A s \in Source : Away(s) => absent' \subseteq absent \union {s}
  /\ \A s \in Source : Back(s) => absent' = absent \ {s}
  /\ \A d \in PauseFor : Pause(d) => absent' = {}
  /\ LockNow \/ Resume \/ TimerFires \/ TimePasses \/ Unlock => UNCHANGED absent
  /\ LockDone => absent' = {}
<1>1. ASSUME NEW s \in Source, Away(s) PROVE absent' \subseteq absent \union {s}
  BY <1>1 DEF Away, AwayIgnored, AwaySetAside, AwayBegins, Remember
<1>2. ASSUME NEW s \in Source, Back(s) PROVE absent' = absent \ {s}
  BY <1>2 DEF Back, BackOther, BackOwner
<1>3. LockNow \/ Resume \/ TimerFires \/ TimePasses \/ Unlock => UNCHANGED absent
  BY DEF LockNow, Resume, TimerFires, CountdownElapsed, CooldownOver, TimePasses, Unlock
<1>4. LockDone => absent' = {}
  BY DEF LockDone
<1>5. \A d \in PauseFor : Pause(d) => absent' = {}
  BY DEF Pause
<1> QED
  BY <1>1, <1>2, <1>3, <1>4, <1>5

\* Only the arbiter's taking of a signal changes what it was told.
LEMMA OnlyReceiveTells ==
  AnchorStep \/ Call \/ Command => UNCHANGED <<absent, believed>>
<1>1. AnchorStep => UNCHANGED absent
  BY DEF AnchorStep, arbVars
<1>2. Watch => UNCHANGED believed
  BY DEF Watch, Pull, InterfaceEvent, Plug, OpenSocket, SocketDies,
         Recv, LookUp, Poll, ThreadStep, SetPath, Update, Send,
         link
<1>3. Call \/ Command => UNCHANGED <<absent, believed>>
  BY DEF Call, Command, SendSignal, arbVars
<1> QED
  BY <1>1, <1>2, <1>3 DEF AnchorStep

\* The anchor is held against the user only on its own last word, whatever other
\* signals, timers, locks and pauses come in between.
THEOREM AbsenceIsItsLastWord == LockSpec => []AbsentIsBelieved
<1>1. LockInit => AbsentIsBelieved
  BY DEF LockInit, Init, AbsentIsBelieved
<1>2. ASSUME AbsentIsBelieved, [LockNext]_lockVars PROVE AbsentIsBelieved'
  <2> USE <1>2 DEF AbsentIsBelieved
  <2>1. CASE AnchorStep \/ Call \/ Command
    BY <2>1, OnlyReceiveTells
  <2>2. CASE Receive
    <3> DEFINE sig == Head(chan)
    <3>1. Handle(sig) /\ believed' = IF sig[1] = AnchorSource THEN sig[2] ELSE believed
      BY <2>2 DEF Receive
    <3>2. AnchorSource \in Source /\ Source \cap {"lock", "resume", "pause"} = {}
      BY AnchorLockAssumption
    <3>3. CASE \E s \in Source : sig = <<s, "away">> /\ Away(s)
      BY <3>1, <3>3, AbsencesAfter
    <3>4. CASE \E s \in Source \ Pulse : sig = <<s, "back">> /\ Back(s)
      BY <3>1, <3>4, AbsencesAfter
    <3>5. CASE (sig = <<"lock">> /\ LockNow) \/ (sig = <<"resume">> /\ Resume)
      <4>1. sig[1] # AnchorSource /\ UNCHANGED absent
        BY <3>2, <3>5, AbsencesAfter
      <4> QED
        BY <3>1, <4>1
    <3>6. CASE \E d \in PauseFor : sig = <<"pause", d>> /\ Pause(d)
      BY <3>6, AbsencesAfter
    <3> QED
      BY <3>1, <3>3, <3>4, <3>5, <3>6 DEF Handle
  <2>3. CASE Timer
    BY <2>3, AbsencesAfter DEF Timer, channel
  <2>4. CASE Unattended(LockDone) \/ Unattended(TimePasses) \/ Unattended(Unlock)
    BY <2>4, AbsencesAfter DEF Unattended, channel
  <2>5. CASE UNCHANGED lockVars
    BY <2>5 DEF lockVars, arbVars, channel
  <2> QED
    BY <2>1, <2>2, <2>3, <2>4, <2>5 DEF LockNext
<1> QED
  BY <1>1, <1>2, PTL DEF LockSpec

-----------------------------------------------------------------------------
(***************************************************************************)
(* The detectors behind a channel that others share.                       *)
(***************************************************************************)

\* The detectors see nothing of who else uses the channel: every step of the
\* composition is one of theirs or leaves them alone.
LEMMA LockStepIsDetectors == [LockNext]_lockVars => [Watch]_detectors
<1> SUFFICES ASSUME [LockNext]_lockVars PROVE [Watch]_detectors
  OBVIOUS
<1>1. CASE AnchorStep
  BY <1>1 DEF AnchorStep
<1>2. CASE ~AnchorStep
  BY <1>2 DEF LockNext, Call, Command, SendSignal, Receive, Timer, Unattended, lockVars
<1> QED
  BY <1>1, <1>2

\* What the two threads keep between them they keep in front of the arbiter,
\* whoever sends in between and however long a full channel holds them up.
THEOREM DetectorsKeepTheirBooks == LockSpec => []DetectorInv
<1>1. LockInit => DetectorInv
  BY AnchorInitHolds DEF LockInit, AnchorInv
<1> QED
  BY <1>1, LockStepIsDetectors, DetectorStepHolds, PTL DEF LockSpec

\* So no edge of the flag is lost, an anchor that stays out is never reported, and
\* while the poll is alone a pull is reported once.
THEOREM DetectorsAreRight ==
  LockSpec => /\ [](EdgesAddUp /\ StaleDevpathIsPassing /\ OnePullOneReport)
              /\ AbsentStaysSilent
<1>1. DetectorInv => EdgesAddUp /\ StaleDevpathIsPassing
  BY DEF DetectorInv
<1> QED
  BY <1>1, SilenceFollows, OneReportFollows, LockStepIsDetectors, DetectorsKeepTheirBooks, PTL
  DEF LockSpec, LockInit

-----------------------------------------------------------------------------
(***************************************************************************)
(* The arbiter's side: what a signal does to what is held, and whether it  *)
(* locks.                                                                  *)
(***************************************************************************)

LocksNow == IF arb = "select" /\ arb' = "locking" THEN 1 ELSE 0

LEMMA HeldIsNumber == Held \in Nat /\ Held' \in Nat /\ LocksNow \in Nat
  BY DEF Held, LocksNow

\* A departure or a call is held or answered by one lock, never both.
LEMMA AwayIsHeldOnce ==
  ASSUME IInv, AnchorAlone, NEW s \in {AnchorSource, WebhookSource}, Away(s)
  PROVE  AnchorAlone' /\ LocksNow + Held' <= Held + 1
<1> USE ArbiterAssumption, AnchorLockAssumption DEF AnchorAlone, LocksNow, Held, Remember
<1>1. CASE AwayIgnored(s) \/ AwaySetAside(s)
  BY <1>1 DEF AwayIgnored, AwaySetAside
<1>2. CASE AwayBegins(s)
  BY <1>2 DEF AwayBegins, Begin, StartLock
<1> QED
  BY <1>1, <1>2 DEF Away

\* A return strikes the absence off and locks nothing: nobody else is absent who
\* could take over.
LEMMA BackHoldsLess ==
  ASSUME IInv, AnchorAlone, Back(AnchorSource)
  PROVE  AnchorAlone' /\ LocksNow = 0 /\ Held' <= Held
<1> USE AnchorLockAssumption DEF AnchorAlone, LocksNow, Held
<1>1. absent' = {} /\ arb = "select"
  BY DEF Back, BackOther, BackOwner
<1>2. CASE BackOther(AnchorSource)
  BY <1>1, <1>2 DEF BackOther
<1>3. CASE BackOwner(AnchorSource)
  <2>1. StartNext({}, notch /\ ~Notch)
    BY <1>1, <1>3 DEF BackOwner
  <2>2. arb' = arb /\ pending' = Nobody
    BY <2>1 DEF StartNext, Soonest
  <2> QED
    BY <1>1, <2>2, ArbiterAssumption
<1> QED
  BY <1>2, <1>3 DEF Back

\* A timer locks only for an absence that is held or a call that counts down,
\* and then it is held no more.
LEMMA TimerAnswersTheHeld ==
  ASSUME IInv, AnchorAlone, TimerFires
  PROVE  AnchorAlone' /\ LocksNow + Held' <= Held
<1> USE ArbiterAssumption, AnchorLockAssumption DEF AnchorAlone, LocksNow, Held
<1>1. CASE CountdownElapsed
  <2>1. pending = WebhookSource \/ (pending = AnchorSource /\ AnchorSource \in absent)
    BY <1>1 DEF CountdownElapsed, IInv, CoreInv, OwnerIsAbsent
  <2> QED
    BY <1>1, <2>1 DEF CountdownElapsed, StartLock
<1>2. CASE CooldownOver
  <2>1. /\ StartNextDoes(absent, notch) /\ absent' = absent /\ pending = Nobody
        /\ arb = "select" /\ absent = {AnchorSource}
    <3>1. absent \in SUBSET Source
      BY DEF IInv, CoreInv, TypeOK
    <3> QED
      BY <1>2, <3>1, StartNextOutcome DEF CooldownOver, TimerSet
  <2> QED
    BY <2>1 DEF StartNextDoes
<1> QED
  BY <1>1, <1>2 DEF TimerFires

\* A lock, a pause and the end of a lock drop what was held; the other steps do
\* not touch it.
LEMMA OthersHoldNothing ==
  ASSUME IInv, AnchorAlone,
         \/ LockNow \/ Resume \/ LockDone \/ TimePasses \/ Unlock
         \/ \E d \in PauseFor : Pause(d)
  PROVE  /\ AnchorAlone' /\ Held' <= Held
         /\ ~LockNow => LocksNow = 0
<1> USE ArbiterAssumption, AnchorLockAssumption DEF AnchorAlone, LocksNow, Held
<1>1. CASE LockNow
  BY <1>1 DEF LockNow, StartLock
<1>2. CASE LockDone
  BY <1>2 DEF LockDone, LockNow
<1>3. CASE \E d \in PauseFor : Pause(d)
  BY <1>3 DEF Pause
<1>4. CASE Resume \/ TimePasses \/ Unlock
  BY <1>4 DEF Resume, TimePasses, Unlock
<1> QED
  BY <1>1, <1>2, <1>3, <1>4

-----------------------------------------------------------------------------
(***************************************************************************)
(* The books of the channel.                                               *)
(***************************************************************************)

\* The anchor's report is not the webhook's, and neither is the user's command.
LEMMA SignalsDiffer ==
  /\ AnchorSource # WebhookSource /\ AwayMsg # CallMsg
  /\ AwayMsg \in Msgs /\ CallMsg \in Msgs
  /\ \A e \in Edge : <<AnchorSource, e>> \in Msgs /\ (<<AnchorSource, e>> = AwayMsg <=> e = "away")
  /\ \A e \in Edge : <<AnchorSource, e>> # CallMsg
<1>1. AnchorSource # WebhookSource
  BY AnchorLockAssumption
<1> QED
  BY <1>1 DEF AwayMsg, CallMsg, Msgs, Edge

LEMMA CountsAreNumbers ==
  ASSUME ChannelTypes
  PROVE  Waiting(chan, AwayMsg) \in Nat /\ Waiting(chan, CallMsg) \in Nat
  BY PlacesAreFinite DEF ChannelTypes

\* What is sent waits, and what is taken no longer does.
LEMMA SentWaits ==
  ASSUME ChannelTypes, NEW sig \in Msgs, chan' = Append(chan, sig)
  PROVE  /\ chan' \in Seq(Msgs)
         /\ Waiting(chan', AwayMsg) = Waiting(chan, AwayMsg) + (IF sig = AwayMsg THEN 1 ELSE 0)
         /\ Waiting(chan', CallMsg) = Waiting(chan, CallMsg) + (IF sig = CallMsg THEN 1 ELSE 0)
<1>1. chan \in Seq(Msgs)
  BY DEF ChannelTypes
<1>2. chan' \in Seq(Msgs)
  BY <1>1, AppendProperties
<1>3. \A m : Waiting(Append(chan, sig), m) = Waiting(chan, m) + (IF sig = m THEN 1 ELSE 0)
  BY <1>1, WaitingAfterAppend
<1> QED
  BY <1>2, <1>3

LEMMA TakenNoLongerWaits ==
  ASSUME ChannelTypes, chan # <<>>, chan' = Tail(chan)
  PROVE  /\ Head(chan) \in Msgs /\ chan' \in Seq(Msgs)
         /\ Waiting(chan', AwayMsg) \in Nat /\ Waiting(chan', CallMsg) \in Nat
         /\ Waiting(chan, AwayMsg) = Waiting(chan', AwayMsg) + (IF Head(chan) = AwayMsg THEN 1 ELSE 0)
         /\ Waiting(chan, CallMsg) = Waiting(chan', CallMsg) + (IF Head(chan) = CallMsg THEN 1 ELSE 0)
<1>1. chan \in Seq(Msgs)
  BY DEF ChannelTypes
<1>2. Head(chan) \in Msgs /\ Tail(chan) \in Seq(Msgs)
  BY <1>1, HeadTailProperties
<1>3. \A m : Waiting(chan, m) = Waiting(Tail(chan), m) + (IF Head(chan) = m THEN 1 ELSE 0)
  BY <1>1, WaitingAfterTail
<1>4. \A m : Waiting(Tail(chan), m) \in Nat
  BY <1>2, PlacesAreFinite
<1> QED
  BY <1>2, <1>3, <1>4

\* The detectors' side: a departure is reported as it is sent.
LEMMA AnchorKeeps == ASSUME DetectorTypes, ChannelInv, AnchorStep PROVE ChannelInv'
<1> USE DEF ChannelInv
<1>1. UNCHANGED <<pulses, autoLocks, absent, pending, arb>> /\ Held' = Held
  BY DEF AnchorStep, arbVars, front, Held
<1>2. /\ tally["away"] \in Nat /\ Held \in Nat
      /\ Waiting(chan, AwayMsg) \in Nat /\ Waiting(chan, CallMsg) \in Nat
      /\ autoLocks \in Nat /\ pulses \in Nat
  BY HeldIsNumber, CountsAreNumbers DEF DetectorTypes, Edge, ChannelTypes
<1>3. ASSUME NEW t \in Thread, Send(t) PROVE ChannelInv'
  <2> DEFINE e == Report(t)
  <2>1. /\ chan' = Append(chan, <<AnchorSource, e>>) /\ e \in Edge
        /\ tally'["away"] = tally["away"] + (IF e = "away" THEN 1 ELSE 0)
    BY <1>3 DEF Send, Report, Edge, DetectorTypes
  <2> HIDE DEF e
  <2>2. PICK sig \in Msgs :
          chan' = Append(chan, sig) /\ (sig = AwayMsg <=> e = "away") /\ sig # CallMsg
    BY <2>1, SignalsDiffer
  <2>3. /\ chan' \in Seq(Msgs) /\ Waiting(chan', CallMsg) = Waiting(chan, CallMsg)
        /\ Waiting(chan', AwayMsg) = Waiting(chan, AwayMsg) + (IF e = "away" THEN 1 ELSE 0)
    BY <1>2, <2>2, SentWaits
  <2>4. ReportsCover'
    <3>1. PICK l, a, c, h, y, p \in Nat :
            /\ l = autoLocks /\ a = Waiting(chan, AwayMsg) /\ c = Waiting(chan, CallMsg) /\ h = Held
            /\ y = tally["away"] /\ p = pulses
      BY <1>2
    <3>2. \E d \in {0, 1} : Waiting(chan', AwayMsg) = a + d /\ tally'["away"] = y + d
      BY <2>1, <2>3, <3>1
    <3>3. l + a + c + h <= y + p
      BY <3>1 DEF ReportsCover
    <3>4. PICK d \in {0, 1} : Waiting(chan', AwayMsg) = a + d /\ tally'["away"] = y + d
      BY <3>2
    <3>5. l + (a + d) + c + h <= (y + d) + p
      BY <3>3
    <3> QED
      BY <1>1, <2>3, <3>1, <3>4, <3>5 DEF ReportsCover
  <2> QED
    BY <1>1, <1>2, <2>3, <2>4 DEF ChannelTypes, AnchorAlone
<1>4. CASE UNCHANGED <<chan, tally>>
  <2>1. UNCHANGED <<Waiting(chan, AwayMsg), Waiting(chan, CallMsg)>>
    BY <1>4
  <2> QED
    BY <1>1, <1>4, <2>1 DEF ChannelTypes, AnchorAlone, ReportsCover
<1> QED
  BY <1>3, <1>4
  DEF AnchorStep, Watch, ThreadStep, Pull, InterfaceEvent, Plug, OpenSocket, SocketDies, Recv,
      LookUp, Poll, SetPath, Update, link

\* A call is counted as it is sent; a command is none of the books' business.
LEMMA RequestKeeps == ASSUME DetectorTypes, ChannelInv, Call \/ Command PROVE ChannelInv'
<1> USE DEF ChannelInv
<1>1. UNCHANGED <<autoLocks, absent, pending, arb, tally>> /\ Held' = Held
  BY DEF Call, Command, SendSignal, arbVars, detectors, Held
<1>2. /\ tally["away"] \in Nat /\ Held \in Nat
      /\ Waiting(chan, AwayMsg) \in Nat /\ Waiting(chan, CallMsg) \in Nat
      /\ autoLocks \in Nat /\ pulses \in Nat
  BY HeldIsNumber, CountsAreNumbers DEF DetectorTypes, Edge, ChannelTypes
<1>3. CASE Call
  <2>1. chan' = Append(chan, CallMsg) /\ pulses' = pulses + 1
    BY <1>3 DEF Call, SendSignal, CallMsg
  <2>2. CallMsg \in Msgs /\ AwayMsg # CallMsg
    BY SignalsDiffer
  <2>3. /\ chan' \in Seq(Msgs) /\ Waiting(chan', AwayMsg) = Waiting(chan, AwayMsg)
        /\ Waiting(chan', CallMsg) = Waiting(chan, CallMsg) + 1
    BY <1>2, <2>1, <2>2, SentWaits
  <2>4. ReportsCover'
    <3>1. PICK l, a, c, h, y, p \in Nat :
            /\ l = autoLocks /\ a = Waiting(chan, AwayMsg) /\ c = Waiting(chan, CallMsg) /\ h = Held
            /\ y = tally["away"] /\ p = pulses
      BY <1>2
    <3>2. l + a + c + h <= y + p
      BY <3>1 DEF ReportsCover
    <3>3. l + a + (c + 1) + h <= y + (p + 1)
      BY <3>2
    <3> QED
      BY <1>1, <2>1, <2>3, <3>1, <3>3 DEF ReportsCover
  <2> QED
    BY <1>1, <1>2, <2>1, <2>3, <2>4 DEF ChannelTypes, AnchorAlone
<1>4. CASE Command
  <2>1. PICK sig \in Msgs : chan' = Append(chan, sig) /\ sig # AwayMsg /\ sig # CallMsg
    <3>1. CASE \E c \in Commands \ {"pause"} : SendSignal(<<c>>)
      <4>1. PICK c \in {"lock", "resume"} : chan' = Append(chan, <<c>>)
        BY <3>1, AnchorLockAssumption DEF SendSignal
      <4> QED
        BY <4>1 DEF Msgs, AwayMsg, CallMsg
    <3>2. CASE \E d \in PauseFor : SendSignal(<<"pause", d>>)
      <4>1. PICK d \in PauseFor : chan' = Append(chan, <<"pause", d>>)
        BY <3>2 DEF SendSignal
      <4>2. "pause" # AnchorSource /\ "pause" # WebhookSource
        BY AnchorLockAssumption, ArbiterAssumption
      <4> QED
        BY <4>1, <4>2 DEF Msgs, AwayMsg, CallMsg
    <3> QED
      BY <1>4, <3>1, <3>2 DEF Command
  <2>2. /\ chan' \in Seq(Msgs) /\ UNCHANGED pulses
        /\ Waiting(chan', AwayMsg) = Waiting(chan, AwayMsg)
        /\ Waiting(chan', CallMsg) = Waiting(chan, CallMsg)
    BY <1>2, <1>4, <2>1, SentWaits DEF Command
  <2> QED
    BY <1>1, <2>2 DEF ChannelTypes, AnchorAlone, ReportsCover
<1> QED
  BY <1>3, <1>4

\* The arbiter takes the first signal: what was waiting is held, answered or
\* forgotten.
LEMMA ReceiveKeeps == ASSUME IInv, DetectorTypes, ChannelInv, Receive PROVE ChannelInv'
<1> USE DEF ChannelInv
<1> DEFINE sig == Head(chan)
           da == IF sig = AwayMsg THEN 1 ELSE 0
           dc == IF sig = CallMsg THEN 1 ELSE 0
           x == IF sig = <<"lock">> THEN 0 ELSE LocksNow
<1>1. /\ chan # <<>> /\ chan' = Tail(chan) /\ UNCHANGED <<pulses, tally>> /\ Handle(sig)
      /\ autoLocks' = autoLocks + x
  <2>1. autoLocks \in Nat
    BY DEF ChannelTypes
  <2> QED
    BY <2>1 DEF Receive, CountLock, LocksNow, front, detectors
<1>2. /\ sig \in Msgs /\ chan' \in Seq(Msgs)
      /\ Waiting(chan', AwayMsg) \in Nat /\ Waiting(chan', CallMsg) \in Nat
      /\ Waiting(chan, AwayMsg) = Waiting(chan', AwayMsg) + da
      /\ Waiting(chan, CallMsg) = Waiting(chan', CallMsg) + dc
  BY <1>1, TakenNoLongerWaits
<1>3. da \in {0, 1} /\ dc \in {0, 1} /\ x \in Nat /\ Held \in Nat /\ Held' \in Nat
  BY HeldIsNumber
<1> DEFINE Kept == AnchorAlone' /\ x + Held' <= Held + da + dc
<1>a. PICK h, h2, y, n \in Nat : h = Held /\ h2 = Held' /\ y = x /\ n = LocksNow
  BY <1>3, HeldIsNumber
<1>b. ASSUME AnchorAlone', y + h2 <= h + da + dc PROVE Kept
  BY <1>a, <1>b
<1>4. Kept
  <2>1. /\ AnchorSource \in Source \ Pulse /\ WebhookSource \in Pulse /\ Pulse \subseteq Source
        /\ Source \cap {"lock", "resume", "pause"} = {}
    BY AnchorLockAssumption, ArbiterAssumption
  <2>2. ASSUME NEW s \in Source, sig = <<s, "away">>, Away(s) PROVE Kept
    <3>1. s \in {AnchorSource, WebhookSource}
      BY <1>2, <2>1, <2>2 DEF Msgs, CallMsg
    <3>2. y = n /\ ((da = 1 /\ dc = 0) \/ (da = 0 /\ dc = 1))
      BY <1>a, <2>1, <2>2, <3>1 DEF AwayMsg, CallMsg
    <3>3. AnchorAlone' /\ n + h2 <= h + 1
      BY <1>a, <2>2, <3>1, AwayIsHeldOnce
    <3> HIDE DEF sig, da, dc, x, Kept
    <3>4. y + h2 <= h + da + dc
      BY <3>2, <3>3
    <3> QED
      BY <1>b, <3>3, <3>4
  <2>3. ASSUME NEW s \in Source \ Pulse, sig = <<s, "back">>, Back(s) PROVE Kept
    <3>1. s = AnchorSource
      BY <1>2, <2>1, <2>3 DEF Msgs, CallMsg
    <3>2. da = 0 /\ dc = 0 /\ y = n
      BY <1>a, <2>3 DEF AwayMsg, CallMsg
    <3>3. AnchorAlone' /\ n = 0 /\ h2 <= h
      BY <1>a, <2>3, <3>1, BackHoldsLess
    <3> HIDE DEF sig, da, dc, x, Kept
    <3>4. y + h2 <= h + da + dc
      BY <3>2, <3>3
    <3> QED
      BY <1>b, <3>3, <3>4
  <2>4. CASE sig = <<"lock">> /\ LockNow
    <3>1. da = 0 /\ dc = 0 /\ y = 0
      BY <1>a, <2>4 DEF AwayMsg, CallMsg
    <3>2. AnchorAlone' /\ h2 <= h
      BY <1>a, <2>4, OthersHoldNothing
    <3> HIDE DEF sig, da, dc, x, Kept
    <3>3. y + h2 <= h + da + dc
      BY <3>1, <3>2
    <3> QED
      BY <1>b, <3>2, <3>3
  <2>5. CASE (sig = <<"resume">> /\ Resume) \/ (\E d \in PauseFor : sig = <<"pause", d>> /\ Pause(d))
    <3>1. da = 0 /\ dc = 0 /\ y = n
      BY <1>a, <2>1, <2>5 DEF AwayMsg, CallMsg
    <3>2. ~LockNow
      BY <2>5 DEF LockNow, StartLock, Resume, Pause
    <3>3. AnchorAlone' /\ h2 <= h /\ n = 0
      BY <1>a, <2>5, <3>2, OthersHoldNothing
    <3> HIDE DEF sig, da, dc, x, Kept
    <3>4. y + h2 <= h + da + dc
      BY <3>1, <3>3
    <3> QED
      BY <1>b, <3>3, <3>4
  <2> QED
    BY <1>1, <2>2, <2>3, <2>4, <2>5 DEF Handle
<1>5. /\ autoLocks \in Nat /\ tally["away"] + pulses \in Nat
      /\ Waiting(chan, AwayMsg) \in Nat /\ Waiting(chan, CallMsg) \in Nat
  BY CountsAreNumbers DEF ChannelTypes, DetectorTypes, Edge
<1> HIDE DEF sig, da, dc, x
<1>6. (autoLocks + x) + Waiting(chan', AwayMsg) + Waiting(chan', CallMsg) + Held' <= tally["away"] + pulses
  <2>1. PICK l, a, c, r, a2, c2 \in Nat :
          /\ l = autoLocks /\ a = Waiting(chan, AwayMsg) /\ c = Waiting(chan, CallMsg)
          /\ r = tally["away"] + pulses
          /\ a2 = Waiting(chan', AwayMsg) /\ c2 = Waiting(chan', CallMsg)
    BY <1>2, <1>5
  <2>2. l + a + c + h <= r /\ a = a2 + da /\ c = c2 + dc /\ y + h2 <= h + da + dc
    BY <1>2, <1>4, <1>a, <2>1 DEF ReportsCover
  <2>3. (l + y) + a2 + c2 + h2 <= r
    BY <1>3, <2>2
  <2> QED
    BY <1>a, <2>1, <2>3
<1> QED
  BY <1>1, <1>2, <1>3, <1>4, <1>5, <1>6 DEF ChannelTypes, ReportsCover

\* A timer answers what is held; the clock, the lock command and the user touch
\* neither the channel nor the books.
LEMMA OthersKeep ==
  ASSUME IInv, DetectorTypes, ChannelInv,
         \/ Timer \/ UNCHANGED lockVars
         \/ Unattended(LockDone) \/ Unattended(TimePasses) \/ Unattended(Unlock)
  PROVE  ChannelInv'
<1> USE DEF ChannelInv
<1>1. UNCHANGED <<chan, pulses, tally>>
  BY DEF Timer, Unattended, lockVars, channel, front, detectors
<1>2. /\ autoLocks \in Nat /\ tally["away"] + pulses \in Nat
      /\ Waiting(chan, AwayMsg) \in Nat /\ Waiting(chan, CallMsg) \in Nat
  BY CountsAreNumbers DEF ChannelTypes, DetectorTypes, Edge
<1>3. AnchorAlone' /\ \E x \in Nat : autoLocks' = autoLocks + x /\ x + Held' <= Held
  <2>1. CASE Timer
    <3>1. autoLocks' = autoLocks + LocksNow
      BY <1>2, <2>1 DEF Timer, CountLock, LocksNow
    <3>2. AnchorAlone' /\ LocksNow + Held' <= Held
      BY <2>1, TimerAnswersTheHeld DEF Timer
    <3> QED
      BY <3>1, <3>2, HeldIsNumber
  <2>2. CASE Unattended(LockDone) \/ Unattended(TimePasses) \/ Unattended(Unlock)
    <3>1. autoLocks' = autoLocks + 0 /\ AnchorAlone' /\ Held' <= Held
      BY <1>2, <2>2, OthersHoldNothing DEF Unattended
    <3>2. PICK h, h2 \in Nat : h = Held /\ h2 = Held' /\ 0 + h2 <= h
      BY <3>1, HeldIsNumber
    <3> QED
      BY <3>1, <3>2
  <2>3. CASE UNCHANGED lockVars
    <3>1. autoLocks' = autoLocks + 0 /\ AnchorAlone' /\ Held' = Held
      BY <1>2, <2>3 DEF lockVars, arbVars, AnchorAlone, Held
    <3>2. PICK h \in Nat : h = Held /\ h = Held'
      BY <3>1, HeldIsNumber
    <3>3. 0 + h <= h
      OBVIOUS
    <3> QED
      BY <3>1, <3>2, <3>3
  <2> QED
    BY <2>1, <2>2, <2>3
<1>4. PICK x \in Nat : autoLocks' = autoLocks + x /\ x + Held' <= Held
  BY <1>3
<1>5. (autoLocks + x) + Waiting(chan, AwayMsg) + Waiting(chan, CallMsg) + Held' <= tally["away"] + pulses
  <2>1. PICK l, a, c, h, r, y, h2 \in Nat :
          /\ l = autoLocks /\ a = Waiting(chan, AwayMsg) /\ c = Waiting(chan, CallMsg) /\ h = Held
          /\ r = tally["away"] + pulses /\ y = x /\ h2 = Held'
    BY <1>2, HeldIsNumber
  <2>2. l + a + c + h <= r /\ y + h2 <= h
    BY <1>4, <2>1 DEF ReportsCover
  <2>3. (l + y) + a + c + h2 <= r
    BY <2>2
  <2> QED
    BY <2>1, <2>3
<1>6. UNCHANGED <<Waiting(chan, AwayMsg), Waiting(chan, CallMsg)>>
  BY <1>1
<1> QED
  BY <1>1, <1>2, <1>3, <1>4, <1>5, <1>6 DEF ChannelTypes, ReportsCover

\* The daemon starts with an empty channel and no departure reported.
LEMMA ChannelInitHolds == LockInit => ChannelInv
<1> SUFFICES ASSUME LockInit PROVE ChannelInv
  OBVIOUS
<1>1. /\ arb = "select" /\ pending = Nobody /\ absent = {} /\ chan = <<>>
      /\ pulses = 0 /\ autoLocks = 0 /\ tally["away"] = 0
  BY DEF LockInit, Init, AnchorInit, Edge
<1>2. Held = 0
  BY <1>1, ArbiterAssumption, AnchorLockAssumption DEF Held
<1>3. ChannelTypes /\ AnchorAlone
  BY <1>1, EmptySeq DEF ChannelTypes, AnchorAlone
<1>4. ReportsCover
  BY <1>1, <1>2, NothingWaits DEF ReportsCover
<1> QED
  BY <1>3, <1>4 DEF ChannelInv

-----------------------------------------------------------------------------
\* The invariant holds in every reachable state.
THEOREM ChannelInvariance == LockSpec => []ChannelInv
<1>1. IInv /\ DetectorInv /\ ChannelInv /\ [LockNext]_lockVars => ChannelInv'
  BY AnchorKeeps, RequestKeeps, ReceiveKeeps, OthersKeep DEF LockNext, DetectorInv
<1> QED
  BY <1>1, ChannelInitHolds, ArbiterInside, Invariance, DetectorsKeepTheirBooks, PTL DEF LockSpec

\* Whatever the detectors do, no departure they report and no call is answered by
\* two locks: not through a cooldown, a takeover, a lock command that fails or an
\* unlock in between.
THEOREM OneLockPerReport == LockSpec => [](autoLocks <= tally["away"] + pulses)
<1>1. ChannelInv /\ DetectorInv => autoLocks <= tally["away"] + pulses
  BY CountsAreNumbers, HeldIsNumber
  DEF ChannelInv, ChannelTypes, ReportsCover, DetectorInv, DetectorTypes, Edge
<1> QED
  BY <1>1, ChannelInvariance, DetectorsKeepTheirBooks, PTL

\* Until the uevent thread has taken an event for the anchor's, a lock has a pull
\* or a call of its own.
THEOREM PollLocksOnce == LockSpec => [](~heard => OneLockPerReason)
<1>1. ChannelInv /\ DetectorInv => (~heard => OneLockPerReason)
  <2> SUFFICES ASSUME ChannelInv, DetectorInv, ~heard PROVE autoLocks <= pulls + pulses
    BY DEF OneLockPerReason
  <2>1. tally["away"] <= pulls /\ tally["away"] \in Nat /\ pulls \in Nat
    BY OneReportFollows DEF OnePullOneReport, DetectorInv, DetectorTypes, Edge
  <2> QED
    BY <2>1, CountsAreNumbers, HeldIsNumber DEF ChannelInv, ChannelTypes, ReportsCover
<1> QED
  BY <1>1, ChannelInvariance, DetectorsKeepTheirBooks, PTL

\* A daemon whose uevent socket does not open ("polling only", anchor.rs:119)
\* never locks twice for one pull.
THEOREM OneLockPerPull == SocketOpens = {FALSE} /\ LockSpec => []OneLockPerReason
<1>1. LockInit => DeafInv
  BY DEF LockInit, AnchorInit, DeafInv, Thread
<1>2. SocketOpens = {FALSE} /\ DetectorInv /\ DeafInv /\ [LockNext]_lockVars => DeafInv'
  BY DeafStep, LockStepIsDetectors DEF DetectorInv
<1>3. SocketOpens = {FALSE} /\ LockSpec => []DeafInv
  BY <1>1, <1>2, SocketStaysShut, DetectorsKeepTheirBooks, PTL DEF LockSpec
<1>4. DeafInv => ~heard
  BY DEF DeafInv
<1> QED
  BY <1>3, <1>4, PollLocksOnce, PTL
=============================================================================
