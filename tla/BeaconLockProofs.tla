--------------------------- MODULE BeaconLockProofs ---------------------------
(***************************************************************************)
(* What the channel between the headset and the arbiter does not break, as *)
(* long as the beacon reports edges only: windows, cooldowns and channels  *)
(* of any size, any advertisements and a link that flaps for ever.         *)
(***************************************************************************)
EXTENDS BeaconLock, ArbiterProofs, QueueCounts

\* The options as they are shipped (config.rs:147-149): a distance and a
\* silence are not reported, so the beacon leaves only by its link or its case.
Default == ~DistanceOn /\ Silence = 0

AwayMsg == <<BeaconSource, "away">>
BackMsg == <<BeaconSource, "back">>

-----------------------------------------------------------------------------
(***************************************************************************)
(* The inductive invariant.                                                *)
(***************************************************************************)

Typed ==
  /\ wasArmed \in BOOLEAN
  /\ chan \in Seq({BeaconSource} \X Bcn!Signals)
  /\ falls \in Nat /\ autoLocks \in Nat

\* Nobody but the beacon is absent or counts down.
BeaconAlone == absent \subseteq {BeaconSource} /\ pending \in {Nobody, BeaconSource}

\* What the task has not sent yet is a note, the edge to what it now is, or both.
LastWord == IF wasArmed THEN "back" ELSE "away"
OutboxIsFresh == outbox \in {<<>>, <<"note">>, <<LastWord>>, <<"note", LastWord>>}

\* Every departure in the channel is still true or taken back further on.
TakenBack(i) ==
  \/ outbox # <<>> /\ outbox[Len(outbox)] = "back"
  \/ \E j \in 1..Len(chan) : j > i /\ chan[j] = BackMsg
AwayIsTrue == \A i \in 1..Len(chan) : chan[i] = AwayMsg => ~wasArmed \/ TakenBack(i)

\* The balance of falls: each is on its way, held against the user, answered by
\* one lock, or forgotten.
Held == IF arb = "select" /\ BeaconSource \in absent THEN 1 ELSE 0
FallsCover ==
  autoLocks + Waiting(chan, AwayMsg) + Waiting(outbox, "away") + Held <= falls

LockInv ==
  /\ Typed /\ BeaconAlone /\ OutboxIsFresh
  /\ AwayIsTrue /\ ArmedIsNotHeld
  /\ FallsCover

-----------------------------------------------------------------------------
\* The channel adds nothing to what the arbiter does: every step of the
\* composition is one of Arbiter or leaves it alone.
LEMMA LockStepIsArbiters == [LockNext]_lockVars => [Next]_arbVars
<1> SUFFICES ASSUME [LockNext]_lockVars PROVE [Next]_arbVars
  OBVIOUS
<1>1. CASE World \/ Tick \/ ReadFails \/ Send \/ UNCHANGED lockVars
  BY <1>1 DEF World, Tick, ReadFails, Send, lockVars
<1>2. CASE Receive
  BY <1>2, BeaconLockAssumption DEF Receive, Next
<1>3. CASE Timer \/ Clock
  BY <1>3 DEF Timer, Clock, Next
<1>4. CASE Unattended(LockDone) \/ Unattended(Unlock)
  BY <1>4 DEF Unattended, Next
<1> QED
  BY <1>1, <1>2, <1>3, <1>4 DEF LockNext

\* The arbiter behind the headset's channel is Arbiter, with every property of
\* it that ArbiterProofs has.
THEOREM ArbiterInside == LockSpec => Spec
<1>1. LockInit => Init
  BY DEF LockInit
<1> QED
  BY <1>1, LockStepIsArbiters, PTL DEF LockSpec, Spec

\* Behind the channel of a headset an absence still leaves the books by a return, a
\* pause or a lock only, nothing but the user's request locks in a cooldown, and a
\* window belongs to the source that opened it.
THEOREM PromiseIsKept == LockSpec => Promise!Safe /\ OnlyUserLocksThen /\ OwnerKeepsItsWindow
  BY ArbiterInside, ImplementsPresenceSafety, AutomaticLocksAreGuarded, WindowIsKept, PTL

-----------------------------------------------------------------------------
(***************************************************************************)
(* The task's side.                                                        *)
(***************************************************************************)

\* What waits in a fresh outbox: the fall, if it has not been sent.
LEMMA FreshOutbox ==
  ASSUME NEW w \in {"away", "back"}
  PROVE  /\ Waiting(<<>>, "away") = 0 /\ Waiting(<<"note">>, "away") = 0
         /\ Waiting(<<w>>, "away") = (IF w = "away" THEN 1 ELSE 0)
         /\ Waiting(<<"note", w>>, "away") = (IF w = "away" THEN 1 ELSE 0)
<1>1. "note" \in Bcn!Signals /\ w \in Bcn!Signals /\ "note" # "away"
  BY DEF Bcn!Signals
<1>2. \A a, b \in Bcn!Signals :
        /\ Waiting(<<a>>, "away") = (IF a = "away" THEN 1 ELSE 0)
        /\ Waiting(<<a, b>>, "away") = (IF a = "away" THEN 1 ELSE 0) + (IF b = "away" THEN 1 ELSE 0)
  BY WaitingInShortQueue
<1>3. Waiting(<<w>>, "away") = (IF w = "away" THEN 1 ELSE 0)
  BY <1>1, <1>2
<1>4. Waiting(<<"note">>, "away") = 0
  BY <1>1, <1>2
<1>5. Waiting(<<"note", w>>, "away") = (IF w = "away" THEN 1 ELSE 0)
  <2>1. PICK n \in Bcn!Signals : n = "note"
    BY <1>1
  <2>2. Waiting(<<n, w>>, "away") = (IF n = "away" THEN 1 ELSE 0) + (IF w = "away" THEN 1 ELSE 0)
    BY <1>1, <1>2, <2>1, Zenon
  <2> QED
    BY <1>1, <2>1, <2>2
<1> QED
  BY <1>3, <1>4, <1>5, NothingWaits

LEMMA CountsAreNumbers ==
  ASSUME Typed, OutboxIsFresh
  PROVE  Waiting(chan, AwayMsg) \in Nat /\ Waiting(outbox, "away") \in Nat /\ Held \in Nat
<1>1. Waiting(chan, AwayMsg) \in Nat
  BY PlacesAreFinite DEF Typed
<1>2. Waiting(outbox, "away") \in Nat
  <2>1. LastWord \in {"away", "back"}
    BY DEF LastWord
  <2>2. /\ Waiting(<<>>, "away") = 0 /\ Waiting(<<"note">>, "away") = 0
        /\ Waiting(<<LastWord>>, "away") = (IF LastWord = "away" THEN 1 ELSE 0)
        /\ Waiting(<<"note", LastWord>>, "away") = (IF LastWord = "away" THEN 1 ELSE 0)
    BY <2>1, FreshOutbox
  <2> QED
    BY <2>2 DEF OutboxIsFresh
<1> QED
  BY <1>1, <1>2 DEF Held

\* With the options as shipped a round reports the edges of being armed and
\* nothing else: one departure for each fall.
LEMMA TickReportsEdges ==
  ASSUME Default, Typed, Bcn!Tick
  PROVE  /\ outbox = <<>> /\ wasArmed' \in BOOLEAN
         /\ wasArmed' = wasArmed => outbox' \in {<<>>, <<"note">>}
         /\ wasArmed' # wasArmed => outbox' \in {<<LastWord'>>, <<"note", LastWord'>>}
<1>1. wasArmed' = Bcn!ArmedNow /\ outbox = <<>>
  BY DEF Bcn!Tick
<1>2. wasArmed' \in BOOLEAN
  <2>1. wasArmed' = (connected' /\ Bcn!Worn)
    BY <1>1 DEF Bcn!ArmedNow
  <2> QED
    BY <2>1, Zenon
<1>3. Bcn!Gone <=> wasArmed /\ ~wasArmed'
  BY <1>1 DEF Bcn!Gone, Bcn!Far, Bcn!Silent, Default
<1>4. Bcn!News = IF wasArmed /\ ~wasArmed' THEN <<"away">>
                 ELSE IF ~wasArmed /\ wasArmed' THEN <<"back">> ELSE <<>>
  BY <1>1, <1>3 DEF Bcn!News
<1>5. Bcn!News = IF wasArmed' = wasArmed THEN <<>> ELSE <<LastWord'>>
  BY <1>2, <1>4 DEF LastWord, Typed
<1>6. PICK note \in {<<>>, <<"note">>} : outbox' = note \o Bcn!News
  BY DEF Bcn!Tick
<1>7. ASSUME NEW w \in {"away", "back"}
      PROVE  /\ <<>> \o <<>> = <<>> /\ <<"note">> \o <<>> = <<"note">>
             /\ <<>> \o <<w>> = <<w>> /\ <<"note">> \o <<w>> = <<"note", w>>
  <2>1. /\ <<>> \in Seq(Bcn!Signals) /\ <<w>> \in Seq(Bcn!Signals)
        /\ <<"note">> \in Seq(Bcn!Signals) /\ "note" \in Bcn!Signals /\ w \in Bcn!Signals
    BY DEF Bcn!Signals
  <2>2. \A q \in Seq(Bcn!Signals) : q \o <<>> = q /\ <<>> \o q = q
    BY ConcatEmptySeq
  <2>3. <<"note">> \o <<w>> = <<"note", w>>
    BY <2>1, PairIsAppend, Zenon
  <2> QED
    BY <2>1, <2>2, <2>3, Zenon
<1>8. LastWord' \in {"away", "back"}
  BY DEF LastWord
<1> QED
  BY <1>1, <1>2, <1>5, <1>6, <1>7, <1>8

-----------------------------------------------------------------------------
(***************************************************************************)
(* The arbiter's side: what a step does to the absence that is held, and   *)
(* whether it locks.                                                       *)
(***************************************************************************)

LocksNow == IF arb = "select" /\ arb' = "locking" THEN 1 ELSE 0

\* A departure is held or answered by one lock, never both.
LEMMA AwayIsHeldOnce ==
  ASSUME IInv, BeaconAlone, Away(BeaconSource)
  PROVE  /\ BeaconAlone' /\ arb = "select"
         /\ LocksNow + Held' <= 1
<1> USE ArbiterAssumption, BeaconLockAssumption DEF BeaconAlone, LocksNow, Held, Remember
<1>1. CASE AwayIgnored(BeaconSource) \/ AwaySetAside(BeaconSource)
  BY <1>1 DEF AwayIgnored, AwaySetAside
<1>2. CASE AwayBegins(BeaconSource)
  BY <1>2 DEF AwayBegins, Begin, StartLock
<1> QED
  BY <1>1, <1>2 DEF Away

\* A return strikes the absence off and locks nothing: nobody else is absent who
\* could take over.
LEMMA BackHoldsNothing ==
  ASSUME IInv, BeaconAlone, Back(BeaconSource)
  PROVE  BeaconAlone' /\ absent' = {} /\ LocksNow = 0 /\ Held' = 0 /\ arb = "select"
<1> USE BeaconLockAssumption DEF BeaconAlone, LocksNow, Held
<1>1. absent' = {} /\ arb = "select"
  BY DEF Back, BackOther, BackOwner
<1>2. CASE BackOther(BeaconSource)
  BY <1>1, <1>2 DEF BackOther
<1>3. CASE BackOwner(BeaconSource)
  <2>1. StartNext({}, notch /\ ~Notch)
    BY <1>1, <1>3 DEF BackOwner
  <2>2. arb' = arb /\ pending' = Nobody
    BY <2>1 DEF StartNext, Soonest
  <2> QED
    BY <1>1, <2>2
<1> QED
  BY <1>2, <1>3 DEF Back

\* A timer locks only for an absence that is held, and then it is held no more.
LEMMA TimerAnswersTheHeld ==
  ASSUME IInv, BeaconAlone, TimerFires
  PROVE  BeaconAlone' /\ absent' = absent /\ LocksNow + Held' <= Held
<1> USE BeaconLockAssumption DEF BeaconAlone, LocksNow, Held
<1>1. CASE CountdownElapsed
  <2>1. pending = BeaconSource /\ BeaconSource \in absent
    BY <1>1 DEF CountdownElapsed, IInv, CoreInv, OwnerIsAbsent
  <2> QED
    BY <1>1, <2>1 DEF CountdownElapsed, StartLock
<1>2. CASE CooldownOver
  <2>1. /\ StartNextDoes(absent, notch) /\ absent' = absent
        /\ arb = "select" /\ absent = {BeaconSource}
    <3>1. absent \in SUBSET Source
      BY DEF IInv, CoreInv, TypeOK
    <3> QED
      BY <1>2, <3>1, StartNextOutcome DEF CooldownOver, TimerSet
  <2> QED
    BY <2>1 DEF StartNextDoes
<1> QED
  BY <1>1, <1>2 DEF TimerFires

\* The other steps of the arbiter lock nothing and hold nothing new.
LEMMA OthersHoldNothing ==
  /\ Note(BeaconSource) => UNCHANGED <<arb, pending, absent>>
  /\ TimePasses \/ Unlock => UNCHANGED <<arb, pending, absent>>
  /\ LockDone => absent' = {} /\ pending' = pending
  BY DEF Note, TimePasses, Unlock, LockDone

-----------------------------------------------------------------------------
\* The arithmetic of the balance: locks and the held absence against what waits.
LEMMA BalanceAfterTimer ==
  ASSUME NEW l \in Nat, NEW l2 \in Nat, NEW w \in Nat, NEW o \in Nat,
         NEW h \in Nat, NEW h2 \in Nat, NEW f \in Nat,
         l + w + o + h <= f, l2 + h2 <= l + h
  PROVE  l2 + w + o + h2 <= f
  OBVIOUS

(***************************************************************************)
(* The invariant, one kind of step at a time.                              *)
(***************************************************************************)

\* A round of the task sends nothing yet.
LEMMA TickKeeps == ASSUME Default, LockInv, Tick PROVE LockInv'
<1> USE DEF LockInv
<1>1. /\ outbox = <<>> /\ wasArmed' \in BOOLEAN
      /\ wasArmed' = wasArmed => outbox' \in {<<>>, <<"note">>}
      /\ wasArmed' # wasArmed => outbox' \in {<<LastWord'>>, <<"note", LastWord'>>}
  BY TickReportsEdges DEF Tick
<1>2. /\ UNCHANGED <<chan, absent, pending, arb, autoLocks>>
      /\ falls' = IF wasArmed /\ ~wasArmed' THEN falls + 1 ELSE falls
  BY DEF Tick, Bcn!Tick, arbVars
<1>3. Typed' /\ BeaconAlone' /\ OutboxIsFresh'
  BY <1>1, <1>2 DEF Typed, BeaconAlone, OutboxIsFresh
<1>4. ~wasArmed /\ wasArmed' => outbox' # <<>> /\ outbox'[Len(outbox')] = "back"
  <2> SUFFICES ASSUME ~wasArmed, wasArmed' PROVE outbox' # <<>> /\ outbox'[Len(outbox')] = "back"
    OBVIOUS
  <2>1. outbox' = <<"back">> \/ outbox' = <<"note", "back">>
    BY <1>1 DEF LastWord
  <2>2. CASE outbox' = <<"back">>
    BY <2>2
  <2>3. CASE outbox' = <<"note", "back">>
    <3>1. <<"note", "back">> # <<>> /\ <<"note", "back">>[Len(<<"note", "back">>)] = "back"
      BY ShortQueueEnds
    <3> QED
      BY <2>3, <3>1, Zenon
  <2> QED
    BY <2>1, <2>2, <2>3
<1>5. AwayIsTrue' /\ ArmedIsNotHeld'
  <2>1. CASE ~wasArmed' \/ ~wasArmed
    BY <1>2, <1>4, <2>1 DEF AwayIsTrue, TakenBack, ArmedIsNotHeld, BackOnItsWay
  <2>2. CASE wasArmed' /\ wasArmed
    BY <1>1, <1>2, <2>2 DEF AwayIsTrue, TakenBack, ArmedIsNotHeld, BackOnItsWay
  <2> QED
    BY <2>1, <2>2
<1>6. FallsCover'
  <2>1. Waiting(outbox, "away") = 0
    BY <1>1, NothingWaits
  <2>2. Waiting(outbox', "away") = IF wasArmed /\ ~wasArmed' THEN 1 ELSE 0
    <3>1. LastWord' \in {"away", "back"} /\ (LastWord' = "away" <=> ~wasArmed')
      BY DEF LastWord
    <3>2. /\ Waiting(<<>>, "away") = 0 /\ Waiting(<<"note">>, "away") = 0
          /\ Waiting(<<LastWord'>>, "away") = (IF LastWord' = "away" THEN 1 ELSE 0)
          /\ Waiting(<<"note", LastWord'>>, "away") = (IF LastWord' = "away" THEN 1 ELSE 0)
      BY <3>1, FreshOutbox
    <3> QED
      BY <1>1, <3>1, <3>2 DEF Typed
  <2>3. Held' = Held /\ Held \in Nat /\ Waiting(chan, AwayMsg) \in Nat
    BY <1>2, PlacesAreFinite DEF Held, Typed
  <2> QED
    BY <1>2, <2>1, <2>2, <2>3 DEF FallsCover, Typed
<1> QED
  BY <1>3, <1>5, <1>6

\* A send moves a signal from the outbox to the channel.
LEMMA SendKeeps == ASSUME LockInv, Send PROVE LockInv'
<1> USE DEF LockInv
<1> DEFINE s == Head(outbox)
<1>1. /\ outbox # <<>> /\ chan' = Append(chan, <<BeaconSource, s>>) /\ outbox' = Tail(outbox)
      /\ UNCHANGED <<wasArmed, absent, pending, arb, falls, autoLocks>>
  BY DEF Send, Bcn!Send, arbVars
<1>2. LastWord' = LastWord /\ LastWord \in {"away", "back"}
  BY <1>1 DEF LastWord
<1>3. \/ outbox = <<"note">> /\ s = "note" /\ outbox' = <<>>
      \/ outbox = <<LastWord>> /\ s = LastWord /\ outbox' = <<>>
      \/ outbox = <<"note", LastWord>> /\ s = "note" /\ outbox' = <<LastWord>>
  <2>1. outbox = <<"note">> \/ outbox = <<LastWord>> \/ outbox = <<"note", LastWord>>
    BY <1>1 DEF OutboxIsFresh
  <2>2. CASE outbox = <<"note">>
    BY <1>1, <2>2
  <2>3. CASE outbox = <<LastWord>>
    BY <1>1, <2>3
  <2>4. CASE outbox = <<"note", LastWord>>
    <3>1. Head(<<"note", LastWord>>) = "note" /\ Tail(<<"note", LastWord>>) = <<LastWord>>
      BY ShortQueueEnds
    <3> QED
      BY <1>1, <2>4, <3>1, Zenon
  <2> QED
    BY <2>1, <2>2, <2>3, <2>4
<1>4. <<BeaconSource, s>> \in {BeaconSource} \X Bcn!Signals
  BY <1>2, <1>3 DEF Bcn!Signals
<1>5. /\ chan' \in Seq({BeaconSource} \X Bcn!Signals) /\ Len(chan) \in Nat
      /\ Len(chan') = Len(chan) + 1 /\ chan'[Len(chan) + 1] = <<BeaconSource, s>>
      /\ \A i \in 1..Len(chan) : chan'[i] = chan[i]
  BY <1>1, <1>4, AppendProperties DEF Typed
<1>6. Typed' /\ BeaconAlone' /\ OutboxIsFresh'
  BY <1>1, <1>2, <1>3, <1>5 DEF Typed, BeaconAlone, OutboxIsFresh
<1>7. BackOnItsWay => BackOnItsWay'
  <2>1. CASE outbox # <<>> /\ outbox[Len(outbox)] = "back"
    <3>1. s = "back" \/ (outbox' # <<>> /\ outbox'[Len(outbox')] = "back")
      BY <1>3, <2>1
    <3> QED
      BY <1>5, <3>1 DEF BackOnItsWay
  <2>2. CASE \E i \in 1..Len(chan) : chan[i] = BackMsg
    <3>1. PICK i \in 1..Len(chan) : chan[i] = BackMsg
      BY <2>2
    <3>2. i \in 1..Len(chan') /\ chan'[i] = BackMsg
      BY <1>5, <3>1
    <3> QED
      BY <3>2 DEF BackOnItsWay, BackMsg
  <2> QED
    BY <2>1, <2>2 DEF BackOnItsWay, BackMsg
<1>8. AwayIsTrue'
  <2> SUFFICES ASSUME NEW i \in 1..Len(chan'), chan'[i] = AwayMsg, wasArmed'
               PROVE  TakenBack(i)'
    BY DEF AwayIsTrue
  <2>1. i \in 1..Len(chan)
    <3>1. LastWord = "back" /\ s # "away"
      BY <1>1, <1>3 DEF LastWord
    <3> QED
      BY <1>5, <3>1 DEF AwayMsg
  <2>2. TakenBack(i)
    BY <1>1, <1>5, <2>1 DEF AwayIsTrue
  <2>3. CASE outbox # <<>> /\ outbox[Len(outbox)] = "back"
    <3>1. s = "back" \/ (outbox' # <<>> /\ outbox'[Len(outbox')] = "back")
      BY <1>3, <2>3
    <3>2. s = "back" => chan'[Len(chan) + 1] = BackMsg /\ Len(chan) + 1 \in 1..Len(chan')
                        /\ Len(chan) + 1 > i
      BY <1>5, <2>1 DEF BackMsg
    <3> QED
      BY <3>1, <3>2 DEF TakenBack, BackMsg
  <2>4. CASE \E j \in 1..Len(chan) : j > i /\ chan[j] = BackMsg
    BY <1>5, <2>4 DEF TakenBack, BackMsg
  <2> QED
    BY <2>2, <2>3, <2>4 DEF TakenBack
<1>9. ArmedIsNotHeld'
  BY <1>1, <1>7 DEF ArmedIsNotHeld
<1>10. FallsCover'
  <2>1. Waiting(chan', AwayMsg) = Waiting(chan, AwayMsg) + (IF s = "away" THEN 1 ELSE 0)
    <3> DEFINE sig == <<BeaconSource, s>>
               Sigs == {BeaconSource} \X Bcn!Signals
    <3>a. sig \in Sigs /\ chan \in Seq(Sigs) /\ chan' = Append(chan, sig)
      BY <1>1, <1>4 DEF Typed
    <3>1. Waiting(chan', AwayMsg) = Waiting(chan, AwayMsg) + (IF sig = AwayMsg THEN 1 ELSE 0)
      <4> HIDE DEF sig, Sigs
      <4> QED
        BY <3>a, WaitingAfterAppend
    <3>2. <<BeaconSource, s>> = AwayMsg <=> s = "away"
      BY DEF AwayMsg
    <3> QED
      BY <3>1, <3>2
  <2>2. Waiting(outbox, "away") = Waiting(outbox', "away") + (IF s = "away" THEN 1 ELSE 0)
    BY <1>2, <1>3, FreshOutbox
  <2>3. Waiting(outbox', "away") \in Nat /\ Waiting(chan, AwayMsg) \in Nat
    BY <1>2, <1>3, FreshOutbox, PlacesAreFinite DEF Typed
  <2>4. Held' = Held /\ Held \in Nat
    BY <1>1 DEF Held
  <2> QED
    BY <1>1, <2>1, <2>2, <2>3, <2>4 DEF FallsCover, Typed
<1> QED
  BY <1>6, <1>8, <1>9, <1>10

\* The arbiter takes the first signal: a departure becomes an absence, which is
\* taken back by what was behind it in the channel.
LEMMA ReceiveKeeps == ASSUME IInv, LockInv, Receive PROVE LockInv'
<1> USE DEF LockInv
<1>1. /\ chan # <<>> /\ chan' = Tail(chan)
      /\ UNCHANGED <<wasArmed, outbox, falls>>
      /\ autoLocks' = autoLocks + LocksNow
  BY DEF Receive, Bcn!Receive, CountLock, LocksNow, Typed
<1>2. /\ chan \in Seq({BeaconSource} \X Bcn!Signals)
      /\ chan' \in Seq({BeaconSource} \X Bcn!Signals)
      /\ Len(chan) \in Nat /\ Len(chan') = Len(chan) - 1 /\ Head(chan) = chan[1]
      /\ \A i \in 1..Len(chan') : chan'[i] = chan[i + 1]
  BY <1>1, HeadTailProperties, LenProperties DEF Typed
<1>3. \/ Head(chan) = AwayMsg /\ Away(BeaconSource)
      \/ Head(chan) = BackMsg /\ Back(BeaconSource)
      \/ Head(chan) # AwayMsg /\ Head(chan) # BackMsg /\ Note(BeaconSource)
  BY DEF Receive, AwayMsg, BackMsg
<1>4. BeaconAlone'
  BY <1>3, AwayIsHeldOnce, BackHoldsNothing, OthersHoldNothing DEF BeaconAlone
<1>5. Typed' /\ OutboxIsFresh' /\ LocksNow \in Nat
  BY <1>1, <1>2 DEF Typed, OutboxIsFresh, LastWord, LocksNow
<1>6. \A i \in 1..Len(chan) : i > 1 /\ chan[i] = BackMsg
        => i - 1 \in 1..Len(chan') /\ chan'[i - 1] = BackMsg
  <2> SUFFICES ASSUME NEW i \in 1..Len(chan), i > 1, chan[i] = BackMsg
               PROVE  i - 1 \in 1..Len(chan') /\ chan'[i - 1] = BackMsg
    OBVIOUS
  <2>1. i - 1 \in 1..Len(chan') /\ (i - 1) + 1 = i
    BY <1>2
  <2> QED
    BY <1>2, <2>1
<1>7. AwayIsTrue'
  <2> SUFFICES ASSUME NEW i \in 1..Len(chan'), chan'[i] = AwayMsg, wasArmed'
               PROVE  TakenBack(i)'
    BY DEF AwayIsTrue
  <2>1. i + 1 \in 1..Len(chan) /\ chan[i + 1] = AwayMsg
    BY <1>2
  <2>2. TakenBack(i + 1)
    BY <1>1, <2>1 DEF AwayIsTrue
  <2>3. CASE outbox # <<>> /\ outbox[Len(outbox)] = "back"
    BY <1>1, <2>3 DEF TakenBack
  <2>4. CASE \E j \in 1..Len(chan) : j > i + 1 /\ chan[j] = BackMsg
    <3>1. PICK j \in 1..Len(chan) : j > i + 1 /\ chan[j] = BackMsg
      BY <2>4
    <3>2. j - 1 \in 1..Len(chan') /\ chan'[j - 1] = BackMsg /\ j - 1 > i
      BY <1>2, <1>6, <3>1
    <3> QED
      BY <3>2 DEF TakenBack, BackMsg
  <2> QED
    BY <2>2, <2>3, <2>4 DEF TakenBack
<1>8. ArmedIsNotHeld'
  <2>1. CASE Head(chan) = AwayMsg
    <3>1. ~wasArmed \/ TakenBack(1)
      BY <1>1, <1>2, <2>1 DEF AwayIsTrue
    <3>2. TakenBack(1) => BackOnItsWay'
      BY <1>1, <1>6 DEF TakenBack, BackOnItsWay, BackMsg
    <3> QED
      BY <1>1, <3>1, <3>2 DEF ArmedIsNotHeld
  <2>2. CASE Head(chan) = BackMsg
    BY <1>3, <2>2, BackHoldsNothing DEF ArmedIsNotHeld, AwayMsg, BackMsg
  <2>3. CASE Head(chan) # AwayMsg /\ Head(chan) # BackMsg
    <3>1. UNCHANGED absent
      BY <1>3, <2>3, OthersHoldNothing
    <3>2. BackOnItsWay => BackOnItsWay'
      <4>1. \A i \in 1..Len(chan) : chan[i] = BackMsg => i > 1
        BY <1>2, <2>3
      <4> QED
        BY <1>1, <1>6, <4>1 DEF BackOnItsWay, BackMsg
    <3> QED
      BY <1>1, <3>1, <3>2 DEF ArmedIsNotHeld
  <2> QED
    BY <2>1, <2>2, <2>3
<1>9. FallsCover'
  <2>1. Waiting(chan, AwayMsg) = Waiting(chan', AwayMsg) + (IF Head(chan) = AwayMsg THEN 1 ELSE 0)
    BY <1>1, <1>2, WaitingAfterTail
  <2>2. /\ Waiting(chan', AwayMsg) \in Nat /\ Waiting(outbox', "away") = Waiting(outbox, "away")
        /\ Held \in Nat /\ Held' \in Nat
    BY <1>1, <1>2, PlacesAreFinite DEF Held
  <2>3. LocksNow + Held' <= Held + (IF Head(chan) = AwayMsg THEN 1 ELSE 0)
    <3>1. CASE Head(chan) = AwayMsg
      BY <1>3, <1>5, <2>2, <3>1, AwayIsHeldOnce DEF AwayMsg, BackMsg
    <3>2. CASE Head(chan) = BackMsg
      BY <1>3, <2>2, <3>2, BackHoldsNothing DEF AwayMsg, BackMsg
    <3>3. CASE Head(chan) # AwayMsg /\ Head(chan) # BackMsg
      BY <1>3, <3>3, OthersHoldNothing DEF LocksNow, Held
    <3> QED
      BY <3>1, <3>2, <3>3
  <2>4. Waiting(outbox, "away") \in Nat /\ Waiting(chan, AwayMsg) \in Nat
    BY CountsAreNumbers
  <2>5. /\ autoLocks + Waiting(chan, AwayMsg) + Waiting(outbox, "away") + Held <= falls
        /\ autoLocks \in Nat /\ falls \in Nat
    BY DEF FallsCover, Typed
  <2>6. autoLocks' = autoLocks + LocksNow /\ LocksNow \in Nat
    BY <1>1, <1>5
  <2>7. autoLocks' + Waiting(chan', AwayMsg) + Waiting(outbox, "away") + Held' <= falls
    <3> HIDE DEF LockInv
    <3>1. PICK l, x, w, w2, o, h, h2, f \in Nat :
            /\ l = autoLocks /\ x = LocksNow /\ w = Waiting(chan, AwayMsg)
            /\ w2 = Waiting(chan', AwayMsg) /\ o = Waiting(outbox, "away")
            /\ h = Held /\ h2 = Held' /\ f = falls
      BY <2>2, <2>4, <2>5, <2>6
    <3>2. l + w + o + h <= f /\ \E d \in {0, 1} : w = w2 + d /\ x + h2 <= h + d
      BY <2>1, <2>3, <2>5, <3>1
    <3>3. (l + x) + w2 + o + h2 <= f
      BY <3>2
    <3> QED
      BY <2>6, <3>1, <3>3
  <2> QED
    BY <1>1, <2>2, <2>7 DEF FallsCover
<1> QED
  BY <1>4, <1>5, <1>7, <1>8, <1>9

\* A timer answers what is held; bluez, the clock, the lock command and the user
\* touch neither the signals nor the books.
LEMMA OthersKeep ==
  ASSUME IInv, LockInv,
         \/ World \/ Timer \/ Clock \/ ReadFails \/ UNCHANGED lockVars
         \/ Unattended(LockDone) \/ Unattended(Unlock)
  PROVE  LockInv'
<1> USE DEF LockInv
<1>1. UNCHANGED <<wasArmed, outbox, chan, falls>>
  BY DEF World, Timer, Clock, ReadFails, Unattended, lockVars, task, bluez, Bcn!LinkChanges,
         Bcn!PairingChanges, Bcn!AdChanges, Bcn!BusChanges, Bcn!TimePasses
<1>2. /\ BeaconAlone' /\ absent' \subseteq absent
      /\ autoLocks' \in Nat /\ autoLocks' + Held' <= autoLocks + Held
  <2>1. CASE Timer
    <3>1. autoLocks' = autoLocks + LocksNow /\ LocksNow \in Nat /\ autoLocks \in Nat
      BY <2>1 DEF Timer, CountLock, LocksNow, Typed
    <3> QED
      BY <2>1, <3>1, TimerAnswersTheHeld DEF Timer, Held
  <2>2. CASE Unattended(LockDone)
    BY <2>2, OthersHoldNothing DEF Unattended, BeaconAlone, Held, Typed
  <2>3. CASE World \/ Clock \/ ReadFails \/ Unattended(Unlock) \/ UNCHANGED lockVars
    <3>1. UNCHANGED <<arb, pending, absent, autoLocks>>
      BY <2>3, OthersHoldNothing DEF World, Clock, ReadFails, Unattended, lockVars, arbVars
    <3> QED
      BY <3>1 DEF BeaconAlone, Held, Typed
  <2> QED
    BY <2>1, <2>2, <2>3
<1>3. Typed' /\ OutboxIsFresh'
  BY <1>1, <1>2 DEF Typed, OutboxIsFresh, LastWord
<1>4. AwayIsTrue' /\ ArmedIsNotHeld'
  BY <1>1, <1>2 DEF AwayIsTrue, TakenBack, ArmedIsNotHeld, BackOnItsWay
<1>5. FallsCover'
  <2>1. Waiting(chan, AwayMsg) \in Nat /\ Waiting(outbox, "away") \in Nat
    BY CountsAreNumbers
  <2>2. /\ Waiting(chan', AwayMsg) = Waiting(chan, AwayMsg)
        /\ Waiting(outbox', "away") = Waiting(outbox, "away")
        /\ Held \in Nat /\ Held' \in Nat
    BY <1>1 DEF Held
  <2>3. /\ autoLocks + Waiting(chan, AwayMsg) + Waiting(outbox, "away") + Held <= falls
        /\ autoLocks \in Nat /\ falls \in Nat
    BY DEF FallsCover, Typed
  <2>4. autoLocks' + Waiting(chan, AwayMsg) + Waiting(outbox, "away") + Held' <= falls
    BY <1>2, <2>1, <2>2, <2>3, BalanceAfterTimer
  <2> QED
    BY <1>1, <2>2, <2>4 DEF FallsCover
<1> QED
  BY <1>2, <1>3, <1>4, <1>5

\* The daemon starts with a beacon that is not armed and empty queues.
LEMMA LockInitHolds == LockInit => LockInv
<1> SUFFICES ASSUME LockInit PROVE LockInv
  OBVIOUS
<1>1. /\ arb = "select" /\ pending = Nobody /\ absent = {} /\ wasArmed = FALSE
      /\ outbox = <<>> /\ chan = <<>> /\ falls = 0 /\ autoLocks = 0
  BY DEF LockInit, Init, Bcn!Init
<1>2. Typed
  BY <1>1, EmptySeq DEF Typed
<1>3. BeaconAlone /\ OutboxIsFresh /\ ArmedIsNotHeld
  BY <1>1 DEF BeaconAlone, OutboxIsFresh, ArmedIsNotHeld
<1>4. AwayIsTrue
  BY <1>1 DEF AwayIsTrue
<1>5. FallsCover
  BY <1>1, NothingWaits DEF FallsCover, Held
<1> QED
  BY <1>2, <1>3, <1>4, <1>5 DEF LockInv

-----------------------------------------------------------------------------
\* The invariant holds in every reachable state.
THEOREM LockInvariance == Default /\ LockSpec => []LockInv
<1>1. Default /\ IInv /\ LockInv /\ [LockNext]_lockVars => LockInv'
  BY TickKeeps, SendKeeps, ReceiveKeeps, OthersKeep DEF LockNext
<1>2. Default => []Default
  <2>1. Default => Default'
    BY DEF Default
  <2> QED
    BY <2>1, PTL
<1> QED
  BY <1>1, <1>2, LockInitHolds, ArbiterInside, Invariance, PTL DEF LockSpec

\* The beacon never locks twice for one fall: not through a flapping link, a
\* cooldown, a lock command that fails or an unlock in between.
THEOREM EachFallLocksOnce == Default /\ LockSpec => []OneLockPerAbsence
<1>1. LockInv => OneLockPerAbsence
  <2> SUFFICES ASSUME LockInv PROVE autoLocks <= falls
    BY DEF OneLockPerAbsence
  <2>1. Waiting(chan, AwayMsg) \in Nat /\ Waiting(outbox, "away") \in Nat /\ Held \in Nat
    BY CountsAreNumbers DEF LockInv
  <2> QED
    BY <2>1 DEF LockInv, FallsCover, Typed
<1> QED
  BY <1>1, LockInvariance, PTL

\* An armed beacon is not held away, unless the word that it is back is already
\* on its way.
THEOREM ArmedIsForgiven == Default /\ LockSpec => []ArmedIsNotHeld
<1>1. LockInv => ArmedIsNotHeld
  BY DEF LockInv
<1> QED
  BY <1>1, LockInvariance, PTL

-----------------------------------------------------------------------------
\* Without require_in_ear a beacon is armed exactly while it is connected.
ArmedIsConnected == wasArmed => connected

LEMMA ReconnectStep ==
  ASSUME Default, ~RequireInEar, Typed, ArmedIsConnected, Tick, ~connected, connected'
  PROVE  BackOnItsWay'
<1>1. Bcn!Tick /\ ~wasArmed
  BY DEF Tick, ArmedIsConnected
<1>2. wasArmed' /\ wasArmed' # wasArmed
  BY <1>1 DEF Bcn!Tick, Bcn!ArmedNow, Bcn!Worn
<1>3. outbox' \in {<<"back">>, <<"note", "back">>}
  BY <1>1, <1>2, TickReportsEdges DEF LastWord
<1>4. CASE outbox' = <<"back">>
  BY <1>4 DEF BackOnItsWay
<1>5. CASE outbox' = <<"note", "back">>
  <2>1. <<"note", "back">> # <<>> /\ <<"note", "back">>[Len(<<"note", "back">>)] = "back"
    BY ShortQueueEnds
  <2>2. outbox' # <<>> /\ outbox'[Len(outbox')] = "back"
    BY <1>5, <2>1, Zenon
  <2> QED
    BY <2>2 DEF BackOnItsWay
<1> QED
  BY <1>3, <1>4, <1>5

LEMMA ArmedStaysConnected ==
  ASSUME ArmedIsConnected, [LockNext]_lockVars PROVE ArmedIsConnected'
<1>1. CASE Tick
  BY <1>1 DEF Tick, Bcn!Tick, Bcn!ArmedNow, ArmedIsConnected
<1>2. CASE ~Tick
  <2>1. UNCHANGED <<wasArmed, connected>>
    BY <1>2 DEF LockNext, World, ReadFails, Send, Receive, Timer, Clock, Unattended, lockVars,
           task, Bcn!LinkChanges, Bcn!PairingChanges, Bcn!AdChanges, Bcn!BusChanges,
           Bcn!TimePasses, Bcn!Send, Bcn!Receive, Bcn!reading
  <2> QED
    BY <2>1 DEF ArmedIsConnected
<1> QED
  BY <1>1, <1>2

\* A headset that reconnects cancels its countdown, as README.md:70 has it, when
\* being worn is not asked of it: what run beacon_reconnect finds takes
\* require_in_ear and a reading that has expired.
THEOREM WithoutInEarReconnectingCancels ==
  Default /\ ~RequireInEar /\ LockSpec => ReconnectingCancels
<1>1. LockInit => ArmedIsConnected
  BY DEF LockInit, Bcn!Init, ArmedIsConnected
<1>2. ArmedIsConnected /\ [LockNext]_lockVars => ArmedIsConnected'
  BY ArmedStaysConnected
<1>3. Default /\ ~RequireInEar => [](Default /\ ~RequireInEar)
  <2>1. Default /\ ~RequireInEar => (Default /\ ~RequireInEar)'
    BY DEF Default
  <2> QED
    BY <2>1, PTL
<1>4. Default /\ ~RequireInEar /\ LockInv /\ ArmedIsConnected =>
        [Tick /\ ~connected /\ connected' /\ pending = BeaconSource /\ left > 0
           => BackOnItsWay']_lockVars
  BY ReconnectStep DEF LockInv
<1> QED
  BY <1>1, <1>2, <1>3, <1>4, LockInvariance, PTL DEF LockSpec, ReconnectingCancels
=============================================================================
