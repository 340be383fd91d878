--------------------------- MODULE ArbiterProofs ---------------------------
(***************************************************************************)
(* What Arbiter's runs check on three triggers and a few time units, for   *)
(* every set of triggers, every grace, cooldown and pause, armed or not.   *)
(***************************************************************************)
EXTENDS Arbiter, TLAPS

\* The parts of the invariant that no run checks by themselves.
\* A cooldown is only ever set together with last_lock.
CooldownHasLock == Cooling => lastLock
\* Every lock is entered with the countdown taken.
LockingHasNoCountdown == arb = "locking" => pending = Nobody
\* A pulse is never remembered.
NoPulseAbsent == absent \cap Pulse = {}
\* Disarmed, nothing gets past the first check of Away.
DisarmedMeansQuiet == ~Armed => pending = Nobody /\ absent = {}

\* The inductive invariant: each part of it is needed to carry another one
\* over some step.  What notchd shows is kept apart, because the rest of it
\* holds of an arbiter that is started beside the notchd of the last one too.
CoreInv ==
  /\ TypeOK
  /\ PausedMeansQuiet
  /\ CountdownOutsideCooldown
  /\ OwnerIsAbsent
  /\ NoAbsenceStranded
  /\ BackMeansForgotten
  /\ CooldownHasLock
  /\ LockingHasNoCountdown
  /\ NoPulseAbsent
  /\ DisarmedMeansQuiet

IInv == CoreInv /\ NotchFollowsCountdown

-----------------------------------------------------------------------------
\* The program starts with nobody absent and nothing counting down.
LEMMA InitHolds == Init => IInv
<1> SUFFICES ASSUME Init PROVE IInv
  OBVIOUS
<1>1. NotchFollowsCountdown
  BY Zenon DEF Init, NotchFollowsCountdown
<1>2. TypeOK /\ OwnerIsAbsent /\ BackMeansForgotten /\ NoPulseAbsent
  BY ArbiterAssumption DEF Init, TypeOK, OwnerIsAbsent, BackMeansForgotten, NoPulseAbsent
<1>3. PausedMeansQuiet /\ CountdownOutsideCooldown /\ NoAbsenceStranded /\ CooldownHasLock
      /\ LockingHasNoCountdown /\ DisarmedMeansQuiet
  BY DEF Init, PausedMeansQuiet, CountdownOutsideCooldown, NoAbsenceStranded, CooldownHasLock,
         LockingHasNoCountdown, DisarmedMeansQuiet, Cooling
<1> QED
  BY <1>1, <1>2, <1>3 DEF CoreInv, IInv

\* A timer that is moved on stays a natural number and does not grow.
LEMMA LessIsSmaller == ASSUME NEW n \in Nat PROVE Less(n) \in Nat /\ Less(n) <= n
  BY DEF Less

\* start_next does one of three things: nothing, lock at once, or open the
\* window of one of the absences it was given.
StartNextDoes(S, display) ==
  \/ /\ Cooling \/ ~Armed \/ S = {}
     /\ pending' = Nobody /\ left' = 0 /\ arb' = arb /\ notch' = display
  \/ /\ ~Cooling /\ Armed /\ S # {}
     /\ pending' = Nobody /\ left' = 0 /\ arb' = "locking" /\ notch' = display
  \/ /\ ~Cooling /\ Armed
     /\ pending' \in S /\ left' \in Nat /\ arb' = arb /\ notch' = (display \/ Notch)

LEMMA StartNextOutcome ==
  ASSUME NEW S \in SUBSET Source, NEW display, StartNext(S, display)
  PROVE  StartNextDoes(S, display)
<1>1. CASE Cooling \/ ~Armed \/ S = {}
  BY <1>1 DEF StartNext, Soonest, StartNextDoes
<1>2. CASE ~Cooling /\ Armed /\ S # {}
  <2>1. PICK s \in S : Begin(s, display)
    BY <1>2 DEF StartNext, Soonest
  <2>2. Grace[s] \in Nat
    BY ArbiterAssumption
  <2> QED
    BY <1>2, <2>1, <2>2 DEF Begin, StartLock, StartNextDoes
<1> QED
  BY <1>1, <1>2

\* A takeover: whatever start_next does with the absences that are left, the
\* invariant survives, provided no pause is on.
LEMMA TakeoverHolds ==
  ASSUME CoreInv, arb = "select", ~Paused,
         NEW display \in BOOLEAN, StartNextDoes(absent', display), absent' \subseteq absent,
         notes' \in [Source -> {"quiet", "away", "back"}],
         \A t \in Source : notes'[t] = "back" => t \notin absent',
         UNCHANGED <<pauseLeft, coolLeft, lastLock, screen>>
  PROVE  CoreInv'
<1> USE ArbiterAssumption DEF CoreInv, StartNextDoes
<1>1. TypeOK'
  <2>1. notch' \in BOOLEAN
    BY Zenon
  <2> QED
    BY <2>1 DEF TypeOK
<1>2. PausedMeansQuiet'
  BY DEF PausedMeansQuiet, Paused
<1>3. CountdownOutsideCooldown' /\ CooldownHasLock'
  BY DEF TypeOK, CountdownOutsideCooldown, CooldownHasLock, Cooling
<1>4. OwnerIsAbsent' /\ NoPulseAbsent'
  BY DEF TypeOK, OwnerIsAbsent, NoPulseAbsent
<1>5. NoAbsenceStranded'
  BY DEF TypeOK, NoAbsenceStranded, TimerSet, CooldownHasLock, DisarmedMeansQuiet
<1>6. BackMeansForgotten'
  BY DEF TypeOK, BackMeansForgotten
<1>7. LockingHasNoCountdown' /\ DisarmedMeansQuiet'
  BY DEF TypeOK, LockingHasNoCountdown, DisarmedMeansQuiet
<1> QED
  BY <1>1, <1>2, <1>3, <1>4, <1>5, <1>6, <1>7

\* Every handler preserves it.
LEMMA CoreStepHolds == CoreInv /\ [Next]_arbVars => CoreInv'
<1> SUFFICES ASSUME CoreInv, [Next]_arbVars PROVE CoreInv'
  OBVIOUS
<1> USE ArbiterAssumption
    DEF CoreInv, TypeOK, PausedMeansQuiet, CountdownOutsideCooldown, OwnerIsAbsent,
      NoAbsenceStranded, BackMeansForgotten, CooldownHasLock,
      LockingHasNoCountdown, NoPulseAbsent, DisarmedMeansQuiet, Paused, Cooling, TimerSet,
      timers
<1>1. CASE UNCHANGED arbVars
  BY <1>1 DEF arbVars
<1>2. ASSUME NEW s \in Source, AwayIgnored(s) PROVE CoreInv'
  BY <1>2 DEF AwayIgnored
<1>3. ASSUME NEW s \in Source, AwaySetAside(s) PROVE CoreInv'
  BY <1>3 DEF AwaySetAside, Remember
<1>4. ASSUME NEW s \in Source, AwayBegins(s) PROVE CoreInv'
  BY <1>4 DEF AwayBegins, Remember, Begin, StartLock
<1>5. ASSUME NEW s \in Source \ Pulse, BackOther(s) PROVE CoreInv'
  BY <1>5 DEF BackOther
<1>6. ASSUME NEW s \in Source \ Pulse, BackOwner(s) PROVE CoreInv'
  <2>1. /\ arb = "select" /\ pending = s /\ ~Paused /\ s # Nobody
        /\ absent' = absent \ {s} /\ notes' = [notes EXCEPT ![s] = "back"]
        /\ UNCHANGED <<pauseLeft, coolLeft, lastLock, screen>>
        /\ StartNext(absent', notch /\ ~Notch)
    BY <1>6 DEF BackOwner
  <2>2. (notch /\ ~Notch) \in BOOLEAN
    BY Zenon
  <2>3. absent' \in SUBSET Source
    BY <2>1
  <2>4. StartNextDoes(absent', notch /\ ~Notch)
    BY <2>1, <2>3, StartNextOutcome
  <2> QED
    BY <2>1, <2>2, <2>4, TakeoverHolds
<1>7. ASSUME NEW s \in Source \ Pulse, Note(s) PROVE CoreInv'
  BY <1>7 DEF Note
<1>8. CASE LockNow
  BY <1>8 DEF LockNow, StartLock
<1>9. ASSUME NEW d \in PauseFor, Pause(d) PROVE CoreInv'
  BY <1>9 DEF Pause
<1>10. CASE Resume
  BY <1>10 DEF Resume
<1>11. CASE CountdownElapsed
  BY <1>11 DEF CountdownElapsed, StartLock
<1>12. CASE CooldownOver
  <2>1. StartNextDoes(absent, notch)
    BY <1>12, StartNextOutcome DEF CooldownOver
  <2> QED
    BY <1>12, <2>1, TakeoverHolds DEF CooldownOver
<1>13. CASE LockDone
  BY <1>13 DEF LockDone
<1>14. CASE TimePasses
  BY <1>14, LessIsSmaller DEF TimePasses
<1>15. CASE Unlock
  BY <1>15 DEF Unlock
<1> QED
  BY <1>1, <1>2, <1>3, <1>4, <1>5, <1>6, <1>7, <1>8, <1>9, <1>10, <1>11, <1>12, <1>13,
     <1>14, <1>15
  DEF Next, Away, Back, TimerFires

\* Whoever starts or ends a countdown tells notchd.
LEMMA NotchStepHolds == IInv /\ [Next]_arbVars => NotchFollowsCountdown'
<1> SUFFICES ASSUME IInv, [Next]_arbVars PROVE NotchFollowsCountdown'
  OBVIOUS
<1> USE ArbiterAssumption DEF IInv, CoreInv, TypeOK, NotchFollowsCountdown
<1>1. ASSUME NEW S \in SUBSET Source, NEW display, StartNextDoes(S, display), display = FALSE
      PROVE  NotchFollowsCountdown'
  <2>1. CASE pending' = Nobody /\ notch' = FALSE
    BY <2>1, Zenon
  <2>2. CASE pending' \in S /\ notch' = (FALSE \/ Notch)
    <3>1. pending' # Nobody /\ notch' = Notch
      BY <2>2
    <3> QED
      BY <3>1, Zenon
  <2> QED
    BY <1>1, <2>1, <2>2 DEF StartNextDoes
<1>2. CASE UNCHANGED <<pending, notch>>
  BY <1>2
<1>3. ASSUME NEW s \in Source, AwayBegins(s) PROVE NotchFollowsCountdown'
  BY <1>3 DEF AwayBegins, Begin, StartLock
<1>4. ASSUME NEW s \in Source \ Pulse, BackOwner(s) PROVE NotchFollowsCountdown'
  <2>1. (notch /\ ~Notch) = FALSE
    BY Zenon
  <2>2. StartNext(IF Paused THEN {} ELSE absent', FALSE)
    BY <1>4, <2>1 DEF BackOwner
  <2>3. (IF Paused THEN {} ELSE absent') \in SUBSET Source
    BY <1>4 DEF BackOwner
  <2> QED
    BY <1>1, <2>2, <2>3, StartNextOutcome
<1>5. CASE CooldownOver
  <2>1. StartNextDoes(absent, notch)
    BY <1>5, StartNextOutcome DEF CooldownOver
  <2>2. notch = FALSE
    BY <1>5, Zenon DEF CooldownOver
  <2> QED
    BY <1>1, <2>1, <2>2
<1>6. CASE LockNow
  BY <1>6 DEF LockNow, StartLock
<1>7. ASSUME NEW d \in PauseFor, Pause(d) PROVE NotchFollowsCountdown'
  BY <1>7 DEF Pause
<1>8. CASE CountdownElapsed
  BY <1>8 DEF CountdownElapsed, StartLock
<1> QED
  BY <1>2, <1>3, <1>4, <1>5, <1>6, <1>7, <1>8
  DEF Next, Away, Back, TimerFires, arbVars, AwayIgnored, AwaySetAside, BackOther, Note, Resume,
      LockDone, TimePasses, Unlock

LEMMA StepHolds == IInv /\ [Next]_arbVars => IInv'
  BY CoreStepHolds, NotchStepHolds DEF IInv

-----------------------------------------------------------------------------
\* The invariant holds in every reachable state.
THEOREM Invariance == Spec => []IInv
  BY InitHolds, StepHolds, PTL DEF Spec

\* Types are kept whatever the configuration.
THEOREM TypeCorrect == Spec => []TypeOK
  BY Invariance, PTL DEF IInv, CoreInv

\* The timer branch never has to ask whether a pause is on.
THEOREM PauseIsQuiet == Spec => []PausedMeansQuiet
  BY Invariance, PTL DEF IInv, CoreInv

\* A countdown that runs out never locks during the cooldown.
THEOREM NoCountdownInCooldown == Spec => []CountdownOutsideCooldown
  BY Invariance, PTL DEF IInv, CoreInv

\* Whoever strikes an absence off also ends its countdown.
THEOREM CountdownHasAbsence == Spec => []OwnerIsAbsent
  BY Invariance, PTL DEF IInv, CoreInv

\* The select always has a timer for an unanswered absence.
THEOREM AbsenceHasTimer == Spec => []NoAbsenceStranded
  BY Invariance, PTL DEF IInv, CoreInv

\* notchd shows a countdown exactly while there is one.
THEOREM NotchIsRight == Spec => []NotchFollowsCountdown
  BY Invariance, PTL DEF IInv

\* `status` never shows a source as back whose absence is still held.
THEOREM StatusIsHonest == Spec => []BackMeansForgotten
  BY Invariance, PTL DEF IInv, CoreInv

-----------------------------------------------------------------------------
\* Every automatic way to a lock looks at the cooldown, the pause and the switch.
LEMMA GuardedStep ==
  ASSUME CoreInv, Next, arb = "select", arb' = "locking", Cooling \/ Paused \/ ~Armed
  PROVE  LockNow
<1> SUFFICES ASSUME ~LockNow PROVE FALSE
  OBVIOUS
<1>1. CASE \E s \in Source : Away(s)
  BY <1>1 DEF Away, AwayIgnored, AwaySetAside, AwayBegins
<1>2. CASE \E s \in Source \ Pulse : Back(s) \/ Note(s)
  <2>1. PICK s \in Source \ Pulse : BackOwner(s)
    BY <1>2 DEF Back, BackOther, Note
  <2>2. ~Paused
    BY <2>1, ArbiterAssumption DEF CoreInv, PausedMeansQuiet, BackOwner
  <2> QED
    BY <2>1, <2>2 DEF BackOwner, StartNext
<1>3. CASE CountdownElapsed
  BY <1>3 DEF CountdownElapsed, CoreInv, PausedMeansQuiet, CountdownOutsideCooldown,
              DisarmedMeansQuiet
<1>4. CASE CooldownOver
  BY <1>4 DEF CooldownOver, TimerSet, StartNext, CoreInv, PausedMeansQuiet, DisarmedMeansQuiet
<1>5. CASE (\E d \in PauseFor : Pause(d)) \/ Resume \/ LockDone \/ TimePasses \/ Unlock
  BY <1>5 DEF Pause, Resume, LockDone, TimePasses, Unlock
<1> QED
  BY <1>1, <1>2, <1>3, <1>4, <1>5 DEF Next, TimerFires

\* Nothing but the user's request locks during a cooldown or a pause.
THEOREM AutomaticLocksAreGuarded == Spec => OnlyUserLocksThen
<1>1. IInv /\ [Next]_arbVars =>
        [arb = "select" /\ arb' = "locking" /\ (Cooling \/ Paused) => LockNow]_arbVars
  BY GuardedStep DEF IInv
<1> QED
  BY <1>1, Invariance, PTL DEF Spec, OnlyUserLocksThen

\* No trigger locks when disarmed (the first check of Away, and of start_next):
\* what breaks DisarmedNeverLocks is the user's own request (arbiter.rs:221), and
\* nothing else.
THEOREM DisarmedLocksOnRequest ==
  Spec => [][arb = "select" /\ arb' = "locking" /\ ~Armed => LockNow]_arbVars
<1>1. IInv /\ [Next]_arbVars =>
        [arb = "select" /\ arb' = "locking" /\ ~Armed => LockNow]_arbVars
  BY GuardedStep DEF IInv
<1> QED
  BY <1>1, Invariance, PTL DEF Spec

\* The window of a countdown belongs to the source that opened it.
THEOREM WindowIsKept == Spec => OwnerKeepsItsWindow
<1> DEFINE Kept == pending' = pending /\ left' \in {left, Less(left)}
           RanOut == arb' = "locking" /\ (left = 0 \/ LockNow)
           OwnerBack == pending \notin Pulse /\ Back(pending)
           Paused_ == \E d \in PauseFor : Pause(d)
<1>1. IInv /\ [Next]_arbVars =>
        [pending # Nobody => Kept \/ RanOut \/ OwnerBack \/ Paused_]_arbVars
  <2> SUFFICES ASSUME IInv, Next, pending # Nobody
               PROVE  Kept \/ RanOut \/ OwnerBack \/ Paused_
    OBVIOUS
  <2>1. CASE \E s \in Source : Away(s)
    BY <2>1 DEF Away, AwayIgnored, AwaySetAside, AwayBegins, timers
  <2>2. CASE \E s \in Source \ Pulse : Back(s) \/ Note(s)
    BY <2>2 DEF Back, BackOther, BackOwner, Note, timers
  <2>3. CASE LockNow
    BY <2>3 DEF LockNow, StartLock
  <2>4. CASE CountdownElapsed
    BY <2>4 DEF CountdownElapsed, StartLock
  <2>5. CASE LockDone
    BY <2>5 DEF LockDone, IInv, CoreInv, LockingHasNoCountdown
  <2>6. CASE Resume \/ CooldownOver \/ TimePasses \/ Unlock \/ Paused_
    BY <2>6 DEF Resume, CooldownOver, TimePasses, Unlock, timers
  <2> QED
    BY <2>1, <2>2, <2>3, <2>4, <2>5, <2>6 DEF Next, TimerFires
<1> QED
  BY <1>1, Invariance, PTL DEF Spec, OwnerKeepsItsWindow

-----------------------------------------------------------------------------
\* Every step of the arbiter is a step of Presence or invisible to it.
LEMMA StepRefines == IInv /\ [Next]_arbVars => [Promise!Next]_(Promise!presenceVars)
<1> SUFFICES ASSUME IInv, [Next]_arbVars
             PROVE  Promise!Next \/ UNCHANGED <<absent, arb = "locking">>
  BY DEF Promise!presenceVars
<1> USE DEF Promise!Next, Promise!Leave, Promise!Return, Promise!Forgive, Promise!BeginLock,
            Promise!EndLock
<1>1. CASE UNCHANGED arbVars
  BY <1>1 DEF arbVars
<1>2. ASSUME NEW s \in Source, Away(s) PROVE Promise!Next \/ UNCHANGED <<absent, arb = "locking">>
  BY <1>2 DEF Away, AwayIgnored, AwaySetAside, AwayBegins, Remember, Begin, StartLock
<1>3. ASSUME NEW s \in Source \ Pulse, BackOther(s) \/ Note(s)
      PROVE  Promise!Next \/ UNCHANGED <<absent, arb = "locking">>
  BY <1>3 DEF BackOther, Note
<1>4. ASSUME NEW s \in Source \ Pulse, BackOwner(s)
      PROVE  Promise!Next \/ UNCHANGED <<absent, arb = "locking">>
  BY <1>4 DEF BackOwner, StartNext, Soonest, Begin, StartLock
<1>5. CASE CooldownOver
  BY <1>5 DEF CooldownOver, StartNext, Begin, StartLock
<1>6. CASE LockNow \/ CountdownElapsed
  BY <1>6 DEF LockNow, CountdownElapsed, StartLock
<1>7. ASSUME NEW d \in PauseFor, Pause(d)
      PROVE  Promise!Next \/ UNCHANGED <<absent, arb = "locking">>
  BY <1>7 DEF Pause
<1>8. CASE LockDone
  BY <1>8 DEF LockDone
<1>9. CASE Resume \/ TimePasses \/ Unlock
  BY <1>9 DEF Resume, TimePasses, Unlock
<1> QED
  BY <1>1, <1>2, <1>3, <1>4, <1>5, <1>6, <1>7, <1>8, <1>9 DEF Next, Back, TimerFires

\* The arbiter implements the safety part of Presence: an absence leaves the
\* books by a return of its own source, a pause or a lock, and in no other way.
THEOREM ImplementsPresenceSafety == Spec => Promise!Safe
<1>1. Init => Promise!Init
  BY DEF Init, Promise!Init
<1> QED
  BY <1>1, Invariance, StepRefines, PTL DEF Spec, Promise!Safe
=============================================================================
