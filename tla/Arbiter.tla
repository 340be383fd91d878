------------------------------- MODULE Arbiter -------------------------------
(***************************************************************************)
(* The arbiter task of src/src/arbiter.rs: the one place that decides      *)
(* whether the screen is locked.  Each signal is handled by one action; a  *)
(* handler that awaits lock::lock stops in arb = "locking" and ends in     *)
(* LockDone, because the task handles nothing else in between.             *)
(*                                                                         *)
(* Instants are kept as distances from now: left is what remains of        *)
(* pending.deadline, pauseLeft of paused_until, coolLeft of last_lock +    *)
(* cooldown.  They stop at 0, which loses nothing: the code only compares  *)
(* them with Instant::now().  TimePasses moves all of them together, and a *)
(* timer that is due may still wait for the task to be scheduled.          *)
(*                                                                         *)
(* Left out: the wording of details, notes and log lines; the grace that   *)
(* an Away carries is the constant its trigger was configured with.        *)
(***************************************************************************)
EXTENDS Naturals

CONSTANTS
  Source,       \* the triggers (enum Source)
  Pulse,        \* those with no Back: is_pulse, i.e. {webhook}
  Nobody,       \* pending = None
  Grace,        \* Grace[s]: the trigger's grace_secs, or general.grace_secs
  Cooldown,     \* general.cooldown_secs
  PauseFor,     \* the durations `vanish pause` is called with
  Armed,        \* general.armed
  Notch,        \* general.notch
  LockOutcome   \* what lock::lock may do: subset of {"locks", "nothing"}

ASSUME ArbiterAssumption ==
  /\ Pulse \subseteq Source
  /\ Nobody \notin Source
  /\ Grace \in [Source -> Nat]
  /\ Cooldown \in Nat
  /\ PauseFor \subseteq Nat
  /\ Armed \in BOOLEAN /\ Notch \in BOOLEAN
  /\ LockOutcome \subseteq {"locks", "nothing"} /\ LockOutcome # {}

VARIABLES
  arb,          \* "select": waiting in tokio::select!; "locking": awaiting lock::lock
  pending,      \* source of the countdown that is running, or Nobody
  left,         \* time to its deadline
  absent,       \* sources whose absence no lock has answered yet
  pauseLeft,    \* time to paused_until; 0 when not paused
  lastLock,     \* last_lock.is_some()
  coolLeft,     \* time to last_lock + cooldown
  notes,        \* what `status` shows for each source: its last report
  notch,        \* is notchd showing a countdown?
  screen        \* the session: "open" or "locked"

timers == <<left, pauseLeft, coolLeft>>
arbVars == <<arb, pending, left, absent, pauseLeft, lastLock, coolLeft, notes, notch, screen>>

-----------------------------------------------------------------------------
TypeOK ==
  /\ arb \in {"select", "locking"}
  /\ pending \in Source \union {Nobody}
  /\ left \in Nat /\ pauseLeft \in Nat /\ coolLeft \in Nat
  /\ absent \in SUBSET Source
  /\ lastLock \in BOOLEAN
  /\ notes \in [Source -> {"quiet", "away", "back"}]
  /\ notch \in BOOLEAN
  /\ screen \in {"open", "locked"}

Init ==
  /\ arb = "select"
  /\ pending = Nobody /\ left = 0
  /\ absent = {}
  /\ pauseLeft = 0
  /\ lastLock = FALSE /\ coolLeft = 0
  /\ notes = [s \in Source |-> "quiet"]
  /\ notch = FALSE
  /\ screen = "open"

-----------------------------------------------------------------------------
Paused  == pauseLeft > 0
Cooling == coolLeft > 0      \* last_lock_blocks

\* Mutant of TimerSet: the select wakes up for a countdown only.
TimerSetForCountdownOnly == pending # Nobody

\* `tick`: does the select have a timer to wake up for?
TimerSet == pending # Nobody \/ (absent # {} /\ lastLock)

\* Start a lock; the countdown, if any, has been taken out of `pending`.
StartLock == arb' = "locking" /\ pending' = Nobody /\ left' = 0

\* begin(): lock at once without a grace window, or open the window of s.
\* `display` is what notchd shows when begin is entered.
Begin(s, display) ==
  \/ /\ Grace[s] = 0
     /\ StartLock
     /\ notch' = display
  \/ /\ Grace[s] > 0
     /\ pending' = s /\ left' = Grace[s]
     /\ notch' = (display \/ Notch)
     /\ UNCHANGED arb

\* The absences start_next chooses from: those with the shortest grace.  A tie
\* is broken by the iteration order of a HashMap.
Soonest(S) == {s \in S : \A t \in S : Grace[s] <= Grace[t]}

\* start_next(), always called with no countdown: the next absence of S gets
\* its window unless something is in the way.
StartNext(S, display) ==
  \/ /\ Cooling \/ ~Armed \/ S = {}
     /\ pending' = Nobody /\ left' = 0
     /\ notch' = display
     /\ UNCHANGED arb
  \/ /\ ~Cooling /\ Armed
     /\ \E s \in Soonest(S) : Begin(s, display)

\* Mutant of Remember: the owner of the countdown is remembered instead of the
\* source that reported.
RememberOwner(s) == absent' = IF s \in Pulse THEN absent ELSE absent \union {pending}

\* An absence is remembered before anything else can set it aside; a pulse
\* never is.
Remember(s) == absent' = IF s \in Pulse THEN absent ELSE absent \union {s}

\* Away while the arbiter is not listening: only the note is kept.
AwayIgnored(s) ==
  /\ arb = "select"
  /\ ~Armed \/ Paused
  /\ notes' = [notes EXCEPT ![s] = "away"]
  /\ UNCHANGED <<arb, pending, timers, absent, lastLock, notch, screen>>

\* Away during the cooldown or during a countdown, which it may neither
\* shorten nor restart.
AwaySetAside(s) ==
  /\ arb = "select"
  /\ Armed /\ ~Paused
  /\ Cooling \/ pending # Nobody
  /\ notes' = [notes EXCEPT ![s] = "away"]
  /\ Remember(s)
  /\ UNCHANGED <<arb, pending, timers, lastLock, notch, screen>>

\* Mutants of AwayBegins: one forgets the pause, one the cooldown, one the
\* countdown that is already running.
AwayBeginsInPause(s) ==
  /\ arb = "select" /\ Armed /\ ~Cooling /\ pending = Nobody
  /\ notes' = [notes EXCEPT ![s] = "away"]
  /\ Remember(s) /\ Begin(s, notch)
  /\ UNCHANGED <<pauseLeft, coolLeft, lastLock, screen>>

AwayBeginsInCooldown(s) ==
  /\ arb = "select" /\ Armed /\ ~Paused /\ pending = Nobody
  /\ notes' = [notes EXCEPT ![s] = "away"]
  /\ Remember(s) /\ Begin(s, notch)
  /\ UNCHANGED <<pauseLeft, coolLeft, lastLock, screen>>

AwayTakesOver(s) ==
  /\ arb = "select" /\ Armed /\ ~Paused /\ ~Cooling
  /\ notes' = [notes EXCEPT ![s] = "away"]
  /\ Remember(s) /\ Begin(s, notch)
  /\ UNCHANGED <<pauseLeft, coolLeft, lastLock, screen>>

\* Away with nothing in the way.
AwayBegins(s) ==
  /\ arb = "select"
  /\ Armed /\ ~Paused
  /\ ~Cooling /\ pending = Nobody
  /\ notes' = [notes EXCEPT ![s] = "away"]
  /\ Remember(s)
  /\ Begin(s, notch)
  /\ UNCHANGED <<pauseLeft, coolLeft, lastLock, screen>>

\* Mutants of BackOther: one treats the owner's Back like any other, one leaves
\* the absence in place.
BackIgnoresOwner(s) ==
  /\ arb = "select"
  /\ notes' = [notes EXCEPT ![s] = "back"]
  /\ absent' = absent \ {s}
  /\ UNCHANGED <<arb, pending, timers, lastLock, notch, screen>>

BackKeepsAbsence(s) ==
  /\ arb = "select" /\ pending # s
  /\ notes' = [notes EXCEPT ![s] = "back"]
  /\ UNCHANGED <<arb, pending, timers, absent, lastLock, notch, screen>>

\* Back from a source that does not own the countdown: its absence is struck
\* off, the countdown goes on.
BackOther(s) ==
  /\ arb = "select"
  /\ pending # s
  /\ notes' = [notes EXCEPT ![s] = "back"]
  /\ absent' = absent \ {s}
  /\ UNCHANGED <<arb, pending, timers, lastLock, notch, screen>>

\* Back from the owner: its countdown is cancelled and, unless paused, another
\* absence takes over at once.
BackOwner(s) ==
  /\ arb = "select"
  /\ pending = s
  /\ notes' = [notes EXCEPT ![s] = "back"]
  /\ absent' = absent \ {s}
  /\ StartNext(IF Paused THEN {} ELSE absent', notch /\ ~Notch)
  /\ UNCHANGED <<pauseLeft, coolLeft, lastLock, screen>>

\* A trigger's live description for `status`.
Note(s) ==
  /\ arb = "select"
  /\ notes' = [notes EXCEPT ![s] = "quiet"]
  /\ UNCHANGED <<arb, pending, timers, absent, lastLock, notch, screen>>

\* Mutant of LockNow: notchd is not told that the countdown is off.
LockNowSilently ==
  /\ arb = "select"
  /\ StartLock
  /\ UNCHANGED <<absent, pauseLeft, coolLeft, lastLock, notes, notch, screen>>

\* The user asks for a lock: no countdown, no cooldown, paused or not.
LockNow ==
  /\ arb = "select"
  /\ StartLock
  /\ notch' = (notch /\ ~(Notch /\ pending # Nobody))
  /\ UNCHANGED <<absent, pauseLeft, coolLeft, lastLock, notes, screen>>

\* Mutant of Pause: what was seen so far is not forgotten.
PauseRemembers(d) ==
  /\ arb = "select"
  /\ pauseLeft' = d
  /\ pending' = Nobody /\ left' = 0
  /\ notch' = (notch /\ ~(Notch /\ pending # Nobody))
  /\ UNCHANGED <<arb, absent, coolLeft, lastLock, notes, screen>>

\* `vanish pause`: forget what was seen, cancel the countdown, ignore what
\* comes.  A later pause replaces an earlier one, shorter or not.
Pause(d) ==
  /\ arb = "select"
  /\ absent' = {}
  /\ pauseLeft' = d
  /\ pending' = Nobody /\ left' = 0
  /\ notch' = (notch /\ ~(Notch /\ pending # Nobody))
  /\ UNCHANGED <<arb, coolLeft, lastLock, notes, screen>>

Resume ==
  /\ arb = "select"
  /\ pauseLeft' = 0
  /\ UNCHANGED <<arb, pending, left, absent, lastLock, coolLeft, notes, notch, screen>>

-----------------------------------------------------------------------------
\* The select's timer branch with a countdown: lock.  notchd has reached the
\* end of the same number of seconds by itself.
CountdownElapsed ==
  /\ arb = "select"
  /\ pending # Nobody /\ left = 0
  /\ StartLock
  /\ notch' = FALSE
  /\ UNCHANGED <<absent, pauseLeft, coolLeft, lastLock, notes, screen>>

\* The timer branch without one: the cooldown is over and an absence is still
\* unanswered.  Whether a pause is on is not looked at here.
CooldownOver ==
  /\ arb = "select"
  /\ pending = Nobody /\ TimerSet /\ ~Cooling
  /\ StartNext(absent, notch)
  /\ UNCHANGED <<absent, pauseLeft, coolLeft, lastLock, notes, screen>>

TimerFires == CountdownElapsed \/ CooldownOver

\* Mutant of LockDone: the lock answers nothing.
LockDoneKeepsAbsences ==
  /\ arb = "locking" /\ arb' = "select"
  /\ lastLock' = TRUE /\ coolLeft' = Cooldown
  /\ \E o \in LockOutcome : screen' = IF o = "locks" THEN "locked" ELSE screen
  /\ UNCHANGED <<absent, pending, left, pauseLeft, notes, notch>>

\* lock::lock returns.  It reports nothing, so the arbiter does the same
\* whether or not the session was locked: a dry run, a seat without an active
\* session and a failing command ("nothing") look like a lock.
LockDone ==
  /\ arb = "locking"
  /\ arb' = "select"
  /\ lastLock' = TRUE /\ coolLeft' = Cooldown
  /\ absent' = {}
  /\ \E o \in LockOutcome : screen' = IF o = "locks" THEN "locked" ELSE screen
  /\ UNCHANGED <<pending, left, pauseLeft, notes, notch>>

-----------------------------------------------------------------------------
Less(n) == IF n = 0 THEN 0 ELSE n - 1

\* One unit of time passes for every timer, whatever the task is doing.
TimePasses ==
  /\ left' = Less(left)
  /\ pauseLeft' = Less(pauseLeft)
  /\ coolLeft' = Less(coolLeft)
  /\ UNCHANGED <<arb, pending, absent, lastLock, notes, notch, screen>>

\* The user types the password.
Unlock ==
  /\ screen = "locked"
  /\ screen' = "open"
  /\ UNCHANGED <<arb, pending, timers, absent, lastLock, notes, notch>>

Away(s) == AwayIgnored(s) \/ AwaySetAside(s) \/ AwayBegins(s)
Back(s) == BackOther(s) \/ BackOwner(s)

Next ==
  \/ \E s \in Source : Away(s)
  \/ \E s \in Source \ Pulse : Back(s) \/ Note(s)
  \/ LockNow
  \/ \E d \in PauseFor : Pause(d)
  \/ Resume
  \/ TimerFires
  \/ LockDone
  \/ TimePasses
  \/ Unlock

Spec == Init /\ [][Next]_arbVars

\* A due timer is seen: both branches of the select are ready and tokio picks
\* one of the ready ones at random.  A lock command ends.  Time goes on.
FairSpec ==
  /\ Spec
  /\ WF_arbVars(TimerFires)
  /\ WF_arbVars(LockDone)
  /\ WF_arbVars(TimePasses)

-----------------------------------------------------------------------------
(***************************************************************************)
(* Properties.                                                             *)
(***************************************************************************)

\* While a pause is on nothing is counting down and nothing is remembered.
\* The timer branch (arbiter.rs:151-154) relies on it: it starts a countdown
\* for a remembered absence without asking whether a pause is on.
PausedMeansQuiet == Paused => pending = Nobody /\ absent = {}

\* A countdown never runs into, or through, a cooldown: begin is reached only
\* outside it and every lock ends the countdown.  So the timer that locks
\* (arbiter.rs:144) need not look at the cooldown.
CountdownOutsideCooldown == pending # Nobody => ~Cooling

\* The owner of a countdown is still absent: no path that strikes an absence
\* off (Back, Pause, a lock) leaves its countdown running.
OwnerIsAbsent == pending \in Source \ Pulse => pending \in absent

\* A remembered absence always has a timer that will get to it: the select
\* never parks its timer branch for ever (arbiter.rs:121-125) while an absence
\* is unanswered, although it does so when nothing was ever locked.
NoAbsenceStranded == absent # {} /\ arb = "select" => TimerSet

\* What notchd shows is what the arbiter is doing: a countdown is on screen
\* exactly while one is running, through cancels, takeovers and locks.
NotchFollowsCountdown == notch = (Notch /\ pending # Nobody)

\* `vanish status` never shows a source as back while its absence is still
\* held against you.
BackMeansForgotten == \A s \in Source : notes[s] = "back" => s \notin absent \union {pending}

\* Only the user locks during a cooldown or a pause: every automatic way to a
\* lock (a window that elapsed, a zero grace, a takeover after Back, the end of
\* the cooldown) respects both.
OnlyUserLocksThen ==
  [][arb = "select" /\ arb' = "locking" /\ (Cooling \/ Paused) => LockNow]_arbVars

\* "Master switch. `false` observes and logs but never locks" (config.rs:25-27;
\* "watch and log, never lock", vanish.toml.example:8).
DisarmedNeverLocks == ~Armed => screen = "open"

\* The first source to notice owns the window (arbiter.rs:192-198): no other
\* signal shortens, restarts or ends it.  It ends when it has run out, when the
\* user locks or pauses, or when its own source is back.
OwnerKeepsItsWindow ==
  [][pending # Nobody =>
       \/ pending' = pending /\ left' \in {left, Less(left)}
       \/ arb' = "locking" /\ (left = 0 \/ LockNow)
       \/ pending \notin Pulse /\ Back(pending)
       \/ \E d \in PauseFor : Pause(d)]_arbVars

\* The arbiter keeps the promise of Presence: an absence leaves the books by a
\* return, a pause or a lock only, and it does leave them.
Promise == INSTANCE Presence WITH
  Source <- Source \ Pulse, owed <- absent, locking <- (arb = "locking")
ImplementsPresence == Promise!Spec
=============================================================================
