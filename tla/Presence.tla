------------------------------ MODULE Presence ------------------------------
(***************************************************************************)
(* What the arbiter promises, without clocks, grace windows or messages.   *)
(*                                                                         *)
(* The head comment of src/src/arbiter.rs (lines 17-24) says it in prose:  *)
(* an absence is remembered, only its own source can take it back, a pause *)
(* forgets what was seen so far, and a lock answers every absence known at *)
(* that moment.  Nothing else may make an absence disappear, and none may  *)
(* stay unanswered for ever.                                               *)
(***************************************************************************)
CONSTANT Source             \* the triggers that report absences

VARIABLES
  owed,                     \* absences reported and not answered yet
  locking                   \* is a lock being carried out right now?

presenceVars == <<owed, locking>>

Init == owed = {} /\ locking = FALSE

\* A trigger reports that you left; a lock may follow at once.
Leave(s) ==
  /\ ~locking
  /\ owed' = owed \union {s}
  /\ locking' \in BOOLEAN

\* A trigger takes its own report back.  If a lock follows at once, it is on
\* account of another absence.
Return(s) ==
  /\ ~locking
  /\ owed' = owed \ {s}
  /\ locking' \in IF owed' = {} THEN {FALSE} ELSE BOOLEAN

\* A pause: ignore what has been seen so far.
Forgive == ~locking /\ owed' = {} /\ UNCHANGED locking

\* An absence has lasted long enough, the user asked, or a pulse came in.
BeginLock == ~locking /\ locking' = TRUE /\ UNCHANGED owed

\* The lock is done and answers everything.
EndLock == locking /\ locking' = FALSE /\ owed' = {}

Next ==
  \/ \E s \in Source : Leave(s) \/ Return(s)
  \/ Forgive
  \/ BeginLock
  \/ EndLock

Answered == \A s \in Source : (s \in owed) ~> (s \notin owed)

Safe == Init /\ [][Next]_presenceVars

Spec == Safe /\ WF_presenceVars(EndLock) /\ Answered
=============================================================================
