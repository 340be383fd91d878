---------------------------- MODULE ControlSocket ----------------------------
(***************************************************************************)
(* The life of a daemon and of the socket file that `vanish status` and    *)
(* the other commands connect to: start-up and exit of src/src/main.rs     *)
(* around control::run of src/src/control.rs, which removes whatever is at *)
(* the path and binds its own.                                             *)
(*                                                                         *)
(* The path is one name: bind fails when anything is there, and a listener *)
(* whose file has been removed goes on serving nobody.  A daemon that dies *)
(* leaves its file behind.  The runtime's tasks go on while main returns,  *)
(* so control::run may still be on its way to bind then.                   *)
(***************************************************************************)
CONSTANT Daemon     \* processes that may be `vanish run`

VARIABLES
  main,   \* "down", "up", "leaving" (the select has ended), "removed" (so is the file)
  ctl,    \* control::run: "none", "remove", "bind", "serving", "deaf" (bind failed)
  file    \* what is at the path: "none", "stale", or the daemon listening there

socketVars == <<main, ctl, file>>

TypeOK ==
  /\ main \in [Daemon -> {"down", "up", "leaving", "removed"}]
  /\ ctl \in [Daemon -> {"none", "remove", "bind", "serving", "deaf"}]
  /\ file \in Daemon \union {"none", "stale"}

Init ==
  /\ main = [d \in Daemon |-> "down"]
  /\ ctl = [d \in Daemon |-> "none"]
  /\ file \in {"none", "stale"}

-----------------------------------------------------------------------------
Start(d) ==
  /\ main[d] = "down"
  /\ main' = [main EXCEPT ![d] = "up"]
  /\ ctl' = [ctl EXCEPT ![d] = "remove"]
  /\ UNCHANGED file

\* Mutant of Remove: a file that is left over is left alone.
RemoveNothing(d) ==
  /\ main[d] # "down" /\ ctl[d] = "remove"
  /\ ctl' = [ctl EXCEPT ![d] = "bind"]
  /\ UNCHANGED <<main, file>>

\* remove_file: whosever it is.
Remove(d) ==
  /\ main[d] # "down" /\ ctl[d] = "remove"
  /\ ctl' = [ctl EXCEPT ![d] = "bind"]
  /\ file' = "none"
  /\ UNCHANGED main

\* UnixListener::bind; when it fails the task ends with a warning.
Bind(d) ==
  /\ main[d] # "down" /\ ctl[d] = "bind"
  /\ ctl' = [ctl EXCEPT ![d] = IF file = "none" THEN "serving" ELSE "deaf"]
  /\ file' = IF file = "none" THEN d ELSE file
  /\ UNCHANGED main

\* SIGTERM or an interrupt ends the select, and the arbiter with it.
Term(d) ==
  /\ main[d] = "up"
  /\ main' = [main EXCEPT ![d] = "leaving"]
  /\ UNCHANGED <<ctl, file>>

\* The remove_file at the end of daemon().
Leave(d) ==
  /\ main[d] = "leaving"
  /\ main' = [main EXCEPT ![d] = "removed"]
  /\ file' = "none"
  /\ UNCHANGED ctl

\* The process is gone, and with it the listener.
Gone(d) ==
  /\ main' = [main EXCEPT ![d] = "down"]
  /\ ctl' = [ctl EXCEPT ![d] = "none"]
  /\ file' = IF file = d THEN "stale" ELSE file

Exit(d) == main[d] = "removed" /\ Gone(d)

\* SIGKILL, a panic in main, power.
Crash(d) == main[d] # "down" /\ Gone(d)

Serve(d) == Remove(d) \/ Bind(d)
Quit(d) == Leave(d) \/ Exit(d)

Next == \E d \in Daemon : Start(d) \/ Serve(d) \/ Term(d) \/ Quit(d) \/ Crash(d)

Spec == Init /\ [][Next]_socketVars

-----------------------------------------------------------------------------
(***************************************************************************)
(* Properties.                                                             *)
(***************************************************************************)

\* A daemon that stays up can be reached, whatever the last one left behind:
\* nothing restarts a control task whose bind has failed.
RestartIsReachable == \A d \in Daemon : main[d] = "up" ~> file = d \/ main[d] # "up"

\* control.rs:46-48: "a live daemon holding this path means our own bind is the
\* mistake, which the next line reports".  So of two live daemons one is told.
BindReportsTheMistake ==
  \A d, e \in Daemon :
    main[d] = "up" /\ main[e] = "up" /\ ctl[d] = "serving" /\ ctl[e] = "serving" => d = e
=============================================================================
