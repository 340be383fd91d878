------------------------------ MODULE MCDaemon ------------------------------
(***************************************************************************)
(* A small instance of Daemon: the webhook is the only trigger, with a     *)
(* window of one time unit; calls that are right, wrong, and right with    *)
(* the wrong token in the header that counts.                              *)
(***************************************************************************)
EXTENDS Daemon, TLC

CONSTANTS webhook, vanish, shell, bar, caller

ShortGrace == webhook :> 1

SomeHeads ==
  { [post |-> TRUE, path |-> TRUE, tokens |-> <<"ours">>, body |-> FALSE],
    [post |-> TRUE, path |-> TRUE, tokens |-> <<"other", "ours">>, body |-> TRUE],
    [post |-> TRUE, path |-> TRUE, tokens |-> <<"ours", "none">>, body |-> FALSE] }
=============================================================================
