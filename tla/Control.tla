------------------------------- MODULE Control -------------------------------
(***************************************************************************)
(* Requests to a running daemon: ask() of src/src/control.rs in the client *)
(* and serve() in the daemon.                                              *)
(*                                                                         *)
(* A command is answered as soon as the channel has taken it; only the     *)
(* answer to `status` waits for the arbiter, which sends it through a      *)
(* oneshot.  Requests are well formed, as those of the command line are.   *)
(***************************************************************************)
EXTENDS Naturals, Sequences

CONSTANTS
  Client,       \* processes that run `vanish lock`, `vanish status`, ...
  Commands,     \* subset of {"lock", "resume"}
  PauseFor,     \* the durations of `vanish pause`
  ChannelCap    \* capacity of the arbiter's channel

VARIABLES
  conn,         \* each client's request and how far it has got
  chan          \* the arbiter's channel

controlVars == <<conn, chan>>

Request ==
  {<<c>> : c \in Commands \union {"status"}} \union {<<"pause", d>> : d \in PauseFor}

\* ahead: history, the signals that were in the channel when the client asked
\* and that the arbiter has not handled yet.
Connection ==
  [phase : {"idle", "asked", "queued", "answer", "closed"}, req : Request,
   ahead : 0..ChannelCap]

TypeOK == conn \in [Client -> Connection]

Idle == [phase |-> "idle", req |-> <<"status">>, ahead |-> 0]
Init == conn = [c \in Client |-> Idle]

-----------------------------------------------------------------------------
Goto(c, where) == conn' = [conn EXCEPT ![c].phase = where]

\* Connected, and the line is written.
Ask(c, r) ==
  /\ conn[c].phase = "idle"
  /\ conn' = [conn EXCEPT ![c] = [phase |-> "asked", req |-> r, ahead |-> Len(chan)]]
  /\ UNCHANGED chan

\* The signal of a request; Status carries the oneshot of its connection.
Signal(c) == IF conn[c].req = <<"status">> THEN <<"status", c>> ELSE conn[c].req

\* Mutants of Submit: one answers a status from a copy, without the arbiter, one
\* ignores the capacity of the channel, one is a try_send.
SubmitCommandsOnly(c) ==
  /\ conn[c].phase = "asked"
  /\ \/ Signal(c)[1] = "status" /\ UNCHANGED chan
     \/ Signal(c)[1] # "status" /\ Len(chan) < ChannelCap /\ chan' = Append(chan, Signal(c))
  /\ Goto(c, "answer")

SubmitWithoutWaiting(c) ==
  /\ conn[c].phase = "asked"
  /\ chan' = Append(chan, Signal(c))
  /\ Goto(c, IF Signal(c)[1] = "status" THEN "queued" ELSE "answer")

SubmitOrDrop(c) ==
  /\ conn[c].phase = "asked"
  /\ chan' = IF Len(chan) < ChannelCap THEN Append(chan, Signal(c)) ELSE chan
  /\ Goto(c, IF Signal(c)[1] # "status" THEN "answer"
             ELSE IF Len(chan) < ChannelCap THEN "queued" ELSE "closed")

\* serve(): read the line and send the signal.
Submit(c) ==
  /\ conn[c].phase = "asked" /\ Len(chan) < ChannelCap
  /\ chan' = Append(chan, Signal(c))
  /\ Goto(c, IF Signal(c)[1] = "status" THEN "queued" ELSE "answer")

\* The answer is written, and read.
Answer(c) ==
  /\ conn[c].phase = "answer"
  /\ conn' = [conn EXCEPT ![c] = Idle]
  /\ UNCHANGED chan

\* serve() ends with an error, because the receiver or the oneshot's sender is
\* gone, or the whole process is: the connections in S are closed.
Close(S) ==
  conn' = [c \in Client |-> IF conn[c].phase \in S THEN [conn[c] EXCEPT !.phase = "closed"] ELSE conn[c]]

\* The receiver is gone by the time the signal is sent.
SubmitFails(c) ==
  /\ conn[c].phase = "asked"
  /\ Goto(c, "closed")
  /\ UNCHANGED chan

\* Mutant of Fail: a client that waits for a status waits on.
FailUnlessStatus(c) ==
  /\ conn[c].phase = "closed" /\ conn[c].req # <<"status">>
  /\ conn' = [conn EXCEPT ![c] = Idle]
  /\ UNCHANGED chan

\* The client reads the end of the stream, which is no answer, and stops.
Fail(c) ==
  /\ conn[c].phase = "closed"
  /\ conn' = [conn EXCEPT ![c] = Idle]
  /\ UNCHANGED chan

\* What the arbiter's taking of sig means here: a status has its answer.
Handled(sig) ==
  conn' = [c \in Client |->
             [conn[c] EXCEPT !.ahead = IF @ = 0 THEN 0 ELSE @ - 1,
                             !.phase = IF sig = <<"status", c>> THEN "answer" ELSE @]]
=============================================================================
