------------------------------- MODULE Daemon -------------------------------
(***************************************************************************)
(* One daemon from start to exit, and again: daemon() of src/src/main.rs   *)
(* with its control socket, its webhook, the channel and the arbiter, and  *)
(* the clients and callers at its door.                                    *)
(*                                                                         *)
(* The arbiter is Arbiter with its signals taken from the channel.  It and *)
(* the receiver are dropped with the select of main, wherever they are;    *)
(* the connections' tasks go on until the runtime is gone.  Nothing is     *)
(* persisted; a lock command that has been started goes on alone.          *)
(***************************************************************************)
EXTENDS Arbiter, Sequences

CONSTANTS
  Vanish,         \* the process
  WebhookSource,  \* Source::Webhook
  Caller, Heads, Client, Commands, ChannelCap,
  MaxRequests,    \* bound of the model: requests of the clients
  MaxCalls,       \* bound of the model: connections to the webhook
  MaxStarts       \* bound of the model: starts of the daemon

VARIABLES
  main, ctl, file,      \* of ControlSocket
  call,                 \* of Webhook
  conn,                 \* of Control
  chan,
  requests, calls, starts

Cs == INSTANCE ControlSocket WITH Daemon <- {Vanish}
Hook == INSTANCE Webhook WITH Self <- WebhookSource
Ctl == INSTANCE Control

ASSUME DaemonAssumption ==
  /\ WebhookSource \in Pulse /\ WebhookSource # "status"
  /\ Vanish \notin {"none", "stale"}
  /\ Heads \subseteq Hook!RequestHead
  /\ Commands \subseteq {"lock", "resume"}
  /\ ChannelCap \in Nat \ {0}
  /\ MaxRequests \in Nat /\ MaxCalls \in Nat /\ MaxStarts \in Nat

socket == <<main, ctl, file>>
counts == <<requests, calls, starts>>
daemonVars == <<arbVars, socket, call, conn, chan, counts>>

DaemonInit ==
  /\ Init /\ Cs!Init /\ Hook!Init /\ Ctl!Init
  /\ chan = <<>>
  /\ requests = 0 /\ calls = 0 /\ starts = 0

Up == main[Vanish] = "up"
Alive == main[Vanish] # "down"

-----------------------------------------------------------------------------
\* The process.

\* The arbiter's state is lost with it, and so is what was queued.  The session
\* stays as it is, unless the lock command that was awaited gets it locked.
DropArbiter ==
  /\ arb' = "select" /\ pending' = Nobody /\ left' = 0 /\ absent' = {}
  /\ pauseLeft' = 0 /\ lastLock' = FALSE /\ coolLeft' = 0
  /\ notes' = [s \in Source |-> "quiet"]
  /\ screen' \in {screen} \union (IF arb = "locking" /\ "locks" \in LockOutcome THEN {"locked"} ELSE {})
  /\ chan' = <<>>
  /\ UNCHANGED notch

Start ==
  /\ starts < MaxStarts /\ starts' = starts + 1
  /\ Cs!Start(Vanish)
  /\ UNCHANGED <<arbVars, call, conn, chan, requests, calls>>

Bind == Cs!Serve(Vanish) /\ UNCHANGED <<arbVars, call, conn, chan, counts>>

Term ==
  /\ Cs!Term(Vanish) /\ DropArbiter
  /\ Ctl!Close({"queued"})
  /\ UNCHANGED <<call, counts>>

Leave == Cs!Leave(Vanish) /\ UNCHANGED <<arbVars, call, conn, chan, counts>>

\* Every connection ends with the process.
Die ==
  /\ Cs!Exit(Vanish) \/ Cs!Crash(Vanish)
  /\ DropArbiter
  /\ Ctl!Close({"asked", "queued", "answer"})
  /\ call' = [k \in Caller |-> "closed"]
  /\ UNCHANGED counts

-----------------------------------------------------------------------------
\* The connections.

\* The file leads to a listener.
Ask ==
  /\ requests < MaxRequests /\ requests' = requests + 1
  /\ file = Vanish
  /\ \E c \in Client, r \in Ctl!Request : Ctl!Ask(c, r)
  /\ UNCHANGED <<arbVars, socket, call, calls, starts>>

\* A request on its way.  Without an arbiter the send fails.
Answering(c) ==
  /\ \/ Up /\ Ctl!Submit(c)
     \/ ~Up /\ Ctl!SubmitFails(c)
     \/ Ctl!Answer(c) \/ Ctl!Fail(c)
  /\ UNCHANGED <<arbVars, socket, call, counts>>

Connect ==
  /\ calls < MaxCalls /\ calls' = calls + 1
  /\ Alive
  /\ \E k \in Caller : Hook!Connect(k)
  /\ UNCHANGED <<arbVars, socket, conn, requests, starts>>

Talk ==
  /\ \E k \in Caller : Hook!ReadSome(k) \/ Hook!ReadHead(k)
  /\ UNCHANGED <<arbVars, socket, conn, counts>>

Hooking(k) ==
  /\ \/ Hook!Serve(k)
     \/ Up /\ Hook!Send(k)
     \/ ~Up /\ Hook!SendFails(k)
  /\ UNCHANGED <<arbVars, socket, conn, counts>>

-----------------------------------------------------------------------------
\* The arbiter.

\* Signal::Status reads and answers.
Status == arb = "select" /\ UNCHANGED arbVars

Handle(sig) ==
  \/ sig = <<WebhookSource, "away">> /\ Away(WebhookSource)
  \/ sig = <<"lock">> /\ LockNow
  \/ sig = <<"resume">> /\ Resume
  \/ \E d \in PauseFor : sig = <<"pause", d>> /\ Pause(d)
  \/ \E c \in Client : sig = <<"status", c>> /\ Status

Receive ==
  /\ Up /\ chan # <<>>
  /\ Handle(Head(chan))
  /\ chan' = Tail(chan)
  /\ Ctl!Handled(Head(chan))
  /\ UNCHANGED <<socket, call, counts>>

Arbitrate(A) == A /\ UNCHANGED <<socket, call, conn, chan, counts>>

Timer == Arbitrate(TimerFires)
Locked == Arbitrate(LockDone)
Clock == Arbitrate(TimePasses)

DaemonNext ==
  \/ Start \/ Bind \/ Term \/ Leave \/ Die
  \/ Ask \/ Connect \/ Talk
  \/ \E c \in Client : Answering(c)
  \/ \E k \in Caller : Hooking(k)
  \/ Receive \/ Timer \/ Locked \/ Clock
  \/ Arbitrate(Unlock)

DaemonSpec == DaemonInit /\ [][DaemonNext]_daemonVars

\* The runtime runs every task that can go on, a client reads what it is sent, a
\* lock command ends and time goes on.  Nobody has to ask, call, start or stop.
FairDaemonSpec ==
  /\ DaemonSpec
  /\ WF_daemonVars(Bind)
  /\ \A c \in Client : WF_daemonVars(Answering(c))
  /\ \A k \in Caller : WF_daemonVars(Hooking(k))
  /\ WF_daemonVars(Receive) /\ WF_daemonVars(Timer \/ Locked) /\ WF_daemonVars(Clock)

-----------------------------------------------------------------------------
(***************************************************************************)
(* Properties.                                                             *)
(***************************************************************************)

\* The bounded channel is never overrun by those who share it, and every part
\* keeps its type.
DaemonTypeOK ==
  /\ TypeOK /\ Cs!TypeOK /\ Hook!TypeOK /\ Ctl!TypeOK
  /\ Len(chan) <= ChannelCap

\* Whatever was queued before a `vanish status` was asked shows in its answer:
\* after an acknowledged `pause` the status never says that it is not paused.
StatusIsNotStale ==
  \A c \in Client :
    conn[c].phase = "answer" /\ conn[c].req = <<"status">> => conn[c].ahead = 0

\* ask() has no timeout, and need not have one: every client gets an answer or
\* the end of the stream, also when the arbiter is locking, the channel is full,
\* or the daemon stops with the request in its hands.
EveryClientReturns ==
  \A c \in Client : conn[c].phase # "idle" ~> conn[c].phase = "idle"

\* "A request that never finishes its headers must not hold a task forever"
\* (webhook.rs:59), and nothing else does either.
EveryCallEnds == \A k \in Caller : call[k] # "closed" ~> call[k] = "closed"

\* A call with our token locks, even if its body never comes or its caller has
\* hung up: unless the user pauses, a lock was just made, or the daemon stops.
\* That is so of a webhook that is the only trigger, as it is here; a call in the
\* countdown of another source is dropped (CallLocksAtOnce, of AnchorLock).
ValidCallLocks ==
  \A k \in Caller :
    call[k] \in {"body", "answer", "send"} /\ Armed
      ~> arb = "locking" \/ Paused \/ Cooling \/ ~Up

\* `vanish lock` locks if the daemon lives on, although its ok is sent when the
\* channel has the signal, before the arbiter has seen it.
RequestedLockIsDone ==
  \A c \in Client :
    conn[c].phase = "asked" /\ conn[c].req = <<"lock">> ~> arb = "locking" \/ ~Up

\* A daemon that stays up can be reached, whatever the last one left behind.
RestartIsReachable == Cs!RestartIsReachable
=============================================================================
