----------------------------- MODULE AnchorLock -----------------------------
(***************************************************************************)
(* The anchor, the webhook and the user's commands in front of the         *)
(* arbiter, with the one mpsc channel of main.rs:125 between them.         *)
(*                                                                         *)
(* An arbiter that awaits lock::lock reads nothing; senders wait while the *)
(* channel is full.  The anchor's part is Anchor, step by step; the        *)
(* arbiter's part is Arbiter with its signals taken from the channel.  The *)
(* control socket answers a command as soon as the channel has it          *)
(* (control.rs:80-91), whenever the arbiter gets to it.                    *)
(***************************************************************************)
EXTENDS Arbiter, Anchor

CONSTANTS
  WebhookSource,  \* Source::Webhook
  Commands,     \* what the user may ask for: "lock", "resume", "pause"
  MaxRequests   \* bound of the model: commands and webhook calls

ASSUME AnchorLockAssumption ==
  /\ AnchorSource \in Source \ Pulse /\ WebhookSource \in Pulse
  /\ Commands \subseteq {"lock", "resume", "pause"}
  /\ Source \cap {"lock", "resume", "pause"} = {}
  /\ MaxRequests \in Nat

VARIABLES
  requests,     \* commands and webhook calls so far
  pulses,       \* history: webhook calls among them
  autoLocks     \* history: locks nobody asked for

front == <<requests, pulses>>
channel == <<chan, believed>>
lockVars == <<arbVars, detectors, channel, front, autoLocks>>

LockInit ==
  /\ Init /\ AnchorInit
  /\ requests = 0 /\ pulses = 0 /\ autoLocks = 0

-----------------------------------------------------------------------------
\* The senders.

AnchorStep ==
  /\ Watch
  /\ UNCHANGED <<arbVars, front, autoLocks>>

SendSignal(sig) ==
  /\ requests < MaxRequests /\ requests' = requests + 1
  /\ Len(chan) < ChannelCap
  /\ chan' = Append(chan, sig)
  /\ UNCHANGED <<arbVars, detectors, believed, autoLocks>>

\* A webhook call with the right token.
Call == SendSignal(<<WebhookSource, "away">>) /\ pulses' = pulses + 1

\* `vanish lock`, `vanish resume`, `vanish pause`: acknowledged once sent.
Command ==
  /\ \/ \E c \in Commands \ {"pause"} : SendSignal(<<c>>)
     \/ "pause" \in Commands /\ \E d \in PauseFor : SendSignal(<<"pause", d>>)
  /\ UNCHANGED pulses

-----------------------------------------------------------------------------
\* The arbiter.

Handle(sig) ==
  \/ \E s \in Source : sig = <<s, "away">> /\ Away(s)
  \/ \E s \in Source \ Pulse : sig = <<s, "back">> /\ Back(s)
  \/ sig = <<"lock">> /\ LockNow
  \/ sig = <<"resume">> /\ Resume
  \/ \E d \in PauseFor : sig = <<"pause", d>> /\ Pause(d)

\* A lock that was entered without the user asking.
CountLock(asked) ==
  autoLocks' = IF arb = "select" /\ arb' = "locking" /\ ~asked THEN autoLocks + 1 ELSE autoLocks

Receive ==
  /\ chan # <<>>
  /\ Handle(Head(chan))
  /\ chan' = Tail(chan)
  /\ believed' = IF Head(chan)[1] = AnchorSource THEN Head(chan)[2] ELSE believed
  /\ CountLock(Head(chan) = <<"lock">>)
  /\ UNCHANGED <<detectors, front>>

Timer == TimerFires /\ CountLock(FALSE) /\ UNCHANGED <<detectors, channel, front>>

Unattended(A) == A /\ UNCHANGED <<detectors, channel, front, autoLocks>>

LockNext ==
  \/ AnchorStep
  \/ Call \/ Command
  \/ Receive \/ Timer
  \/ Unattended(LockDone) \/ Unattended(TimePasses) \/ Unattended(Unlock)

LockSpec == LockInit /\ [][LockNext]_lockVars

\* The detectors run, the arbiter's select takes every branch that stays ready
\* or becomes ready again and again (tokio picks at random), a lock command
\* ends and time goes on.
FairLockSpec ==
  /\ LockSpec
  /\ WF_lockVars(Poll /\ UNCHANGED <<arbVars, front, autoLocks>>)
  /\ \A t \in Thread :
       SF_lockVars(ThreadStep(t) /\ UNCHANGED <<arbVars, front, autoLocks>>)
  /\ SF_lockVars(Receive) /\ WF_lockVars(Timer)
  /\ WF_lockVars(Unattended(LockDone)) /\ WF_lockVars(Unattended(TimePasses))

-----------------------------------------------------------------------------
(***************************************************************************)
(* Properties.                                                             *)
(***************************************************************************)

PauseQueued == \E i \in 1..Len(chan) : chan[i][1] = "pause"

\* Pulling the anchor locks the screen, whatever else is going on, unless it is
\* put back or the user pauses: through the flag, the channel, a countdown of
\* another source, a cooldown and the locks in between.
PullIsAnswered ==
  present /\ ~AnchorIn /\ Armed
    ~> AnchorIn \/ screen = "locked" \/ Paused \/ PauseQueued

\* One reason, one lock: every lock nobody asked for has a pull or a webhook
\* call of its own.  A lock that comes twice for one pull would lock the user
\* out again while the password is being typed.
OneLockPerReason == autoLocks <= pulls + pulses

\* "0 means lock immediately: whatever posted this has already made the decision"
\* (vanish.toml.example:87): a call with a grace of zero that the arbiter takes while
\* it is neither paused nor cooling makes it lock.
CallLocksAtOnce ==
  [][Receive /\ Head(chan) = <<WebhookSource, "away">> /\ Grace[WebhookSource] = 0
       /\ Armed /\ ~Paused /\ ~Cooling
     => arb' = "locking"]_lockVars

\* What is remembered of the anchor is what it said last.
AbsentIsBelieved == AnchorSource \in absent => believed = "away"
=============================================================================
