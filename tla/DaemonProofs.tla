---------------------------- MODULE DaemonProofs ----------------------------
(***************************************************************************)
(* What the run of Daemon checks with two clients and a channel of one,    *)
(* for any number of clients and calls and every capacity of the channel.  *)
(***************************************************************************)
EXTENDS Daemon, ArbiterProofs, SequenceTheorems

\* What may be in the channel.
StatusOf(c) == <<"status", c>>
Message ==
  Ctl!Request \union {<<WebhookSource, "away">>} \union {StatusOf(c) : c \in Client}

QueueOK == Ctl!TypeOK /\ chan \in Seq(Message) /\ Len(chan) <= ChannelCap

\* Without a process there are no connections, and the file leads nowhere.
DownIsEmpty ==
  /\ ~Alive => \A c \in Client : conn[c].phase \in {"idle", "closed"}
  /\ file = Vanish => Alive

\* A request that has not been sent yet counts signals that are all still queued.
AskedIsBehind == Up => \A c \in Client : conn[c].phase = "asked" => conn[c].ahead <= Len(chan)

\* A status in the channel belongs to a client that waits for it, and what that
\* client counts is in front of it.
StatusIsBehind ==
  \A c \in Client : \A i \in 1..Len(chan) : chan[i] = StatusOf(c) =>
    conn[c].phase = "queued" /\ conn[c].req = <<"status">> /\ conn[c].ahead <= i - 1

\* It is there once.
StatusIsOnce ==
  \A c \in Client : \A i, j \in 1..Len(chan) : chan[i] = StatusOf(c) /\ chan[j] = StatusOf(c) => i = j

\* The inductive invariant.
QInv ==
  /\ QueueOK /\ DownIsEmpty /\ AskedIsBehind /\ StatusIsBehind /\ StatusIsOnce /\ StatusIsNotStale

-----------------------------------------------------------------------------
\* No command and no call looks like a status.
LEMMA OnlyStatusIsStatus ==
  ASSUME NEW c \in Client
  PROVE  /\ \A r \in Ctl!Request : r # StatusOf(c)
         /\ <<WebhookSource, "away">> # StatusOf(c)
         /\ \A d \in Client : StatusOf(c) = StatusOf(d) => c = d
<1>1. ASSUME NEW r \in Ctl!Request PROVE r # StatusOf(c)
  <2>1. (\E x : r = <<x>>) \/ (\E d : r = <<"pause", d>>)
    BY <1>1 DEF Ctl!Request
  <2> QED
    BY <2>1 DEF StatusOf
<1>2. <<WebhookSource, "away">> # StatusOf(c)
  BY DaemonAssumption DEF StatusOf
<1>3. \A d \in Client : StatusOf(c) = StatusOf(d) => c = d
  BY DEF StatusOf
<1> QED
  BY <1>1, <1>2, <1>3

LEMMA InitQueue == DaemonInit => QInv
<1> SUFFICES ASSUME DaemonInit PROVE QInv
  OBVIOUS
<1>1. chan \in Seq(Message) /\ Len(chan) = 0 /\ ChannelCap \in Nat \ {0}
  BY EmptySeq, DaemonAssumption DEF DaemonInit
<1>2. \A c \in Client : conn[c] = Ctl!Idle
  BY DEF DaemonInit, Ctl!Init
<1>3. Ctl!Idle \in Ctl!Connection
  BY <1>1 DEF Ctl!Idle, Ctl!Connection, Ctl!Request
<1>4. QueueOK
  BY <1>1, <1>3 DEF DaemonInit, Ctl!Init, Ctl!TypeOK, QueueOK
<1>5. \A c \in Client : conn[c].phase = "idle"
  BY <1>2 DEF Ctl!Idle
<1>6. file # Vanish
  BY DaemonAssumption DEF DaemonInit, Cs!Init
<1> QED
  BY <1>1, <1>4, <1>5, <1>6
  DEF QInv, DownIsEmpty, AskedIsBehind, StatusIsBehind, StatusIsOnce, StatusIsNotStale

-----------------------------------------------------------------------------
\* Steps that touch neither a request nor the channel: a daemon may come up if
\* there was none, and the file may lead to a daemon that is alive.
LEMMA Elsewhere ==
  ASSUME QInv, UNCHANGED <<conn, chan>>, Up' => Up \/ ~Alive, Alive => Alive',
         file' = Vanish => Alive'
  PROVE  QInv'
<1> USE DEF QInv
<1>1. QueueOK'
  BY DEF QueueOK, Ctl!TypeOK
<1>2. DownIsEmpty'
  BY DEF DownIsEmpty
<1>3. AskedIsBehind'
  BY DEF AskedIsBehind, DownIsEmpty
<1>4. StatusIsBehind' /\ StatusIsOnce' /\ StatusIsNotStale'
  BY DEF StatusIsBehind, StatusIsOnce, StatusIsNotStale
<1> QED
  BY <1>1, <1>2, <1>3, <1>4

\* Connections are closed, and the channel is gone with the arbiter.
LEMMA Closing ==
  ASSUME QInv, NEW S \in SUBSET {"asked", "queued", "answer"}, Ctl!Close(S), chan' = <<>>,
         ~Up', ~Alive' => S = {"asked", "queued", "answer"}, file' = Vanish => Alive'
  PROVE  QInv'
<1> USE DEF QInv
<1>1. \A c \in Client :
        /\ conn[c] \in Ctl!Connection
        /\ conn'[c] = IF conn[c].phase \in S THEN [conn[c] EXCEPT !.phase = "closed"] ELSE conn[c]
  BY DEF Ctl!Close, QueueOK, Ctl!TypeOK
<1>2. \A c \in Client :
        /\ conn'[c] \in Ctl!Connection
        /\ conn'[c].phase = (IF conn[c].phase \in S THEN "closed" ELSE conn[c].phase)
        /\ conn'[c].req = conn[c].req /\ conn'[c].ahead = conn[c].ahead
  BY <1>1 DEF Ctl!Connection
<1>3. QueueOK'
  <2>1. chan' \in Seq(Message) /\ Len(chan') = 0 /\ ChannelCap \in Nat
    BY EmptySeq, DaemonAssumption
  <2>2. Ctl!TypeOK'
    BY <1>2 DEF Ctl!Close, Ctl!TypeOK
  <2> QED
    BY <2>1, <2>2 DEF QueueOK
<1>4. DownIsEmpty'
  <2>1. ASSUME ~Alive', NEW c \in Client PROVE conn'[c].phase \in {"idle", "closed"}
    BY <1>1, <1>2, <2>1 DEF Ctl!Connection
  <2> QED
    BY <2>1 DEF DownIsEmpty
<1>5. AskedIsBehind' /\ StatusIsBehind' /\ StatusIsOnce'
  BY DEF AskedIsBehind, StatusIsBehind, StatusIsOnce
<1>6. StatusIsNotStale'
  BY <1>2 DEF StatusIsNotStale
<1> QED
  BY <1>3, <1>4, <1>5, <1>6

\* A client asks: everything that is queued is in front of it.
LEMMA Asking ==
  ASSUME QInv, NEW c \in Client, NEW r \in Ctl!Request, Ctl!Ask(c, r),
         UNCHANGED <<main, file>>, Alive
  PROVE  QInv'
<1> USE DEF QInv
<1>1. /\ conn' = [conn EXCEPT ![c] = [phase |-> "asked", req |-> r, ahead |-> Len(chan)]]
      /\ chan' = chan /\ conn[c].phase = "idle"
  BY DEF Ctl!Ask
<1>2. Len(chan) \in 0..ChannelCap
  BY DaemonAssumption DEF QueueOK
<1>3. /\ conn'[c].phase = "asked" /\ conn'[c].req = r /\ conn'[c].ahead = Len(chan)
      /\ \A d \in Client \ {c} : conn'[d] = conn[d]
  BY <1>1 DEF QueueOK, Ctl!TypeOK
<1>4. QueueOK'
  BY <1>1, <1>2 DEF QueueOK, Ctl!TypeOK, Ctl!Connection
<1>5. DownIsEmpty'
  BY DEF DownIsEmpty, Alive
<1>6. AskedIsBehind'
  BY <1>1, <1>2, <1>3 DEF AskedIsBehind, Up
<1>7. StatusIsBehind' /\ StatusIsOnce' /\ StatusIsNotStale'
  BY <1>1, <1>3 DEF StatusIsBehind, StatusIsOnce, StatusIsNotStale
<1> QED
  BY <1>4, <1>5, <1>6, <1>7

\* A connection ends: an answer was read, or there is none.
LEMMA Ending ==
  ASSUME QInv, NEW c \in Client, Ctl!SubmitFails(c) \/ Ctl!Answer(c) \/ Ctl!Fail(c),
         UNCHANGED <<main, file>>
  PROVE  QInv'
<1> USE DEF QInv
<1>1. /\ chan' = chan /\ conn[c].phase \in {"asked", "answer", "closed"}
      /\ conn[c] \in Ctl!Connection
      /\ \A d \in Client \ {c} : conn'[d] = conn[d]
  BY DEF Ctl!SubmitFails, Ctl!Answer, Ctl!Fail, Ctl!Goto, QueueOK, Ctl!TypeOK
<1>2. 0 \in 0..ChannelCap
  BY DaemonAssumption
<1>3. conn' \in [Client -> Ctl!Connection] /\ conn'[c].phase \in {"idle", "closed"}
  <2>1. CASE Ctl!SubmitFails(c)
    BY <1>1, <2>1 DEF Ctl!SubmitFails, Ctl!Goto, QueueOK, Ctl!TypeOK, Ctl!Connection
  <2>2. CASE Ctl!Answer(c) \/ Ctl!Fail(c)
    <3>1. conn' = [conn EXCEPT ![c] = Ctl!Idle]
      BY <2>2 DEF Ctl!Answer, Ctl!Fail
    <3>2. Ctl!Idle \in Ctl!Connection /\ Ctl!Idle.phase = "idle"
      BY <1>2 DEF Ctl!Idle, Ctl!Connection, Ctl!Request
    <3> QED
      BY <3>1, <3>2 DEF QueueOK, Ctl!TypeOK
  <2> QED
    BY <2>1, <2>2
<1>4. QueueOK'
  BY <1>1, <1>3 DEF QueueOK, Ctl!TypeOK
<1>5. DownIsEmpty'
  BY <1>1, <1>3 DEF DownIsEmpty, Alive
<1>6. AskedIsBehind' /\ StatusIsNotStale'
  BY <1>1, <1>3 DEF AskedIsBehind, StatusIsNotStale, Up
<1>7. StatusIsBehind' /\ StatusIsOnce'
  BY <1>1, <1>3 DEF StatusIsBehind, StatusIsOnce
<1> QED
  BY <1>4, <1>5, <1>6, <1>7

\* A signal joins the end of the queue.  If it is a status, its client starts to
\* wait for it, and counted no more than what was there.
LEMMA Queueing ==
  ASSUME QInv, NEW m \in Message, chan' = Append(chan, m), Len(chan) < ChannelCap,
         Ctl!TypeOK', UNCHANGED <<main, file>>, Up,
         \A c \in Client : m # StatusOf(c) /\ conn'[c] # conn[c] =>
           conn'[c].phase = "answer" /\ conn'[c].req # <<"status">> /\ conn[c].phase = "asked",
         \A c \in Client : m = StatusOf(c) =>
           /\ conn[c].phase = "asked"
           /\ conn'[c].phase = "queued" /\ conn'[c].req = <<"status">> /\ conn'[c].ahead = conn[c].ahead
  PROVE  QInv'
<1> USE DEF QInv
<1>1. /\ chan' \in Seq(Message) /\ Len(chan') = Len(chan) + 1 /\ Len(chan) \in Nat
      /\ \A i \in 1..Len(chan) : chan'[i] = chan[i]
      /\ chan'[Len(chan) + 1] = m
  BY AppendProperties DEF QueueOK
<1>2. \A c \in Client : conn[c].ahead \in Nat /\ conn'[c].ahead \in Nat
  BY DEF QueueOK, Ctl!TypeOK, Ctl!Connection
<1>3. QueueOK'
  BY <1>1, DaemonAssumption DEF QueueOK
<1>4. DownIsEmpty'
  BY DEF DownIsEmpty, Up, Alive
<1>5. AskedIsBehind'
  BY <1>1, <1>2 DEF AskedIsBehind, Up
<1>6. StatusIsBehind'
  <2> SUFFICES ASSUME NEW c \in Client, NEW i \in 1..Len(chan'), chan'[i] = StatusOf(c)
               PROVE  conn'[c].phase = "queued" /\ conn'[c].req = <<"status">> /\ conn'[c].ahead <= i - 1
    BY DEF StatusIsBehind
  <2>1. CASE i = Len(chan) + 1
    BY <1>1, <2>1 DEF AskedIsBehind
  <2>2. CASE i # Len(chan) + 1
    <3>1. i \in 1..Len(chan) /\ chan[i] = StatusOf(c)
      BY <1>1, <2>2
    <3>2. conn[c].phase = "queued" /\ conn[c].req = <<"status">> /\ conn[c].ahead <= i - 1
      BY <3>1 DEF StatusIsBehind
    <3> QED
      BY <3>2
  <2> QED
    BY <2>1, <2>2
<1>7. StatusIsOnce'
  <2> SUFFICES ASSUME NEW c \in Client, NEW i \in 1..Len(chan'), NEW j \in 1..Len(chan'),
                      chan'[i] = StatusOf(c), chan'[j] = StatusOf(c), i < j
               PROVE  FALSE
    BY <1>1 DEF StatusIsOnce
  <2>1. i \in 1..Len(chan) /\ chan[i] = StatusOf(c)
    BY <1>1
  <2>2. conn[c].phase = "queued"
    BY <2>1 DEF StatusIsBehind
  <2>3. j # Len(chan) + 1
    BY <1>1, <2>2
  <2> QED
    BY <1>1, <2>1, <2>3 DEF StatusIsOnce
<1>8. StatusIsNotStale'
  BY DEF StatusIsNotStale
<1> QED
  BY <1>3, <1>4, <1>5, <1>6, <1>7, <1>8

\* serve() sends the signal of a request.
LEMMA Submitting ==
  ASSUME QInv, NEW c \in Client, Up, Ctl!Submit(c), UNCHANGED <<main, file>>
  PROVE  QInv'
<1> DEFINE m == Ctl!Signal(c)
<1>1. conn[c] \in Ctl!Connection /\ conn \in [Client -> Ctl!Connection]
  BY DEF QInv, QueueOK, Ctl!TypeOK
<1>2. /\ conn[c].phase = "asked" /\ Len(chan) < ChannelCap /\ chan' = Append(chan, m)
      /\ conn' = [conn EXCEPT ![c].phase = IF m[1] = "status" THEN "queued" ELSE "answer"]
  BY DEF Ctl!Submit, Ctl!Goto
<1>3. CASE conn[c].req = <<"status">>
  <2>1. m = StatusOf(c) /\ m \in Message
    BY <1>3 DEF Ctl!Signal, StatusOf, Message
  <2>2. m[1] = "status"
    BY <2>1 DEF StatusOf
  <2> HIDE DEF m
  <2>3. conn' = [conn EXCEPT ![c].phase = "queued"]
    BY <1>2, <2>2
  <2>4. /\ conn'[c].phase = "queued" /\ conn'[c].req = <<"status">> /\ conn'[c].ahead = conn[c].ahead
        /\ \A d \in Client \ {c} : conn'[d] = conn[d]
        /\ Ctl!TypeOK'
    BY <1>1, <1>3, <2>3 DEF Ctl!TypeOK, Ctl!Connection
  <2>5. \A d \in Client : m = StatusOf(d) => d = c
    BY <2>1, OnlyStatusIsStatus
  <2> QED
    BY <1>2, <2>1, <2>4, <2>5, Queueing
<1>4. CASE conn[c].req # <<"status">>
  <2>1. m = conn[c].req /\ m \in Ctl!Request /\ m \in Message
    BY <1>1, <1>4 DEF Ctl!Signal, Ctl!Connection, Message
  <2>2. m[1] # "status"
    BY <1>4, <2>1, DaemonAssumption DEF Ctl!Request
  <2>3. \A d \in Client : m # StatusOf(d)
    BY <2>1, OnlyStatusIsStatus
  <2> HIDE DEF m
  <2>4. conn' = [conn EXCEPT ![c].phase = "answer"]
    BY <1>2, <2>2
  <2>5. /\ conn'[c].phase = "answer" /\ conn'[c].req # <<"status">>
        /\ \A d \in Client \ {c} : conn'[d] = conn[d]
        /\ Ctl!TypeOK'
    BY <1>1, <1>4, <2>4 DEF Ctl!TypeOK, Ctl!Connection
  <2> QED
    BY <1>2, <2>1, <2>3, <2>5, Queueing
<1> QED
  BY <1>3, <1>4

\* The arbiter takes the first signal.
LEMMA Taking ==
  ASSUME QInv, Up, chan # <<>>, chan' = Tail(chan), Ctl!Handled(Head(chan)),
         UNCHANGED <<main, file>>
  PROVE  QInv'
<1> USE DEF QInv
<1>1. /\ chan' \in Seq(Message) /\ Len(chan) \in Nat \ {0} /\ Len(chan') = Len(chan) - 1
      /\ \A i \in 1..Len(chan') : chan'[i] = chan[i + 1]
  BY HeadTailProperties DEF QueueOK
<1>2. Head(chan) = chan[1]
  BY <1>1 DEF QueueOK
<1>3. \A c \in Client : conn[c] \in Ctl!Connection
  BY DEF QueueOK, Ctl!TypeOK
<1>4. \A c \in Client :
        conn'[c] = [conn[c] EXCEPT !.ahead = IF @ = 0 THEN 0 ELSE @ - 1,
                                   !.phase = IF chan[1] = StatusOf(c) THEN "answer" ELSE @]
  BY <1>2 DEF Ctl!Handled, StatusOf
<1>5. \A c \in Client :
        /\ conn'[c].phase = (IF chan[1] = StatusOf(c) THEN "answer" ELSE conn[c].phase)
        /\ conn'[c].req = conn[c].req
        /\ conn[c].ahead \in 0..ChannelCap
        /\ conn'[c].ahead = (IF conn[c].ahead = 0 THEN 0 ELSE conn[c].ahead - 1)
        /\ conn'[c] \in Ctl!Connection
  <2> SUFFICES ASSUME NEW c \in Client
               PROVE  /\ conn'[c].phase = (IF chan[1] = StatusOf(c) THEN "answer" ELSE conn[c].phase)
                      /\ conn'[c].req = conn[c].req
                      /\ conn[c].ahead \in 0..ChannelCap
                      /\ conn'[c].ahead = (IF conn[c].ahead = 0 THEN 0 ELSE conn[c].ahead - 1)
                      /\ conn'[c] \in Ctl!Connection
    OBVIOUS
  <2> DEFINE less == IF conn[c].ahead = 0 THEN 0 ELSE conn[c].ahead - 1
             next == IF chan[1] = StatusOf(c) THEN "answer" ELSE conn[c].phase
  <2>1. conn[c].ahead \in 0..ChannelCap /\ less \in 0..ChannelCap
    BY <1>3, DaemonAssumption DEF Ctl!Connection
  <2>2. conn'[c] = [conn[c] EXCEPT !.ahead = less, !.phase = next]
    BY <1>4
  <2>3. next \in {"idle", "asked", "queued", "answer", "closed"}
    BY <1>3 DEF Ctl!Connection
  <2> HIDE DEF less, next
  <2>4. /\ conn'[c].phase = next /\ conn'[c].req = conn[c].req /\ conn'[c].ahead = less
        /\ conn'[c] \in Ctl!Connection
    BY <1>3, <2>1, <2>2, <2>3 DEF Ctl!Connection
  <2> QED
    BY <2>1, <2>4 DEF less, next
<1>6. QueueOK'
  <2>1. conn' \in [Client -> Ctl!Connection]
    BY <1>5 DEF Ctl!Handled
  <2> QED
    BY <1>1, <2>1, DaemonAssumption DEF QueueOK, Ctl!TypeOK
<1>7. DownIsEmpty'
  BY DEF DownIsEmpty, Up, Alive
<1>8. AskedIsBehind'
  BY <1>1, <1>5 DEF AskedIsBehind, Up
<1>9. StatusIsBehind'
  <2> SUFFICES ASSUME NEW c \in Client, NEW i \in 1..Len(chan'), chan'[i] = StatusOf(c)
               PROVE  conn'[c].phase = "queued" /\ conn'[c].req = <<"status">> /\ conn'[c].ahead <= i - 1
    BY DEF StatusIsBehind
  <2>1. i + 1 \in 1..Len(chan) /\ 1 \in 1..Len(chan) /\ i + 1 # 1 /\ chan[i + 1] = StatusOf(c)
    BY <1>1
  <2>2. conn[c].phase = "queued" /\ conn[c].req = <<"status">> /\ conn[c].ahead <= i
    BY <2>1 DEF StatusIsBehind
  <2>3. chan[1] # StatusOf(c)
    BY <2>1 DEF StatusIsOnce
  <2> QED
    BY <1>5, <2>2, <2>3
<1>10. StatusIsOnce'
  <2> SUFFICES ASSUME NEW c \in Client, NEW i \in 1..Len(chan'), NEW j \in 1..Len(chan'),
                      chan'[i] = StatusOf(c), chan'[j] = StatusOf(c)
               PROVE  i = j
    BY DEF StatusIsOnce
  <2>1. i + 1 \in 1..Len(chan) /\ j + 1 \in 1..Len(chan)
        /\ chan[i + 1] = StatusOf(c) /\ chan[j + 1] = StatusOf(c)
    BY <1>1
  <2>2. i + 1 = j + 1
    BY <2>1 DEF StatusIsOnce
  <2> QED
    BY <2>2
<1>11. StatusIsNotStale'
  <2> SUFFICES ASSUME NEW c \in Client, conn'[c].phase = "answer", conn'[c].req = <<"status">>
               PROVE  conn'[c].ahead = 0
    BY DEF StatusIsNotStale
  <2>1. CASE chan[1] = StatusOf(c)
    <3>1. conn[c].ahead <= 1 - 1
      BY <1>1, <2>1 DEF StatusIsBehind
    <3> QED
      BY <1>5, <3>1
  <2>2. CASE chan[1] # StatusOf(c)
    BY <1>5, <2>2 DEF StatusIsNotStale
  <2> QED
    BY <2>1, <2>2
<1> QED
  BY <1>6, <1>7, <1>8, <1>9, <1>10, <1>11

LEMMA QueueStep == QInv /\ Cs!TypeOK /\ [DaemonNext]_daemonVars => QInv'
<1> SUFFICES ASSUME QInv, Cs!TypeOK, [DaemonNext]_daemonVars PROVE QInv'
  OBVIOUS
<1> USE DEF Up, Alive
<1>1. CASE Start \/ Bind \/ Leave
  <2>1. UNCHANGED <<conn, chan>>
    BY <1>1 DEF Start, Bind, Leave
  <2>2. (Up' => Up \/ ~Alive) /\ (Alive => Alive') /\ (file' = Vanish => Alive')
    BY <1>1, DaemonAssumption
    DEF Start, Bind, Leave, Cs!Start, Cs!Serve, Cs!Remove, Cs!Bind, Cs!Leave, Cs!TypeOK,
        QInv, DownIsEmpty
  <2> QED
    BY <2>1, <2>2, Elsewhere
<1>2. CASE Term
  <2>1. /\ Ctl!Close({"queued"}) /\ chan' = <<>> /\ file' = file /\ main'[Vanish] = "leaving"
    BY <1>2 DEF Term, DropArbiter, Cs!Term, Cs!TypeOK
  <2> QED
    BY <2>1, Closing
<1>3. CASE Die
  <2>1. /\ Ctl!Close({"asked", "queued", "answer"}) /\ chan' = <<>> /\ main'[Vanish] = "down"
        /\ file' # Vanish
    BY <1>3, DaemonAssumption DEF Die, DropArbiter, Cs!Exit, Cs!Crash, Cs!Gone, Cs!TypeOK
  <2> QED
    BY <2>1, Closing
<1>4. CASE Ask
  BY <1>4, Asking DEF Ask, socket, QInv, DownIsEmpty
<1>5. ASSUME NEW c \in Client, Answering(c) PROVE QInv'
  BY <1>5, Submitting, Ending DEF Answering, socket
<1>6. CASE Receive
  BY <1>6, Taking DEF Receive, socket
<1>7. CASE Connect \/ Talk
  <2>1. UNCHANGED <<conn, chan, main, file>>
    BY <1>7 DEF Connect, Talk, Hook!Connect, Hook!ReadSome, Hook!ReadHead, socket
  <2> QED
    BY <2>1, Elsewhere DEF QInv, DownIsEmpty
<1>8. ASSUME NEW k \in Caller, Hooking(k) PROVE QInv'
  <2>1. UNCHANGED <<conn, main, file>>
    BY <1>8 DEF Hooking, socket
  <2>2. CASE Up /\ Hook!Send(k)
    <3>1. Len(chan) < ChannelCap /\ chan' = Append(chan, <<WebhookSource, "away">>)
      BY <2>2 DEF Hook!Send
    <3>2. <<WebhookSource, "away">> \in Message
      BY DEF Message
    <3>3. \A c \in Client : <<WebhookSource, "away">> # StatusOf(c)
      BY OnlyStatusIsStatus
    <3>4. Ctl!TypeOK'
      BY <2>1 DEF Ctl!TypeOK, QInv, QueueOK
    <3> QED
      BY <2>1, <2>2, <3>1, <3>2, <3>3, <3>4, Queueing
  <2>3. CASE ~(Up /\ Hook!Send(k))
    <3>1. UNCHANGED chan
      BY <1>8, <2>3 DEF Hooking, Hook!Serve, Hook!HeadTimesOut, Hook!ReadBody, Hook!Answer,
                        Hook!SendFails
    <3> QED
      BY <2>1, <3>1, Elsewhere DEF QInv, DownIsEmpty
  <2> QED
    BY <2>2, <2>3
<1>9. CASE Timer \/ Locked \/ Clock \/ Arbitrate(Unlock) \/ UNCHANGED daemonVars
  <2>1. UNCHANGED <<conn, chan, main, file>>
    BY <1>9 DEF Timer, Locked, Clock, Arbitrate, daemonVars, socket
  <2> QED
    BY <2>1, Elsewhere DEF QInv, DownIsEmpty
<1> QED
  BY <1>1, <1>2, <1>3, <1>4, <1>5, <1>6, <1>7, <1>8, <1>9 DEF DaemonNext

-----------------------------------------------------------------------------
\* The socket, the webhook and the arbiter keep their types, each by itself.
LEMMA SocketTypes == Cs!TypeOK /\ [DaemonNext]_daemonVars => Cs!TypeOK'
<1> SUFFICES ASSUME Cs!TypeOK, [DaemonNext]_daemonVars PROVE Cs!TypeOK'
  OBVIOUS
<1> USE DEF Cs!TypeOK
<1>1. CASE Start \/ Bind \/ Term \/ Leave \/ Die
  BY <1>1 DEF Start, Bind, Term, Leave, Die, Cs!Start, Cs!Serve, Cs!Remove, Cs!Bind, Cs!Term,
              Cs!Leave, Cs!Exit, Cs!Crash, Cs!Gone
<1>2. CASE ~(Start \/ Bind \/ Term \/ Leave \/ Die)
  <2>1. UNCHANGED socket
    BY <1>2 DEF DaemonNext, Ask, Connect, Talk, Answering, Hooking, Receive, Timer, Locked, Clock,
                Arbitrate, daemonVars
  <2> QED
    BY <2>1 DEF socket
<1> QED
  BY <1>1, <1>2

LEMMA HookTypes == Hook!TypeOK /\ [DaemonNext]_daemonVars => Hook!TypeOK'
<1> SUFFICES ASSUME Hook!TypeOK, [DaemonNext]_daemonVars PROVE Hook!TypeOK'
  OBVIOUS
<1> USE DEF Hook!TypeOK
<1>1. ASSUME NEW k \in Caller, NEW where \in {"closed", "open", "reading", "body", "answer", "send"},
             Hook!Goto(k, where)
      PROVE  Hook!TypeOK'
  BY <1>1 DEF Hook!Goto
<1>2. CASE Connect
  BY <1>1, <1>2 DEF Connect, Hook!Connect
<1>3. CASE Talk
  <2>1. PICK k \in Caller : Hook!ReadSome(k) \/ Hook!ReadHead(k)
    BY <1>3 DEF Talk
  <2>2. CASE Hook!ReadSome(k)
    BY <1>1, <2>2 DEF Hook!ReadSome
  <2>3. CASE Hook!ReadHead(k)
    <3>1. PICK h \in Heads :
            Hook!Goto(k, IF ~Hook!Validate(h) THEN "closed" ELSE IF h.body THEN "body" ELSE "answer")
      BY <2>3 DEF Hook!ReadHead
    <3> QED
      BY <1>1, <3>1
  <2> QED
    BY <2>1, <2>2, <2>3
<1>4. ASSUME NEW k \in Caller, Hooking(k) PROVE Hook!TypeOK'
  BY <1>1, <1>4 DEF Hooking, Hook!Serve, Hook!HeadTimesOut, Hook!ReadBody, Hook!Answer, Hook!Send,
                    Hook!SendFails
<1>5. CASE Die
  BY <1>5 DEF Die
<1>6. CASE ~(Connect \/ Talk \/ (\E k \in Caller : Hooking(k)) \/ Die)
  BY <1>6 DEF DaemonNext, Start, Bind, Term, Leave, Ask, Answering, Receive, Timer, Locked, Clock,
              Arbitrate, daemonVars
<1> QED
  BY <1>2, <1>3, <1>4, <1>5, <1>6

-----------------------------------------------------------------------------
(***************************************************************************)
(* The arbiter and its socket through starts, exits and crashes.           *)
(***************************************************************************)

\* A step of the daemon is one of Arbiter's, leaves the arbiter alone, or drops it.
LEMMA ArbiterStepOrDrop == [DaemonNext]_daemonVars => [Next]_arbVars \/ DropArbiter
<1> SUFFICES ASSUME [DaemonNext]_daemonVars PROVE [Next]_arbVars \/ DropArbiter
  OBVIOUS
<1>1. CASE Receive
  BY <1>1, DaemonAssumption, ArbiterAssumption DEF Receive, Handle, Status, Next
<1>2. CASE Timer \/ Locked \/ Clock \/ Arbitrate(Unlock)
  BY <1>2 DEF Timer, Locked, Clock, Arbitrate, Next
<1>3. CASE Term \/ Die
  BY <1>3 DEF Term, Die
<1>4. CASE ~(Receive \/ Timer \/ Locked \/ Clock \/ Arbitrate(Unlock) \/ Term \/ Die)
  BY <1>4 DEF DaemonNext, Start, Bind, Leave, Ask, Connect, Talk, Answering, Hooking, daemonVars
<1> QED
  BY <1>1, <1>2, <1>3, <1>4

\* An arbiter that is dropped leaves nothing that the next one could trip over,
\* except for what notchd shows.
LEMMA DroppedIsFresh == CoreInv /\ DropArbiter => CoreInv'
<1> SUFFICES ASSUME CoreInv, DropArbiter PROVE CoreInv'
  OBVIOUS
<1>1. TypeOK'
  <2>1. screen' \in {"open", "locked"}
    BY DEF DropArbiter, CoreInv, TypeOK
  <2> QED
    BY <2>1 DEF DropArbiter, CoreInv, TypeOK
<1>2. PausedMeansQuiet' /\ CountdownOutsideCooldown' /\ NoAbsenceStranded'
  BY DEF DropArbiter, PausedMeansQuiet, CountdownOutsideCooldown, NoAbsenceStranded, Paused
<1>3. OwnerIsAbsent' /\ BackMeansForgotten' /\ NoPulseAbsent'
  BY ArbiterAssumption DEF DropArbiter, OwnerIsAbsent, BackMeansForgotten, NoPulseAbsent
<1>4. CooldownHasLock' /\ LockingHasNoCountdown' /\ DisarmedMeansQuiet'
  BY DEF DropArbiter, CooldownHasLock, LockingHasNoCountdown, DisarmedMeansQuiet, Cooling
<1> QED
  BY <1>1, <1>2, <1>3, <1>4 DEF CoreInv

LEMMA ArbiterCore == CoreInv /\ [DaemonNext]_daemonVars => CoreInv'
  BY ArbiterStepOrDrop, CoreStepHolds, DroppedIsFresh

\* control::run removes whatever is at the path before it binds, so its own bind
\* does not fail as long as no second daemon comes in between, and main removes
\* the file only when it is done.
SocketInv ==
  /\ ctl[Vanish] # "deaf"
  /\ Alive => ctl[Vanish] # "none"
  /\ ctl[Vanish] = "bind" => file = "none"
  /\ Up /\ ctl[Vanish] = "serving" => file = Vanish

LEMMA SocketStep == Cs!TypeOK /\ SocketInv /\ [DaemonNext]_daemonVars => SocketInv'
<1> SUFFICES ASSUME Cs!TypeOK, SocketInv, [DaemonNext]_daemonVars PROVE SocketInv'
  OBVIOUS
<1> USE DaemonAssumption DEF Cs!TypeOK, SocketInv, Up, Alive
<1>1. CASE Start
  BY <1>1 DEF Start, Cs!Start
<1>2. CASE Bind
  BY <1>2 DEF Bind, Cs!Serve, Cs!Remove, Cs!Bind
<1>3. CASE Term \/ Leave
  BY <1>3 DEF Term, Leave, Cs!Term, Cs!Leave
<1>4. CASE Die
  BY <1>4 DEF Die, Cs!Exit, Cs!Crash, Cs!Gone
<1>5. CASE ~(Start \/ Bind \/ Term \/ Leave \/ Die)
  <2>1. UNCHANGED socket
    BY <1>5 DEF DaemonNext, Ask, Connect, Talk, Answering, Hooking, Receive, Timer, Locked, Clock,
                Arbitrate, daemonVars
  <2> QED
    BY <2>1 DEF socket
<1> QED
  BY <1>1, <1>2, <1>3, <1>4, <1>5

-----------------------------------------------------------------------------
\* The inductive invariant holds in every reachable state.
THEOREM DaemonInvariance == DaemonSpec => [](CoreInv /\ Cs!TypeOK /\ Hook!TypeOK /\ SocketInv /\ QInv)
<1>1. DaemonInit => CoreInv
  BY InitHolds DEF DaemonInit, IInv
<1>2. DaemonInit => Cs!TypeOK
  BY DEF DaemonInit, Cs!Init, Cs!TypeOK
<1>3. DaemonInit => Hook!TypeOK
  BY DEF DaemonInit, Hook!Init, Hook!TypeOK
<1>4. DaemonInit => SocketInv
  BY DEF DaemonInit, Cs!Init, SocketInv, Up, Alive
<1> QED
  BY <1>1, <1>2, <1>3, <1>4, InitQueue, QueueStep, SocketTypes, HookTypes, ArbiterCore, SocketStep,
     PTL DEF DaemonSpec

\* Every part of the daemon keeps its type and nobody overruns the channel,
\* through starts, exits and crashes.
THEOREM DaemonTypesHold == DaemonSpec => []DaemonTypeOK
<1>1. CoreInv /\ Cs!TypeOK /\ Hook!TypeOK /\ QInv => DaemonTypeOK
  BY DEF CoreInv, QInv, QueueOK, DaemonTypeOK
<1> QED
  BY <1>1, DaemonInvariance, PTL

\* A status is answered after everything that was queued before it was asked,
\* and so shows the pause or the lock that was acknowledged before.
THEOREM StatusIsCurrent == DaemonSpec => []StatusIsNotStale
<1>1. QInv => StatusIsNotStale
  BY DEF QInv
<1> QED
  BY <1>1, DaemonInvariance, PTL

\* The arbiter's own invariants survive a daemon that is stopped or killed at any
\* point, in the middle of a countdown or of a lock: a pause and a countdown start
\* afresh, and no absence is left that no timer will get to.
THEOREM RestartKeepsTheBooks ==
  DaemonSpec => [](/\ PausedMeansQuiet /\ CountdownOutsideCooldown
                   /\ OwnerIsAbsent /\ NoAbsenceStranded /\ BackMeansForgotten)
<1>1. CoreInv => /\ PausedMeansQuiet /\ CountdownOutsideCooldown
                 /\ OwnerIsAbsent /\ NoAbsenceStranded /\ BackMeansForgotten
  BY DEF CoreInv
<1> QED
  BY <1>1, DaemonInvariance, PTL

\* Behind the channel and through restarts only the user's own `vanish lock` locks
\* during a cooldown or a pause.
THEOREM OnlyTheUserLocksThen == DaemonSpec => OnlyUserLocksThen
<1>1. CoreInv /\ [DaemonNext]_daemonVars =>
        [arb = "select" /\ arb' = "locking" /\ (Cooling \/ Paused) => LockNow]_arbVars
  <2>1. DropArbiter => arb' = "select"
    BY DEF DropArbiter
  <2> QED
    BY <2>1, ArbiterStepOrDrop, GuardedStep
<1> QED
  BY <1>1, DaemonInvariance, PTL DEF DaemonSpec, OnlyUserLocksThen

\* A daemon that is up and has bound its socket is the one the clients reach,
\* whatever the last one left behind.
THEOREM BoundIsReachable == DaemonSpec => [](Up /\ ctl[Vanish] = "serving" => file = Vanish)
<1>1. SocketInv => (Up /\ ctl[Vanish] = "serving" => file = Vanish)
  BY DEF SocketInv
<1> QED
  BY <1>1, DaemonInvariance, PTL
=============================================================================
