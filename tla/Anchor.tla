------------------------------- MODULE Anchor -------------------------------
(***************************************************************************)
(* The kill stick of src/src/triggers/anchor.rs: two detector threads that *)
(* share one `present` flag and report its edges to the arbiter.           *)
(*                                                                         *)
(*   - "uevent" reads the kernel's broadcasts, "poll" scans sysfs;         *)
(*   - the Mutex makes each access to State one step, and nothing more: a  *)
(*     thread can be overtaken between its find(), its write of devpath,   *)
(*     its update() and, because update() drops the guard first            *)
(*     (anchor.rs:163), its send.                                          *)
(*                                                                         *)
(* The kernel is external: it fills sysfs and broadcasts what happens, and *)
(* a device's interfaces broadcast events of their own with the device's   *)
(* PRODUCT (main.rs:181).  The scan of sysfs is one step.  The poll's      *)
(* interval is left open: it may come round at any time.                   *)
(***************************************************************************)
EXTENDS Integers, Sequences

CONSTANTS
  AnchorSource, \* Source::Anchor
  Device,       \* what can be plugged in
  Model,        \* the devices with the vendor_id and product_id of the config
  Wanted,       \* those find() accepts: with `serial` set, only that one
  Port,         \* USB ports; a port is also the devpath of what is in it
  NoDevice, NoPort,
  SocketOpens,  \* may UeventSocket::open succeed, may it fail: subset of BOOLEAN
  InterfaceActions, \* what the interfaces of a device may broadcast: subset of
                    \* {"add", "remove"}
  QueueCap,     \* events the uevent socket can hold (its SO_RCVBUF)
  ChannelCap,   \* capacity of the arbiter's channel
  MaxMoves      \* bound of the model: how often the kernel does something

ASSUME AnchorAssumption ==
  /\ Wanted \subseteq Model /\ Model \subseteq Device
  /\ NoDevice \notin Device /\ NoPort \notin Port
  /\ SocketOpens \subseteq BOOLEAN /\ InterfaceActions \subseteq {"add", "remove"}
  /\ QueueCap \in Nat \ {0} /\ ChannelCap \in Nat \ {0} /\ MaxMoves \in Nat

Thread == {"uevent", "poll"}

VARIABLES
  sysfs,        \* /sys/bus/usb/devices: what is in each port
  uevents,      \* datagrams waiting in the socket
  present,      \* State.present
  devpath,      \* State.devpath
  pc,           \* where each thread is
  found,        \* what the thread's find() returned; NoPort when it has nothing
  chan,         \* the signals on their way to the arbiter
  believed,     \* what the arbiter was told last; "none" before it was told anything
  moves,        \* how often the kernel has acted
  pulls,        \* history: how often a wanted device was pulled
  heard,        \* history: was any event taken for the anchor's?
  tally         \* history: edges sent; a presence at startup counts as a "back"

kernel == <<sysfs, uevents, moves, pulls, heard>>
State == <<present, devpath>>
link == <<chan, believed, tally>>
detectors == <<kernel, State, pc, found, tally>>  \* this side of the channel
anchorVars == <<kernel, State, pc, found, link>>

Edge == {"away", "back"}
Uevent == [action : {"add", "remove"}, port : Port, dev : Device, interface : BOOLEAN]

DetectorTypes ==
  /\ sysfs \in [Port -> Device \union {NoDevice}]
  /\ uevents \in Seq(Uevent) /\ Len(uevents) <= QueueCap
  /\ present \in BOOLEAN /\ devpath \in Port \union {NoPort}
  /\ pc \in [Thread -> {"open", "idle", "find", "setpath", "update", "send", "done"}]
  /\ found \in [Thread -> Port \union {NoPort}]
  /\ moves \in 0..MaxMoves /\ pulls \in 0..MaxMoves /\ heard \in BOOLEAN
  /\ tally \in [Edge -> Nat]

AnchorTypeOK ==
  /\ DetectorTypes
  /\ chan \in Seq({AnchorSource} \X Edge) /\ Len(chan) <= ChannelCap
  /\ believed \in Edge \union {"none"}

-----------------------------------------------------------------------------
\* Where the scan of sysfs would find a device it accepts.
Matching == {p \in Port : sysfs[p] \in Wanted}
AnchorIn == Matching # {}

\* Mutant of Find: the scan gives up at the first device that is not the anchor.
FindGivesUp(p) ==
  \/ p \in Matching
  \/ p = NoPort /\ \E q \in Port : sysfs[q] \notin Wanted

\* What find() may return: read_dir lists the devices in any order.
Find(p) == IF Matching = {} THEN p = NoPort ELSE p \in Matching

\* spawn(): look once, then start the threads.  What has been pulled since is
\* the poll's to find.
AnchorInit ==
  /\ sysfs \in {f \in [Port -> Device \union {NoDevice}] :
                  \A p, q \in Port : f[p] = f[q] /\ f[p] # NoDevice => p = q}
  /\ uevents = <<>>
  /\ Find(devpath) /\ present = (devpath # NoPort)
  /\ pc = [t \in Thread |-> IF t = "uevent" THEN "open" ELSE "idle"]
  /\ found = [t \in Thread |-> NoPort]
  /\ chan = <<>>
  /\ believed = IF present THEN "back" ELSE "none"
  /\ moves = 0 /\ pulls = 0 /\ heard = FALSE
  /\ tally = [e \in Edge |-> IF e = "back" /\ present THEN 1 ELSE 0]

-----------------------------------------------------------------------------
\* The kernel.

\* A datagram reaches the socket if it is open and has room.
Broadcast(e) ==
  uevents' = IF pc["uevent"] \in {"open", "done"} \/ Len(uevents) = QueueCap
               THEN uevents ELSE Append(uevents, e)

Plug(p, d) ==
  /\ moves < MaxMoves /\ moves' = moves + 1
  /\ sysfs[p] = NoDevice /\ \A q \in Port : sysfs[q] # d
  /\ sysfs' = [sysfs EXCEPT ![p] = d]
  /\ Broadcast([action |-> "add", port |-> p, dev |-> d, interface |-> FALSE])
  /\ UNCHANGED <<pulls, heard, State, pc, found, link>>

\* sysfs is gone by the time the event is out.
Pull(p) ==
  /\ moves < MaxMoves /\ moves' = moves + 1
  /\ sysfs[p] # NoDevice
  /\ sysfs' = [sysfs EXCEPT ![p] = NoDevice]
  /\ pulls' = IF sysfs[p] \in Wanted THEN pulls + 1 ELSE pulls
  /\ Broadcast([action |-> "remove", port |-> p, dev |-> sysfs[p], interface |-> FALSE])
  /\ UNCHANGED <<heard, State, pc, found, link>>

\* An interface comes or goes; the device stays.
InterfaceEvent(p) ==
  /\ moves < MaxMoves /\ moves' = moves + 1
  /\ sysfs[p] # NoDevice
  /\ \E a \in InterfaceActions :
       Broadcast([action |-> a, port |-> p, dev |-> sysfs[p], interface |-> TRUE])
  /\ UNCHANGED <<sysfs, pulls, heard, State, pc, found, link>>

-----------------------------------------------------------------------------
\* The threads.

Goto(t, where) == pc' = [pc EXCEPT ![t] = where]

\* The uevent thread opens its socket, or leaves the work to the poll.
OpenSocket ==
  /\ pc["uevent"] = "open"
  /\ \E ok \in SocketOpens : Goto("uevent", IF ok THEN "idle" ELSE "done")
  /\ UNCHANGED <<kernel, State, found, link>>

\* recv() fails: the thread ends, and so does its socket.
SocketDies ==
  /\ pc["uevent"] = "idle"
  /\ Goto("uevent", "done")
  /\ uevents' = <<>>
  /\ UNCHANGED <<sysfs, moves, pulls, heard, State, found, link>>

\* Is the event about the anchor?  By devpath or by PRODUCT.
MatchesUs(e) == (~e.interface /\ e.port = devpath) \/ e.dev \in Model

\* recv(): a removal is taken at its word, an arrival is looked up in sysfs.
Recv ==
  /\ pc["uevent"] = "idle" /\ uevents # <<>>
  /\ uevents' = Tail(uevents)
  /\ LET e == Head(uevents) IN
       /\ heard' = (heard \/ MatchesUs(e))
       /\ IF ~MatchesUs(e) THEN UNCHANGED pc
          ELSE Goto("uevent", IF e.action = "remove" THEN "update" ELSE "find")
  /\ found' = [found EXCEPT !["uevent"] = NoPort]
  /\ UNCHANGED <<sysfs, moves, pulls, State, link>>

\* Mutant of LookUp: the event is trusted, although it carries no serial.
LookUpTrusts ==
  /\ pc["uevent"] = "find"
  /\ \E p \in Port : found' = [found EXCEPT !["uevent"] = p]
  /\ Goto("uevent", "setpath")
  /\ UNCHANGED <<kernel, State, link>>

\* After an arrival: nothing in sysfs is nothing to report.
LookUp ==
  /\ pc["uevent"] = "find"
  /\ \E p \in Port \union {NoPort} :
       /\ Find(p)
       /\ found' = [found EXCEPT !["uevent"] = p]
       /\ Goto("uevent", IF p = NoPort THEN "idle" ELSE "setpath")
  /\ UNCHANGED <<kernel, State, link>>

\* Mutant of Poll: it only looks for arrivals.
PollForArrivals ==
  /\ pc["poll"] = "idle"
  /\ \E p \in Port \union {NoPort} :
       /\ Find(p)
       /\ found' = [found EXCEPT !["poll"] = p]
       /\ Goto("poll", IF p = NoPort THEN "idle" ELSE "setpath")
  /\ UNCHANGED <<kernel, State, link>>

\* The poll: what is not in sysfs is gone.
Poll ==
  /\ pc["poll"] = "idle"
  /\ \E p \in Port \union {NoPort} :
       /\ Find(p)
       /\ found' = [found EXCEPT !["poll"] = p]
       /\ Goto("poll", IF p = NoPort THEN "update" ELSE "setpath")
  /\ UNCHANGED <<kernel, State, link>>

\* state.lock().unwrap().devpath = Some(p)
SetPath(t) ==
  /\ pc[t] = "setpath"
  /\ devpath' = found[t]
  /\ Goto(t, "update")
  /\ UNCHANGED <<kernel, present, found, link>>

\* Mutants of Update: one reports without comparing, one leaves the devpath of
\* the device that is gone.
UpdateReportsLevels(t) ==
  /\ pc[t] = "update"
  /\ present' = (found[t] # NoPort)
  /\ devpath' = IF present' THEN devpath ELSE NoPort
  /\ Goto(t, "send")
  /\ UNCHANGED <<kernel, found, link>>

UpdateKeepsDevpath(t) ==
  /\ pc[t] = "update"
  /\ present' = (found[t] # NoPort)
  /\ Goto(t, IF present' = present THEN "idle" ELSE "send")
  /\ UNCHANGED <<kernel, devpath, found, link>>

\* update(): change the flag, and only an edge is news.
Update(t) ==
  /\ pc[t] = "update"
  /\ present' = (found[t] # NoPort)
  /\ devpath' = IF present /\ ~present' THEN NoPort ELSE devpath
  /\ Goto(t, IF present' = present THEN "idle" ELSE "send")
  /\ UNCHANGED <<kernel, found, link>>

\* The edge a thread has in hand.
Report(t) == IF found[t] = NoPort THEN "away" ELSE "back"

\* Mutants of Send: one ignores the capacity of the channel, one drops the
\* signal when it is full.
SendWithoutWaiting(t) ==
  /\ pc[t] = "send"
  /\ chan' = Append(chan, <<AnchorSource, Report(t)>>)
  /\ tally' = [tally EXCEPT ![Report(t)] = @ + 1]
  /\ Goto(t, "idle")
  /\ UNCHANGED <<kernel, State, found, believed>>

SendOrDrop(t) ==
  /\ pc[t] = "send"
  /\ IF Len(chan) < ChannelCap
       THEN chan' = Append(chan, <<AnchorSource, Report(t)>>) /\ tally' = [tally EXCEPT ![Report(t)] = @ + 1]
       ELSE UNCHANGED <<chan, tally>>
  /\ Goto(t, "idle")
  /\ UNCHANGED <<kernel, State, found, believed>>

\* Report the edge, after the guard has been dropped; blocks while the channel
\* is full.
Send(t) ==
  /\ pc[t] = "send" /\ Len(chan) < ChannelCap
  /\ chan' = Append(chan, <<AnchorSource, Report(t)>>)
  /\ tally' = [tally EXCEPT ![Report(t)] = @ + 1]
  /\ Goto(t, "idle")
  /\ UNCHANGED <<kernel, State, found, believed>>

\* The arbiter takes the next signal.
Deliver ==
  /\ chan # <<>>
  /\ believed' = Head(chan)[2] /\ chan' = Tail(chan)
  /\ UNCHANGED <<kernel, State, pc, found, tally>>

ThreadStep(t) == SetPath(t) \/ Update(t) \/ Send(t)

\* What happens on this side of the channel.
Watch ==
  \/ \E p \in Port : Pull(p) \/ InterfaceEvent(p) \/ \E d \in Device : Plug(p, d)
  \/ OpenSocket \/ SocketDies \/ Recv \/ LookUp \/ Poll
  \/ \E t \in Thread : ThreadStep(t)

AnchorNext == Watch \/ Deliver

AnchorSpec == AnchorInit /\ [][AnchorNext]_anchorVars

\* Every thread that can go on does; the arbiter keeps reading.
FairAnchorSpec ==
  /\ AnchorSpec
  /\ WF_anchorVars(Poll) /\ WF_anchorVars(OpenSocket \/ Recv \/ LookUp)
  /\ \A t \in Thread : WF_anchorVars(ThreadStep(t))
  /\ WF_anchorVars(Deliver)

-----------------------------------------------------------------------------
(***************************************************************************)
(* Properties.                                                             *)
(***************************************************************************)

\* No edge of the flag is lost or reported twice, whatever the two threads do
\* in between: what was sent and what is in a thread's hands add up to the flag.
Holds(t, e) == IF pc[t] = "send" /\ Report(t) = e THEN 1 ELSE 0
InHand(e) == Holds("uevent", e) + Holds("poll", e)
EdgesAddUp ==
  (tally["back"] + InHand("back")) - (tally["away"] + InHand("away")) = IF present THEN 1 ELSE 0

\* A devpath outlives the presence it belongs to only while the thread that
\* wrote it is about to say that the anchor is back (anchor.rs:100-101, 133-134).
StaleDevpathIsPassing ==
  ~present /\ devpath # NoPort => \E t \in Thread : pc[t] = "update" /\ found[t] # NoPort

\* Startup with the anchor absent does not fire (anchor.rs:17): of an anchor that
\* is out at startup and stays out the arbiter hears nothing, whatever a twin does
\* and whatever its interfaces broadcast.  Once it has been in, the first word may
\* be "away": one thread can overtake the other's "back".
AbsentStaysSilent == []~AnchorIn => [](\A e \in Edge : tally[e] = 0)

\* The poll makes up for every event that was lost, came late or came twice:
\* once nobody touches the ports the flag ends up right.
FlagSettles == <>[](present = AnchorIn)

\* As long as the poll is the only one to act, what was sent last is what the
\* flag says.
Latest == IF chan = <<>> THEN believed ELSE chan[Len(chan)][2]
LatestSignalIsRight ==
  ~heard /\ pc["poll"] # "send" => Latest \in IF present THEN {"back"} ELSE {"away", "none"}

\* "Whichever notices first wins and the other one finds nothing left to
\* report" (anchor.rs:14), as far as it is true: one pull is reported once at
\* most while the poll is the only one to act.
OnePullOneReport == ~heard => tally["away"] <= pulls

\* In the end the arbiter believes what is true: whenever both threads feed one
\* flag, says anchor.rs:14, and at least when only the poll has ever acted, as
\* with a socket that never opens.
ArbiterHearsInTheEnd ==
  <>[](believed \in IF AnchorIn THEN {"back"} ELSE {"away", "none"})
PollAloneSuffices == []~heard => ArbiterHearsInTheEnd

\* With `serial` set the anchor can be pinned "to one physical device when you
\* own two of the same model" (config.rs:51): one that was never pulled is not
\* given up.  The poll, which looks at the serial, never does.
UntouchedAnchorIsPresent == [][present /\ pulls = 0 => present']_anchorVars
PollKeepsUntouchedAnchor == [][present /\ pulls = 0 /\ ~heard' => present']_anchorVars
=============================================================================
