---------------------------- MODULE AnchorProofs ----------------------------
(***************************************************************************)
(* What Anchor's runs check with two ports and three devices, for any      *)
(* number of them, and for queues of any size.                             *)
(***************************************************************************)
EXTENDS Anchor, SequenceTheorems, TLAPS

\* The parts of the invariant that no run checks by themselves.
\* A pull is one of the kernel's moves.
PullsAreMoves == pulls <= moves
\* A thread writes a devpath only when its scan has found one.
SetPathHasPort == \A t \in Thread : pc[t] = "setpath" => found[t] # NoPort
\* Until an event is taken for the anchor's the uevent thread waits.
PollIsAlone == ~heard => pc["uevent"] \in {"open", "idle", "done"}
\* Until then a report the poll has in hand is what the flag says.
PollReportsFlag ==
  ~heard /\ pc["poll"] = "send" => (Report("poll") = "back" <=> present)
\* Until then every departure that was reported, or will be, has a pull of its
\* own.  One will be when the flag is up, or the poll is about to raise it, and
\* the anchor is out, or was when the poll looked.
FlagRises == pc["poll"] \in {"setpath", "update"} /\ found["poll"] # NoPort
SeenOut == pc["poll"] = "update" /\ found["poll"] = NoPort
Due == IF (present \/ FlagRises) /\ (~AnchorIn \/ SeenOut) THEN 1 ELSE 0
DeparturesHavePulls == ~heard => tally["away"] + Holds("poll", "away") + Due <= pulls

\* The inductive invariant of the two threads and the flag they share, whoever
\* else sends into the channel; and with it that of the anchor alone.
DetectorInv ==
  /\ DetectorTypes
  /\ EdgesAddUp
  /\ StaleDevpathIsPassing
  /\ PullsAreMoves
  /\ SetPathHasPort
  /\ PollIsAlone
  /\ DeparturesHavePulls

AnchorInv ==
  /\ DetectorInv
  /\ AnchorTypeOK
  /\ LatestSignalIsRight
  /\ PollReportsFlag

-----------------------------------------------------------------------------
\* Where the scan of sysfs looks, and what it returns, is a port or nothing.
LEMMA FindReturnsPort ==
  ASSUME NEW p, Find(p) PROVE p \in Port \union {NoPort} /\ (p = NoPort <=> ~AnchorIn)
  BY AnchorAssumption DEF Find, Matching, AnchorIn

\* A datagram is taken or dropped, never squeezed in.
LEMMA BroadcastKeepsQueue ==
  ASSUME NEW e \in Uevent, DetectorTypes, Broadcast(e)
  PROVE  uevents' \in Seq(Uevent) /\ Len(uevents') <= QueueCap
<1>1. QueueCap \in Nat /\ uevents \in Seq(Uevent) /\ Len(uevents) \in Nat /\ Len(uevents) <= QueueCap
  BY AnchorAssumption DEF DetectorTypes
<1>2. CASE uevents' = uevents
  BY <1>1, <1>2
<1>3. CASE uevents' = Append(uevents, e) /\ Len(uevents) # QueueCap
  BY <1>1, <1>3
<1> QED
  BY <1>2, <1>3 DEF Broadcast

\* The types, and the bound on pulls that they need.
LEMMA TypeStep ==
  DetectorTypes /\ PullsAreMoves /\ [Watch]_detectors => DetectorTypes' /\ PullsAreMoves'
<1> SUFFICES ASSUME DetectorTypes, PullsAreMoves, [Watch]_detectors
             PROVE  DetectorTypes' /\ PullsAreMoves'
  OBVIOUS
<1> USE AnchorAssumption DEF DetectorTypes, PullsAreMoves, kernel, State, link
<1>1. CASE UNCHANGED detectors
  BY <1>1 DEF detectors
<1>2. ASSUME NEW p \in Port, NEW d \in Device, Plug(p, d) PROVE DetectorTypes' /\ PullsAreMoves'
  <2>1. [action |-> "add", port |-> p, dev |-> d, interface |-> FALSE] \in Uevent
    BY DEF Uevent
  <2>2. uevents' \in Seq(Uevent) /\ Len(uevents') <= QueueCap
    BY <1>2, <2>1, BroadcastKeepsQueue DEF Plug
  <2> QED
    BY <1>2, <2>2 DEF Plug
<1>3. ASSUME NEW p \in Port, Pull(p) PROVE DetectorTypes' /\ PullsAreMoves'
  <2>1. [action |-> "remove", port |-> p, dev |-> sysfs[p], interface |-> FALSE] \in Uevent
    BY <1>3 DEF Uevent, Pull
  <2>2. uevents' \in Seq(Uevent) /\ Len(uevents') <= QueueCap
    BY <1>3, <2>1, BroadcastKeepsQueue DEF Pull
  <2> QED
    BY <1>3, <2>2 DEF Pull
<1>4. ASSUME NEW p \in Port, InterfaceEvent(p) PROVE DetectorTypes' /\ PullsAreMoves'
  <2>1. PICK a \in InterfaceActions :
          Broadcast([action |-> a, port |-> p, dev |-> sysfs[p], interface |-> TRUE])
    BY <1>4 DEF InterfaceEvent
  <2>2. [action |-> a, port |-> p, dev |-> sysfs[p], interface |-> TRUE] \in Uevent
    BY <1>4 DEF Uevent, InterfaceEvent
  <2>3. uevents' \in Seq(Uevent) /\ Len(uevents') <= QueueCap
    BY <2>1, <2>2, BroadcastKeepsQueue
  <2> QED
    BY <1>4, <2>3 DEF InterfaceEvent
<1>5. CASE OpenSocket
  BY <1>5 DEF OpenSocket, Goto, Thread
<1>6. CASE SocketDies
  BY <1>6 DEF SocketDies, Goto, Thread
<1>7. CASE Recv
  <2>1. uevents' \in Seq(Uevent) /\ Len(uevents') <= QueueCap
    BY <1>7 DEF Recv
  <2>2. heard' \in BOOLEAN
    <3>1. heard' = (heard \/ MatchesUs(Head(uevents)))
      BY <1>7 DEF Recv
    <3> QED
      BY <3>1, Zenon
  <2>3. pc' = pc \/ (\E w \in {"update", "find"} : Goto("uevent", w))
    BY <1>7 DEF Recv
  <2>4. pc' \in [Thread -> {"open", "idle", "find", "setpath", "update", "send", "done"}]
    BY <2>3 DEF Goto, Thread
  <2> QED
    BY <1>7, <2>1, <2>2, <2>4 DEF Recv
<1>8. CASE LookUp \/ Poll
  BY <1>8, FindReturnsPort DEF LookUp, Poll, Goto, Thread
<1>9. ASSUME NEW t \in Thread, SetPath(t) PROVE DetectorTypes' /\ PullsAreMoves'
  BY <1>9 DEF SetPath, Goto
<1>10. ASSUME NEW t \in Thread, Update(t) PROVE DetectorTypes' /\ PullsAreMoves'
  BY <1>10 DEF Update, Goto
<1>11. ASSUME NEW t \in Thread, Send(t) PROVE DetectorTypes' /\ PullsAreMoves'
  <2>1. Report(t) \in Edge
    BY DEF Report, Edge
  <2> QED
    BY <1>11, <2>1 DEF Send, Goto
<1> QED
  BY <1>1, <1>2, <1>3, <1>4, <1>5, <1>6, <1>7, <1>8, <1>9, <1>10, <1>11
  DEF Watch, ThreadStep

\* A step of the anchor is one of its detectors', or leaves them alone.
LEMMA DetectorsStep == [AnchorNext]_anchorVars => [Watch]_detectors
  BY DEF AnchorNext, anchorVars, detectors, link, Deliver

\* The channel of the anchor alone: only its signals are in it.
LEMMA ChannelStep ==
  ASSUME AnchorTypeOK, [AnchorNext]_anchorVars, DetectorTypes' PROVE AnchorTypeOK'
<1> USE AnchorAssumption DEF AnchorTypeOK
<1>1. CASE UNCHANGED <<chan, believed>>
  BY <1>1
<1>2. ASSUME NEW t \in Thread, Send(t) PROVE AnchorTypeOK'
  <2>1. Report(t) \in Edge /\ <<AnchorSource, Report(t)>> \in {AnchorSource} \X Edge
    BY DEF Report, Edge
  <2>2. chan' \in Seq({AnchorSource} \X Edge) /\ Len(chan') <= ChannelCap
    BY <1>2, <2>1 DEF Send
  <2> QED
    BY <1>2, <2>2 DEF Send
<1>3. CASE Deliver
  <2>1. Head(chan) \in {AnchorSource} \X Edge
    BY <1>3 DEF Deliver
  <2>2. chan' \in Seq({AnchorSource} \X Edge) /\ Len(chan') <= ChannelCap
    BY <1>3 DEF Deliver
  <2> QED
    BY <1>3, <2>1, <2>2 DEF Deliver
<1> QED
  BY <1>1, <1>2, <1>3
  DEF AnchorNext, Watch, ThreadStep, anchorVars, link, Pull, InterfaceEvent, Plug, OpenSocket,
      SocketDies, Recv, LookUp, Poll, SetPath, Update

-----------------------------------------------------------------------------
\* After a send the last signal is the one sent; the arbiter's taking of the
\* first one does not change the last.
LEMMA SentIsLatest ==
  ASSUME AnchorTypeOK, NEW t \in Thread, Send(t) PROVE Latest' = Report(t)
<1>1. chan \in Seq({AnchorSource} \X Edge) /\ chan' = Append(chan, <<AnchorSource, Report(t)>>)
  BY DEF AnchorTypeOK, Send
<1>2. chan' # <<>> /\ chan'[Len(chan')] = <<AnchorSource, Report(t)>>
  BY <1>1
<1> QED
  BY <1>2 DEF Latest

LEMMA ReceivedIsNotLost == ASSUME AnchorTypeOK, Deliver PROVE Latest' = Latest
<1>1. /\ chan \in Seq({AnchorSource} \X Edge) /\ chan # <<>> /\ chan' = Tail(chan)
      /\ believed' = Head(chan)[2]
  BY DEF AnchorTypeOK, Deliver
<1>2. Len(chan) \in Nat \ {0} /\ Len(Tail(chan)) = Len(chan) - 1 /\ Tail(chan) \in Seq({AnchorSource} \X Edge)
      /\ \A i \in 1..Len(Tail(chan)) : Tail(chan)[i] = chan[i + 1]
  BY <1>1, HeadTailProperties, EmptySeq
<1>3. CASE Len(chan) = 1
  <2>1. chan' = <<>> /\ Head(chan) = chan[Len(chan)]
    BY <1>1, <1>3
  <2> QED
    BY <1>1, <2>1 DEF Latest
<1>4. CASE Len(chan) # 1
  <2>1. Len(chan') \in 1..Len(Tail(chan)) /\ Len(chan') + 1 = Len(chan)
    BY <1>1, <1>2, <1>4
  <2>2. chan'[Len(chan')] = chan[Len(chan)]
    BY <1>1, <1>2, <2>1
  <2>3. chan' # <<>>
    BY <2>1
  <2> QED
    BY <1>1, <2>2, <2>3 DEF Latest
<1> QED
  BY <1>3, <1>4

\* The daemon starts with nothing sent and a flag that its first scan set.
LEMMA AnchorInitHolds == AnchorInit => AnchorInv
<1> SUFFICES ASSUME AnchorInit PROVE AnchorInv
  OBVIOUS
<1> USE AnchorAssumption DEF AnchorInit
<1>1. devpath \in Port \union {NoPort} /\ (devpath = NoPort <=> ~AnchorIn) /\ (present <=> devpath # NoPort)
  BY FindReturnsPort
<1>2. AnchorTypeOK /\ PullsAreMoves
  <2>1. uevents \in Seq(Uevent) /\ Len(uevents) = 0 /\ chan \in Seq({AnchorSource} \X Edge) /\ Len(chan) = 0
    BY EmptySeq
  <2>2. pc \in [Thread -> {"open", "idle", "find", "setpath", "update", "send", "done"}]
    BY DEF Thread
  <2>3. tally \in [Edge -> Nat] /\ believed \in Edge \union {"none"}
    BY DEF Edge
  <2>4. present \in BOOLEAN /\ heard \in BOOLEAN
    BY <1>1
  <2> QED
    BY <1>1, <2>1, <2>2, <2>3, <2>4 DEF AnchorTypeOK, DetectorTypes, PullsAreMoves
<1>3. EdgesAddUp /\ PollReportsFlag /\ PollIsAlone /\ SetPathHasPort
  BY DEF EdgesAddUp, InHand, Holds, Edge, PollReportsFlag, PollIsAlone, SetPathHasPort, Thread
<1>4. StaleDevpathIsPassing /\ LatestSignalIsRight
  BY <1>1 DEF StaleDevpathIsPassing, LatestSignalIsRight, Latest
<1>5. DeparturesHavePulls
  BY <1>1 DEF DeparturesHavePulls, Holds, Due, FlagRises, SeenOut, Edge, Thread
<1> QED
  BY <1>2, <1>3, <1>4, <1>5 DEF AnchorInv, DetectorInv, AnchorTypeOK

\* What a thread holds is its own: only its own steps change it, and only those
\* into and out of a send.
Other(t) == IF t = "uevent" THEN "poll" ELSE "uevent"

LEMMA InHandIsTheSum ==
  ASSUME NEW t \in Thread, NEW e
  PROVE  /\ Other(t) \in Thread /\ Other(t) # t
         /\ Holds(t, e) \in Nat /\ InHand(e) = Holds(t, e) + Holds(Other(t), e)
         /\ Holds(t, e)' \in Nat /\ InHand(e)' = Holds(t, e)' + Holds(Other(t), e)'
  BY DEF InHand, Holds, Other, Thread

LEMMA OthersHold ==
  ASSUME DetectorTypes, NEW t \in Thread, NEW w, Goto(t, w),
         \A u \in Thread : u # t => found'[u] = found[u], NEW e
  PROVE  Holds(Other(t), e)' = Holds(Other(t), e)
<1>1. Other(t) \in Thread /\ Other(t) # t
  BY DEF Other, Thread
<1> QED
  BY <1>1 DEF Holds, Report, Goto, DetectorTypes

\* A step that is not into or out of a send, and leaves the flag, is none of
\* the books' business.
LEMMA QuietStep ==
  ASSUME DetectorTypes, EdgesAddUp, NEW t \in Thread, NEW w, Goto(t, w), pc[t] # "send", w # "send",
         \A u \in Thread : u # t => found'[u] = found[u], UNCHANGED <<present, tally>>
  PROVE  EdgesAddUp'
<1>1. \A e : Holds(t, e)' = Holds(t, e)
  BY DEF Holds, Goto, DetectorTypes
<1>2. \A e : InHand(e)' = InHand(e)
  BY <1>1, InHandIsTheSum, OthersHold
<1> QED
  BY <1>2 DEF EdgesAddUp

\* Each access to the flag keeps the books of its edges.
LEMMA EdgesStep == DetectorTypes /\ EdgesAddUp /\ [Watch]_detectors => EdgesAddUp'
<1> SUFFICES ASSUME DetectorTypes, EdgesAddUp, [Watch]_detectors PROVE EdgesAddUp'
  OBVIOUS
<1> USE DEF kernel, State, link
<1>1. ASSUME UNCHANGED <<pc, found, present, tally>> PROVE EdgesAddUp'
  BY <1>1 DEF EdgesAddUp, InHand, Holds, Report
<1>2. CASE UNCHANGED detectors
  BY <1>1, <1>2 DEF detectors
<1>3. CASE \E p \in Port : Pull(p) \/ InterfaceEvent(p) \/ \E d \in Device : Plug(p, d)
  BY <1>1, <1>3 DEF Pull, InterfaceEvent, Plug
<1>4. CASE OpenSocket \/ SocketDies
  <2>1. PICK w : w # "send" /\ Goto("uevent", w)
    BY <1>4 DEF OpenSocket, SocketDies
  <2>2. pc["uevent"] # "send" /\ UNCHANGED <<found, present, tally>>
    BY <1>4 DEF OpenSocket, SocketDies
  <2> QED
    BY <2>1, <2>2, QuietStep DEF Thread
<1>5. CASE Recv
  <2>1. PICK w : w # "send" /\ pc' = [pc EXCEPT !["uevent"] = w]
    <3>1. CASE UNCHANGED pc
      <4>1. pc' = [pc EXCEPT !["uevent"] = "idle"]
        BY <1>5, <3>1 DEF Recv, DetectorTypes
      <4> QED
        BY <4>1
    <3> QED
      BY <1>5, <3>1 DEF Recv, Goto
  <2>2. /\ pc["uevent"] # "send" /\ UNCHANGED <<present, tally>>
        /\ \A u \in Thread : u # "uevent" => found'[u] = found[u]
    BY <1>5 DEF Recv, DetectorTypes
  <2> QED
    BY <2>1, <2>2, QuietStep DEF Thread, Goto
<1>6. CASE LookUp
  <2>1. PICK w : w # "send" /\ Goto("uevent", w)
    BY <1>6 DEF LookUp
  <2>2. /\ pc["uevent"] # "send" /\ UNCHANGED <<present, tally>>
        /\ \A u \in Thread : u # "uevent" => found'[u] = found[u]
    BY <1>6 DEF LookUp, DetectorTypes
  <2> QED
    BY <2>1, <2>2, QuietStep DEF Thread
<1>7. CASE Poll
  <2>1. PICK w : w # "send" /\ Goto("poll", w)
    BY <1>7 DEF Poll
  <2>2. /\ pc["poll"] # "send" /\ UNCHANGED <<present, tally>>
        /\ \A u \in Thread : u # "poll" => found'[u] = found[u]
    BY <1>7 DEF Poll, DetectorTypes
  <2> QED
    BY <2>1, <2>2, QuietStep DEF Thread
<1>8. ASSUME NEW t \in Thread, SetPath(t) PROVE EdgesAddUp'
  BY <1>8, QuietStep DEF SetPath
<1>9. ASSUME NEW t \in Thread, Update(t) PROVE EdgesAddUp'
  <2>1. CASE present' = present
    BY <1>9, <2>1, QuietStep DEF Update
  <2>2. CASE present' # present
    <3>1. /\ Goto(t, "send") /\ UNCHANGED <<found, tally>> /\ pc[t] = "update"
          /\ present' = (found[t] # NoPort) /\ present \in BOOLEAN
      BY <1>9, <2>2 DEF Update, DetectorTypes
    <3>2. /\ Holds(t, "back") = 0 /\ Holds(t, "away") = 0
          /\ Holds(t, "back")' = (IF present' THEN 1 ELSE 0)
          /\ Holds(t, "away")' = (IF present' THEN 0 ELSE 1)
      BY <3>1 DEF Holds, Report, Goto, DetectorTypes
    <3>3. \A e : Holds(Other(t), e)' = Holds(Other(t), e)
      BY <3>1, OthersHold
    <3>4. /\ InHand("back")' = InHand("back") + (IF present' THEN 1 ELSE 0)
          /\ InHand("away")' = InHand("away") + (IF present' THEN 0 ELSE 1)
          /\ InHand("back") \in Nat /\ InHand("away") \in Nat
      BY <3>2, <3>3, InHandIsTheSum
    <3>5. tally["back"] \in Nat /\ tally["away"] \in Nat
      BY DEF DetectorTypes, Edge
    <3>6. CASE present /\ ~present'
      BY <3>1, <3>4, <3>5, <3>6 DEF EdgesAddUp
    <3>7. CASE ~present /\ present'
      BY <3>1, <3>4, <3>5, <3>7 DEF EdgesAddUp
    <3> QED
      BY <2>2, <3>1, <3>6, <3>7
  <2> QED
    BY <2>1, <2>2
<1>10. ASSUME NEW t \in Thread, Send(t) PROVE EdgesAddUp'
  <2>1. /\ Goto(t, "idle") /\ UNCHANGED <<found, present>> /\ pc[t] = "send"
        /\ tally' = [tally EXCEPT ![Report(t)] = @ + 1]
    BY <1>10 DEF Send
  <2>2. \A e \in Edge : /\ Holds(t, e) = (IF Report(t) = e THEN 1 ELSE 0) /\ Holds(t, e)' = 0
                        /\ tally'[e] = tally[e] + Holds(t, e) /\ tally[e] \in Nat
    BY <2>1 DEF Holds, Goto, DetectorTypes, Edge
  <2>3. \A e : Holds(Other(t), e)' = Holds(Other(t), e)
    BY <2>1, OthersHold
  <2>4. ASSUME NEW e \in Edge PROVE tally'[e] + InHand(e)' = tally[e] + InHand(e)
    <3>1. /\ InHand(e) = Holds(t, e) + Holds(Other(t), e) /\ Holds(Other(t), e) \in Nat
          /\ InHand(e)' = Holds(t, e)' + Holds(Other(t), e)'
      BY InHandIsTheSum DEF Holds
    <3> QED
      BY <2>2, <2>3, <3>1
  <2> QED
    BY <2>1, <2>4 DEF EdgesAddUp, Edge
<1> QED
  BY <1>2, <1>3, <1>4, <1>5, <1>6, <1>7, <1>8, <1>9, <1>10 DEF Watch, ThreadStep

\* Who writes a devpath raises the flag next.
LEMMA DevpathStep ==
  DetectorTypes /\ SetPathHasPort /\ StaleDevpathIsPassing /\ [Watch]_detectors
    => SetPathHasPort' /\ StaleDevpathIsPassing'
<1> SUFFICES ASSUME DetectorTypes, SetPathHasPort, StaleDevpathIsPassing, [Watch]_detectors
             PROVE  SetPathHasPort' /\ StaleDevpathIsPassing'
  OBVIOUS
<1> USE DEF DetectorTypes, SetPathHasPort, StaleDevpathIsPassing, Thread, kernel, State, link
<1>1. CASE UNCHANGED detectors
  BY <1>1 DEF detectors
<1>2. CASE \E p \in Port : Pull(p) \/ InterfaceEvent(p) \/ \E d \in Device : Plug(p, d)
  <2>1. UNCHANGED <<present, devpath, pc, found>>
    BY <1>2 DEF Pull, InterfaceEvent, Plug
  <2> QED
    BY <2>1
<1>3. CASE OpenSocket \/ SocketDies \/ Recv
  BY <1>3 DEF OpenSocket, SocketDies, Recv, Goto
<1>4. CASE LookUp \/ Poll
  BY <1>4 DEF LookUp, Poll, Goto
<1>5. ASSUME NEW t \in Thread, SetPath(t) PROVE SetPathHasPort' /\ StaleDevpathIsPassing'
  BY <1>5 DEF SetPath, Goto
<1>6. ASSUME NEW t \in Thread, Update(t) PROVE SetPathHasPort' /\ StaleDevpathIsPassing'
  BY <1>6 DEF Update, Goto
<1>7. ASSUME NEW t \in Thread, Send(t) PROVE SetPathHasPort' /\ StaleDevpathIsPassing'
  BY <1>7 DEF Send, Goto
<1> QED
  BY <1>1, <1>2, <1>3, <1>4, <1>5, <1>6, <1>7 DEF Watch, ThreadStep

-----------------------------------------------------------------------------
\* The uevent thread leaves its wait for an event that is taken for the anchor's.
LEMMA AloneStep ==
  ASSUME DetectorTypes, PollIsAlone, [Watch]_detectors
  PROVE  /\ PollIsAlone'
         /\ ~heard' => ~heard /\ found'["poll"] \in Port \union {NoPort}
<1> USE DEF DetectorTypes, PollIsAlone, Thread, kernel, State, link
<1>1. CASE UNCHANGED detectors
  BY <1>1 DEF detectors
<1>2. CASE \E p \in Port : Pull(p) \/ InterfaceEvent(p) \/ \E d \in Device : Plug(p, d)
  <2>1. UNCHANGED <<heard, pc, found>>
    BY <1>2 DEF Pull, InterfaceEvent, Plug
  <2> QED
    BY <2>1
<1>3. CASE OpenSocket \/ SocketDies
  BY <1>3 DEF OpenSocket, SocketDies, Goto
<1>4. CASE Recv
  <2>1. CASE MatchesUs(Head(uevents))
    <3>1. heard' = TRUE
      BY <1>4, <2>1 DEF Recv
    <3> QED
      BY <3>1
  <2>2. CASE ~MatchesUs(Head(uevents))
    <3>1. heard' = (heard \/ FALSE) /\ UNCHANGED pc /\ found' = [found EXCEPT !["uevent"] = NoPort]
      BY <1>4, <2>2 DEF Recv
    <3> QED
      BY <3>1
  <2> QED
    BY <2>1, <2>2
<1>5. CASE LookUp
  BY <1>5 DEF LookUp, Goto
<1>6. CASE Poll
  BY <1>6, FindReturnsPort DEF Poll, Goto
<1>7. ASSUME NEW t \in Thread, SetPath(t) \/ Update(t) \/ Send(t)
      PROVE  PollIsAlone' /\ (~heard' => ~heard /\ found'["poll"] \in Port \union {NoPort})
  <2>1. UNCHANGED <<heard, found>> /\ pc[t] \in {"setpath", "update", "send"}
        /\ \E w : Goto(t, w)
    BY <1>7 DEF SetPath, Update, Send
  <2> QED
    BY <2>1 DEF Goto
<1> QED
  BY <1>1, <1>2, <1>3, <1>4, <1>5, <1>6, <1>7 DEF Watch, ThreadStep

\* While the poll is alone only its own steps touch the flag, what it found and
\* what it is doing.
PollStep == Poll \/ SetPath("poll") \/ Update("poll") \/ Send("poll")
LEMMA OnlyThePollActs ==
  ASSUME DetectorTypes, PollIsAlone, [Watch]_detectors, ~heard', ~PollStep
  PROVE  /\ UNCHANGED <<present, tally>>
         /\ pc'["poll"] = pc["poll"] /\ found'["poll"] = found["poll"]
<1>1. ~heard
  BY AloneStep
<1> USE <1>1 DEF PollIsAlone, Thread, kernel, State, link, PollStep
<1>2. CASE UNCHANGED detectors
  BY <1>2 DEF detectors
<1>3. CASE \E p \in Port : Pull(p) \/ InterfaceEvent(p) \/ \E d \in Device : Plug(p, d)
  BY <1>3 DEF Pull, InterfaceEvent, Plug
<1>4. CASE OpenSocket \/ SocketDies
  BY <1>4 DEF OpenSocket, SocketDies, Goto, DetectorTypes
<1>5. CASE Recv
  <2>1. UNCHANGED <<present, tally>> /\ found'["poll"] = found["poll"]
    BY <1>5 DEF Recv, DetectorTypes
  <2>2. pc'["poll"] = pc["poll"]
    BY <1>5 DEF Recv, Goto, DetectorTypes
  <2> QED
    BY <2>1, <2>2
<1>6. ~LookUp /\ \A t \in Thread : ThreadStep(t) => t = "poll"
  BY DEF LookUp, ThreadStep, SetPath, Update, Send
<1> QED
  BY <1>2, <1>3, <1>4, <1>5, <1>6 DEF Watch, ThreadStep

\* And nothing but its send adds to the channel.
LEMMA OnlyThePollSpeaks ==
  ASSUME AnchorTypeOK, PollIsAlone, [AnchorNext]_anchorVars, ~heard', ~PollStep
  PROVE  Latest' = Latest
<1>1. ~heard
  BY AloneStep, DetectorsStep DEF AnchorTypeOK
<1>2. ~LookUp /\ \A t \in Thread : ~ThreadStep(t)
  BY <1>1 DEF PollIsAlone, PollStep, Thread, LookUp, ThreadStep, SetPath, Update, Send
<1>3. CASE Deliver
  BY <1>3, ReceivedIsNotLost
<1>4. CASE ~Deliver
  <2>1. UNCHANGED <<chan, believed>>
    BY <1>2, <1>4
    DEF AnchorNext, Watch, anchorVars, link, PollStep, Pull, InterfaceEvent, Plug, OpenSocket,
        SocketDies, Recv
  <2> QED
    BY <2>1 DEF Latest
<1> QED
  BY <1>3, <1>4

\* What the poll says is what the flag says.
LEMMA LatestStep ==
  ASSUME AnchorTypeOK, PollIsAlone, PollReportsFlag, LatestSignalIsRight, [AnchorNext]_anchorVars
  PROVE  PollReportsFlag' /\ LatestSignalIsRight'
<1> SUFFICES ASSUME ~heard' PROVE PollReportsFlag' /\ LatestSignalIsRight'
  BY DEF PollReportsFlag, LatestSignalIsRight
<1>0. DetectorTypes /\ [Watch]_detectors
  BY DetectorsStep DEF AnchorTypeOK
<1>1. ~heard
  BY <1>0, AloneStep
<1> USE <1>1 DEF PollReportsFlag, LatestSignalIsRight, Report, Thread, kernel, State, link
<1>2. CASE ~PollStep
  BY <1>0, <1>2, OnlyThePollActs, OnlyThePollSpeaks
<1>3. CASE Poll \/ SetPath("poll")
  <2>1. pc["poll"] # "send" /\ pc'["poll"] # "send"
    BY <1>3 DEF Poll, SetPath, Goto, AnchorTypeOK, DetectorTypes
  <2>2. UNCHANGED <<present, chan, believed>>
    BY <1>3 DEF Poll, SetPath
  <2> QED
    BY <2>1, <2>2 DEF Latest
<1>4. CASE Update("poll")
  <2>1. /\ pc["poll"] = "update" /\ present' = (found["poll"] # NoPort)
        /\ UNCHANGED <<found, chan, believed>>
        /\ pc'["poll"] = (IF present' = present THEN "idle" ELSE "send")
    BY <1>4 DEF Update, Goto, AnchorTypeOK, DetectorTypes
  <2> QED
    BY <2>1 DEF Latest
<1>5. CASE Send("poll")
  <2>1. Latest' = Report("poll")
    BY <1>5, SentIsLatest
  <2>2. pc["poll"] = "send" /\ pc'["poll"] = "idle" /\ UNCHANGED present
    BY <1>5 DEF Send, Goto, AnchorTypeOK, DetectorTypes
  <2> QED
    BY <2>1, <2>2
<1> QED
  BY <1>2, <1>3, <1>4, <1>5 DEF PollStep

-----------------------------------------------------------------------------
\* What a pull and a plug do to the anchor's being in.
LEMMA PullCounts ==
  ASSUME DetectorTypes, NEW p \in Port, Pull(p)
  PROVE  \/ pulls' = pulls + 1
         \/ pulls' = pulls /\ Matching' = Matching
<1>1. CASE sysfs[p] \in Wanted
  BY <1>1 DEF Pull
<1>2. CASE sysfs[p] \notin Wanted
  <2>1. NoDevice \notin Wanted
    BY AnchorAssumption
  <2>2. pulls' = pulls /\ sysfs' = [sysfs EXCEPT ![p] = NoDevice]
    BY <1>2 DEF Pull
  <2>3. \A q \in Port : sysfs'[q] \in Wanted <=> sysfs[q] \in Wanted
    BY <1>2, <2>1, <2>2 DEF DetectorTypes
  <2> QED
    BY <2>2, <2>3 DEF Matching
<1> QED
  BY <1>1, <1>2

LEMMA PlugBringsIn ==
  ASSUME DetectorTypes, NEW p \in Port, NEW d \in Device, Plug(p, d)
  PROVE  pulls' = pulls /\ (AnchorIn => AnchorIn')
<1>1. /\ pulls' = pulls /\ sysfs[p] = NoDevice /\ sysfs' = [sysfs EXCEPT ![p] = d]
      /\ NoDevice \notin Wanted
  BY AnchorAssumption DEF Plug
<1>2. \A q \in Port : sysfs[q] \in Wanted => sysfs'[q] \in Wanted
  BY <1>1 DEF DetectorTypes
<1> QED
  BY <1>1, <1>2 DEF AnchorIn, Matching

\* While the poll is alone every departure has its pull: what is due falls by one
\* when the poll takes it in hand, and rises only with a pull.
LEMMA DeparturesStep ==
  ASSUME DetectorTypes, PollIsAlone, SetPathHasPort, DeparturesHavePulls, [Watch]_detectors
  PROVE  DeparturesHavePulls'
<1> SUFFICES ASSUME ~heard'
             PROVE  tally'["away"] + Holds("poll", "away")' + Due' <= pulls'
  BY DEF DeparturesHavePulls
<1>1. tally["away"] + Holds("poll", "away") + Due <= pulls
  BY AloneStep DEF DeparturesHavePulls
<1>2. /\ tally["away"] \in Nat /\ pulls \in Nat /\ "poll" \in Thread
      /\ Due \in {0, 1} /\ Due' \in {0, 1} /\ Holds("poll", "away") \in {0, 1}
  BY DEF DetectorTypes, Edge, Due, Holds, Thread
<1>3. CASE ~PollStep
  <2>1. /\ UNCHANGED <<present, tally>> /\ Holds("poll", "away")' = Holds("poll", "away")
        /\ (FlagRises' <=> FlagRises) /\ (SeenOut' <=> SeenOut)
    BY <1>3, OnlyThePollActs DEF Holds, Report, FlagRises, SeenOut
  <2>2. CASE \E p \in Port : Pull(p)
    <3>1. CASE pulls' = pulls + 1
      BY <1>1, <1>2, <2>1, <3>1
    <3>2. CASE pulls' = pulls /\ Matching' = Matching
      <4>1. Due' = Due
        BY <2>1, <3>2 DEF Due, AnchorIn
      <4> QED
        BY <1>1, <2>1, <3>2, <4>1
    <3> QED
      BY <2>2, <3>1, <3>2, PullCounts
  <2>3. CASE \E p \in Port, d \in Device : Plug(p, d)
    <3>1. pulls' = pulls /\ (AnchorIn => AnchorIn')
      BY <2>3, PlugBringsIn
    <3>2. Due' <= Due
      BY <2>1, <3>1 DEF Due
    <3> QED
      BY <1>1, <1>2, <2>1, <3>1, <3>2
  <2>4. CASE UNCHANGED <<sysfs, pulls>>
    <3>1. Due' = Due
      BY <2>1, <2>4 DEF Due, AnchorIn, Matching
    <3> QED
      BY <1>1, <2>1, <2>4, <3>1
  <2>5. ASSUME NEW t \in Thread, ThreadStep(t) PROVE UNCHANGED <<sysfs, pulls>>
    BY <2>5 DEF ThreadStep, SetPath, Update, Send, kernel
  <2> QED
    BY <1>3, <2>2, <2>3, <2>4, <2>5
    DEF Watch, detectors, kernel, InterfaceEvent, OpenSocket, SocketDies, Recv, LookUp, PollStep
<1>4. CASE Poll
  <2>1. PICK q : /\ Find(q) /\ found' = [found EXCEPT !["poll"] = q] /\ pc["poll"] = "idle"
                 /\ pc' = [pc EXCEPT !["poll"] = IF q = NoPort THEN "update" ELSE "setpath"]
                 /\ UNCHANGED <<sysfs, pulls, present, tally>>
    BY <1>4 DEF Poll, Goto, kernel, State, link
  <2>2. /\ q = NoPort <=> ~AnchorIn
        /\ AnchorIn' <=> AnchorIn
        /\ found'["poll"] = q /\ pc'["poll"] = (IF q = NoPort THEN "update" ELSE "setpath")
    BY <1>2, <2>1, FindReturnsPort DEF DetectorTypes, AnchorIn, Matching
  <2>3. Due' = Due /\ Holds("poll", "away")' = Holds("poll", "away")
    BY <2>1, <2>2 DEF Due, FlagRises, SeenOut, Holds
  <2> QED
    BY <1>1, <2>1, <2>3
<1>5. CASE SetPath("poll")
  <2>1. /\ pc["poll"] = "setpath" /\ pc'["poll"] = "update" /\ found["poll"] # NoPort
        /\ UNCHANGED <<sysfs, pulls, present, tally, found>>
    BY <1>2, <1>5 DEF SetPath, SetPathHasPort, Goto, DetectorTypes, kernel, link
  <2>2. Due' = Due /\ Holds("poll", "away")' = Holds("poll", "away")
    BY <2>1 DEF Due, FlagRises, SeenOut, Holds, AnchorIn, Matching
  <2> QED
    BY <1>1, <2>1, <2>2
<1>6. CASE Update("poll")
  <2>1. /\ pc["poll"] = "update" /\ present' = (found["poll"] # NoPort)
        /\ pc'["poll"] = (IF present' = present THEN "idle" ELSE "send")
        /\ UNCHANGED <<sysfs, pulls, tally, found>> /\ present \in BOOLEAN
    BY <1>2, <1>6 DEF Update, Goto, DetectorTypes, kernel, link
  <2>2. Holds("poll", "away") = 0 /\ (AnchorIn' <=> AnchorIn)
    BY <2>1 DEF Holds, AnchorIn, Matching
  <2>3. CASE found["poll"] # NoPort
    <3>1. Due' = Due /\ Holds("poll", "away")' = 0
      BY <2>1, <2>2, <2>3 DEF Due, FlagRises, SeenOut, Holds, Report
    <3> QED
      BY <1>1, <2>1, <2>2, <3>1
  <2>4. CASE found["poll"] = NoPort /\ present
    <3>1. Due = 1 /\ Due' = 0 /\ Holds("poll", "away")' \in {0, 1}
      BY <2>1, <2>4 DEF Due, FlagRises, SeenOut, Holds, Report
    <3> QED
      BY <1>1, <1>2, <2>1, <2>2, <3>1
  <2>5. CASE found["poll"] = NoPort /\ ~present
    <3>1. Due = 0 /\ Due' = 0 /\ Holds("poll", "away")' = 0
      BY <2>1, <2>5 DEF Due, FlagRises, SeenOut, Holds, Report
    <3> QED
      BY <1>1, <2>1, <2>2, <3>1
  <2> QED
    BY <2>1, <2>3, <2>4, <2>5
<1>7. CASE Send("poll")
  <2>1. /\ pc["poll"] = "send" /\ pc'["poll"] = "idle"
        /\ tally' = [tally EXCEPT ![Report("poll")] = @ + 1]
        /\ UNCHANGED <<sysfs, pulls, present, found>>
    BY <1>2, <1>7 DEF Send, Goto, DetectorTypes, kernel, State
  <2>2. Due' = Due
    BY <2>1 DEF Due, FlagRises, SeenOut, AnchorIn, Matching
  <2>3. tally'["away"] = tally["away"] + Holds("poll", "away") /\ Holds("poll", "away")' = 0
    BY <1>2, <2>1 DEF Holds, DetectorTypes, Edge
  <2> QED
    BY <1>1, <1>2, <2>1, <2>2, <2>3
<1> QED
  BY <1>3, <1>4, <1>5, <1>6, <1>7 DEF PollStep

-----------------------------------------------------------------------------
\* Every step of a detector preserves what they keep between them.
LEMMA DetectorStepHolds == DetectorInv /\ [Watch]_detectors => DetectorInv'
  BY TypeStep, EdgesStep, DevpathStep, AloneStep, DeparturesStep DEF DetectorInv

\* Every step preserves the invariant.
LEMMA AnchorStepHolds == AnchorInv /\ [AnchorNext]_anchorVars => AnchorInv'
<1> SUFFICES ASSUME AnchorInv, [AnchorNext]_anchorVars PROVE AnchorInv'
  OBVIOUS
<1>1. DetectorInv'
  BY DetectorsStep, DetectorStepHolds DEF AnchorInv
<1>2. AnchorTypeOK'
  BY <1>1, ChannelStep DEF AnchorInv, DetectorInv
<1>3. PollReportsFlag' /\ LatestSignalIsRight'
  BY LatestStep DEF AnchorInv, DetectorInv
<1> QED
  BY <1>1, <1>2, <1>3 DEF AnchorInv

\* The invariant holds in every reachable state.
THEOREM AnchorInvariance == AnchorSpec => []AnchorInv
  BY AnchorInitHolds, AnchorStepHolds, PTL DEF AnchorSpec

\* The state of both threads and their queues keep their types.
THEOREM AnchorTypeCorrect == AnchorSpec => []AnchorTypeOK
  BY AnchorInvariance, PTL DEF AnchorInv

\* No edge of the flag is lost or doubled between the two threads.
THEOREM BooksBalance == AnchorSpec => []EdgesAddUp
  BY AnchorInvariance, PTL DEF AnchorInv, DetectorInv

\* A devpath that has outlived its presence is about to be right again.
THEOREM DevpathIsTrue == AnchorSpec => []StaleDevpathIsPassing
  BY AnchorInvariance, PTL DEF AnchorInv, DetectorInv

\* A departure has its pull while the poll is alone.
LEMMA OneReportFollows == DetectorInv => OnePullOneReport
<1> SUFFICES ASSUME DetectorInv, ~heard PROVE tally["away"] <= pulls
  BY DEF OnePullOneReport
<1>1. /\ tally["away"] \in Nat /\ pulls \in Nat
      /\ Holds("poll", "away") \in Nat /\ Due \in Nat
  BY DEF DetectorInv, DetectorTypes, Edge, Holds, Due
<1> QED
  BY <1>1 DEF DetectorInv, DeparturesHavePulls

\* As long as the anchor is out no thread's scan has found it, so the flag stays
\* down and there is no edge to report.
Silent ==
  /\ ~present
  /\ \A t \in Thread : found[t] = NoPort /\ pc[t] \notin {"setpath", "send"}
  /\ \A e \in Edge : tally[e] = 0

LEMMA SilentStep ==
  ASSUME DetectorTypes, Silent, ~AnchorIn, [Watch]_detectors PROVE Silent'
<1> USE DEF Silent, DetectorTypes, Thread, kernel, State, link
<1>1. CASE UNCHANGED detectors
  BY <1>1 DEF detectors
<1>2. CASE \E p \in Port : Pull(p) \/ InterfaceEvent(p) \/ \E d \in Device : Plug(p, d)
  <2>1. UNCHANGED <<present, found, pc, tally>>
    BY <1>2 DEF Pull, InterfaceEvent, Plug
  <2> QED
    BY <2>1
<1>3. CASE OpenSocket \/ SocketDies
  BY <1>3 DEF OpenSocket, SocketDies, Goto
<1>4. CASE Recv
  <2>1. pc' = pc \/ (\E w \in {"update", "find"} : Goto("uevent", w))
    BY <1>4 DEF Recv
  <2> QED
    BY <1>4, <2>1 DEF Recv, Goto
<1>5. CASE LookUp \/ Poll
  BY <1>5, FindReturnsPort DEF LookUp, Poll, Goto
<1>6. ASSUME NEW t \in Thread, ThreadStep(t) PROVE Silent'
  BY <1>6 DEF ThreadStep, SetPath, Update, Send, Goto
<1> QED
  BY <1>1, <1>2, <1>3, <1>4, <1>5, <1>6 DEF Watch

LEMMA SilentAtStart == AnchorInit /\ ~AnchorIn => Silent
  BY FindReturnsPort DEF AnchorInit, Silent, Edge, Thread

\* The same of the detectors alone and of every composition they are part of.
LEMMA SilenceFollows ==
  AnchorInit /\ []DetectorInv /\ [][Watch]_detectors => AbsentStaysSilent
<1>1. DetectorInv /\ Silent /\ ~AnchorIn /\ [Watch]_detectors => Silent'
  BY SilentStep DEF DetectorInv
<1>2. Silent => \A e \in Edge : tally[e] = 0
  BY DEF Silent
<1> QED
  BY <1>1, <1>2, SilentAtStart, PTL DEF AbsentStaysSilent

\* An anchor that is out at startup and stays out is never reported, by either
\* thread, as gone or as back.
THEOREM AbsentStartIsSilent == AnchorSpec => AbsentStaysSilent
<1>1. AnchorInv => DetectorInv
  BY DEF AnchorInv
<1>2. [AnchorNext]_anchorVars => [Watch]_detectors
  BY DetectorsStep
<1> QED
  BY <1>1, <1>2, SilenceFollows, AnchorInvariance, PTL DEF AnchorSpec

\* While only the poll has acted, the last signal is what the flag says.
THEOREM PollIsRight == AnchorSpec => []LatestSignalIsRight
  BY AnchorInvariance, PTL DEF AnchorInv

\* While only the poll has acted, there are no more departures than pulls.
THEOREM PollReportsOnce == AnchorSpec => []OnePullOneReport
  BY AnchorInvariance, OneReportFollows, PTL DEF AnchorInv

\* The poll never gives up an anchor that nobody has touched.
THEOREM PollKeepsAnchor == AnchorSpec => PollKeepsUntouchedAnchor
<1>1. AnchorInv /\ [AnchorNext]_anchorVars => [present /\ pulls = 0 /\ ~heard' => present']_anchorVars
  <2> SUFFICES ASSUME AnchorInv, AnchorNext, present, pulls = 0, ~heard', ~present' PROVE FALSE
    OBVIOUS
  <2>0. DetectorTypes /\ PollIsAlone /\ DeparturesHavePulls /\ [Watch]_detectors
    BY DetectorsStep DEF AnchorInv, DetectorInv
  <2>1. Update("poll")
    BY <2>0, OnlyThePollActs DEF PollStep, Poll, SetPath, Send, State
  <2>2. pc["poll"] = "update" /\ found["poll"] = NoPort
    BY <2>1 DEF Update
  <2>3. Due = 1
    BY <2>2 DEF Due, SeenOut
  <2>4. ~heard /\ tally["away"] \in Nat /\ Holds("poll", "away") \in Nat
    BY <2>0, AloneStep DEF DetectorTypes, Edge, Holds
  <2> QED
    BY <2>0, <2>3, <2>4 DEF DeparturesHavePulls
<1> QED
  BY <1>1, AnchorInvariance, PTL DEF AnchorSpec, PollKeepsUntouchedAnchor

-----------------------------------------------------------------------------
\* Without the socket the poll is the only detector there is.
DeafInv == ~heard /\ pc["uevent"] \in {"open", "done"}

LEMMA DeafStep ==
  ASSUME SocketOpens = {FALSE}, DetectorTypes, DeafInv, [Watch]_detectors PROVE DeafInv'
<1> USE DEF DeafInv, Thread, DetectorTypes, kernel, State, link
<1>1. CASE UNCHANGED detectors
  BY <1>1 DEF detectors
<1>2. CASE \E p \in Port : Pull(p) \/ InterfaceEvent(p) \/ \E d \in Device : Plug(p, d)
  <2>1. UNCHANGED <<heard, pc>>
    BY <1>2 DEF Pull, InterfaceEvent, Plug
  <2> QED
    BY <2>1
<1>3. CASE OpenSocket
  BY <1>3 DEF OpenSocket, Goto
<1>4. CASE SocketDies \/ Recv \/ LookUp
  BY <1>4 DEF SocketDies, Recv, LookUp
<1>5. CASE Poll
  BY <1>5 DEF Poll, Goto
<1>6. ASSUME NEW t \in Thread, ThreadStep(t) PROVE DeafInv'
  BY <1>6 DEF ThreadStep, SetPath, Update, Send, Goto
<1> QED
  BY <1>1, <1>2, <1>3, <1>4, <1>5, <1>6 DEF Watch

LEMMA SocketStaysShut == SocketOpens = {FALSE} => [](SocketOpens = {FALSE})
<1>1. SocketOpens = {FALSE} => (SocketOpens = {FALSE})'
  OBVIOUS
<1> QED
  BY <1>1, PTL

\* A daemon whose uevent socket does not open ("polling only", anchor.rs:119) says
\* no more often that the anchor left than it was pulled, and never of an anchor
\* that nobody pulled: to do so it takes an event (of a twin, anchor.rs:86-92).
THEOREM PollingOnlyIsRight ==
  SocketOpens = {FALSE} /\ AnchorSpec => [](tally["away"] <= pulls) /\ UntouchedAnchorIsPresent
<1>1. AnchorInit => DeafInv
  BY DEF AnchorInit, DeafInv, Thread
<1>2. SocketOpens = {FALSE} /\ AnchorInv /\ DeafInv /\ [AnchorNext]_anchorVars => DeafInv'
  BY DeafStep, DetectorsStep DEF AnchorInv, DetectorInv
<1>3. SocketOpens = {FALSE} /\ AnchorSpec => []DeafInv
  BY <1>1, <1>2, SocketStaysShut, AnchorInvariance, PTL DEF AnchorSpec
<1>4. DeafInv /\ OnePullOneReport => tally["away"] <= pulls
  BY DEF DeafInv, OnePullOneReport
<1>5. DeafInv' /\ [present /\ pulls = 0 /\ ~heard' => present']_anchorVars
        => [present /\ pulls = 0 => present']_anchorVars
  BY DEF DeafInv
<1> QED
  BY <1>3, <1>4, <1>5, PollReportsOnce, PollKeepsAnchor, PTL
  DEF UntouchedAnchorIsPresent, PollKeepsUntouchedAnchor
=============================================================================
