----------------------------- MODULE BeaconRadio -----------------------------
(***************************************************************************)
(* How the headset of Beacon is heard: the discovery that beacon.rs asks   *)
(* bluez for at the head of every round, in windows of the wall clock that *)
(* notchd keeps to as well (scan_secs of every scan_period_secs).          *)
(*                                                                         *)
(* A unit of time is the TICK of the loop.  A round comes at least one     *)
(* unit after the last one and at most MaxGap: the sleep, D-Bus, and the   *)
(* channel that takes the signals.  bluez scans while any client holds a   *)
(* discovery; a suspend ends them all.  While bus is FALSE each call may   *)
(* fail: a controller that refuses to scan is one case of it.              *)
(***************************************************************************)
EXTENDS Beacon

CONSTANTS
  OwnDiscovery,   \* own_discovery, and a proxy for the adapter at start-up
  Scan, Period,   \* scan_secs and scan_period_secs, in TICKs
  MaxGap          \* longest time between two rounds

ASSUME RadioAssumption ==
  /\ OwnDiscovery \in BOOLEAN
  /\ Scan \in Nat /\ Period \in Nat \ {0} /\ MaxGap \in Nat \ {0}

VARIABLES
  loudest,      \* the loudest advertisement in the air, or NoAd
  powered,      \* Adapter1.Powered; FALSE when suspended, or gone
  mine,         \* bluez: the daemon's discovery
  theirs,       \* bluez: notchd's
  pos,          \* the wall clock, modulo the period
  sinceTick,    \* time since the last round
  answered      \* history: bluez's calls succeeded in the last round

radio == <<powered, mine, theirs>>
clocks == <<pos, sinceTick, answered>>
radioVars == <<beaconVars, loudest, radio, clocks>>

RadioTypeOK ==
  /\ TypeOK
  /\ loudest \in Ads \union {NoAd}
  /\ powered \in BOOLEAN /\ mine \in BOOLEAN /\ theirs \in BOOLEAN
  /\ pos \in 0..Period-1 /\ sinceTick \in 0..MaxGap /\ answered \in BOOLEAN

\* The daemon starts at any time, with the adapter in any state.
RadioInit ==
  /\ Init
  /\ loudest \in Ads \union {NoAd}
  /\ powered \in BOOLEAN /\ mine = FALSE /\ theirs = FALSE
  /\ pos \in 0..Period-1 /\ sinceTick = 0 /\ answered = TRUE

Discovering == mine \/ theirs     \* Adapter1.Discovering
Window == pos < Scan

-----------------------------------------------------------------------------
\* The air and the adapter.

AirChanges ==
  /\ loudest' \in Ads \union {NoAd}
  /\ UNCHANGED <<beaconVars, radio, clocks>>

\* Advertisements come several times a second: one unit of scanning is enough
\* to hear the loudest.  One that has stopped may stay for a while.
Hear ==
  ad' \in IF ~Discovering THEN {ad} ELSE IF loudest = NoAd THEN {ad, NoAd} ELSE {loudest}

\* What was heard is forgotten some time after the scan.  bluez keeps it for
\* half a minute, so a round has read it by then.
Forget ==
  /\ (~Discovering /\ sinceTick = 0) \/ ~powered
  /\ ad # NoAd /\ ad' = NoAd
  /\ UNCHANGED <<known, link, bus, reading, belowAge, wasArmed, outbox, chan, lastSent>>
  /\ UNCHANGED <<loudest, radio, clocks>>

\* A suspend, a resume.
PowerChanges ==
  /\ powered' = ~powered
  /\ IF powered' THEN UNCHANGED <<mine, theirs>> ELSE mine' = FALSE /\ theirs' = FALSE
  /\ UNCHANGED <<beaconVars, loudest, clocks>>

\* notchd starts a scan of its own in any window, early or late, and ends it
\* with the window.
NotchdScans ==
  /\ IF theirs THEN ~Window ELSE Window /\ powered /\ bus
  /\ theirs' = ~theirs
  /\ UNCHANGED <<beaconVars, loudest, powered, mine, clocks>>

\* One unit of time, if the loop is not due by then.
Clock ==
  /\ sinceTick < MaxGap /\ sinceTick' = sinceTick + 1
  /\ pos' = IF pos + 1 = Period THEN 0 ELSE pos + 1
  /\ Hear
  /\ inEarAge' = Older(inEarAge, InEarMemory)
  /\ adAge' = Older(adAge, Silence)
  /\ belowAge' = Older(belowAge, Hold)
  /\ UNCHANGED <<known, link, bus, connected, rssi, wasArmed, outbox, chan, lastSent>>
  /\ UNCHANGED <<loudest, radio, answered>>

-----------------------------------------------------------------------------
\* The loop.

\* Is it time to scan?  With no duty cycle configured it always is.
Want == Scan = 0 \/ Scan >= Period \/ Window

\* Mutants of Reassert: one asks at start-up only, one leaves a discovery that
\* notchd seems to need.
ReassertAtStart ==
  mine' \in IF ~OwnDiscovery \/ ~powered THEN {mine}
            ELSE IF ~bus THEN {mine, Want}
            ELSE IF Want /\ ~Discovering /\ lastSent = "none" THEN {TRUE}
            ELSE {mine /\ Want}

ReassertUnlessShared ==
  mine' \in IF ~OwnDiscovery \/ ~powered THEN {mine}
            ELSE IF ~bus THEN {mine, Want}
            ELSE IF Want /\ ~Discovering THEN {TRUE}
            ELSE {mine /\ (Want \/ theirs)}

\* The head of a round: ask for discovery when it is wanted and not on, give our
\* own back when it is on and not wanted.  Without power nothing is asked.  When
\* calls fail anything may be left as it was: Powered and Discovering that cannot
\* be read count as FALSE, and whether Start- or StopDiscovery failed is only logged.
Reassert ==
  mine' \in IF ~OwnDiscovery \/ ~powered THEN {mine}
            ELSE IF ~bus THEN {mine, Want}
            ELSE IF Want /\ ~Discovering THEN {TRUE}
            ELSE {mine /\ Want}

Round ==
  /\ sinceTick > 0 /\ sinceTick' = 0
  /\ Reassert
  /\ Tick \/ ReadFails
  /\ answered' = bus
  /\ UNCHANGED <<loudest, powered, theirs, pos>>

Aside(A) == A /\ UNCHANGED <<loudest, radio, clocks>>

RadioNext ==
  \/ AirChanges \/ Forget \/ PowerChanges \/ NotchdScans
  \/ Aside(LinkChanges) \/ Aside(PairingChanges) \/ Aside(BusChanges)
  \/ Clock \/ Round
  \/ Aside(Send) \/ Aside(Receive)

RadioSpec == RadioInit /\ [][RadioNext]_radioVars

\* Time goes on and so does the loop; the arbiter reads.
FairRadioSpec ==
  /\ RadioSpec
  /\ WF_radioVars(Clock) /\ WF_radioVars(Round)
  /\ WF_radioVars(Aside(Send)) /\ WF_radioVars(Aside(Receive))

-----------------------------------------------------------------------------
(***************************************************************************)
(* Properties.                                                             *)
(***************************************************************************)

\* Rounds that are not further apart than a window is long, and a memory that
\* spans a period: the defaults are 3 ticks of 15, and 300.
WellTuned == OwnDiscovery /\ MaxGap <= Scan /\ Period + 2 * MaxGap < InEarMemory

\* Somebody who sits there with the buds in is seen, however the windows, the
\* rounds, notchd's scans and what bluez forgets fall, once bluez answers: after
\* a while the beacon is there and never leaves.
SittingThere == link /\ powered /\ bus /\ loudest # NoAd /\ loudest.inEar
SittingIsSeen == WellTuned => (<>[]SittingThere => <>[](lastSent = "back"))

\* A suspend ends every discovery, and "blind fails safe, so nothing ever
\* complains" (beacon.rs:113-117): with the adapter back and bluez answering, the
\* radio listens again and again.
NeverBlindForGood == WellTuned => (<>[](powered /\ bus) => []<>Discovering)

\* The radio is given back at the first round after the window in which bluez
\* answers, whatever notchd does and however often the calls have failed before:
\* after a round that was answered the discovery is ours only in the window.
RadioIsGivenBack ==
  mine /\ answered /\ ~(Scan = 0 \/ Scan + MaxGap > Period) => pos - sinceTick \in 0..Scan-1
=============================================================================
