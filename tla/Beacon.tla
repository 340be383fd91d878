------------------------------- MODULE Beacon -------------------------------
(***************************************************************************)
(* The headset of src/src/triggers/beacon.rs: every tick the task reads    *)
(* bluez, decides whether the beacon is armed (connected and recently      *)
(* worn), and reports what changed.                                        *)
(*                                                                         *)
(* Ages are kept instead of instants and stop at the limit they are        *)
(* compared with.  The smoothed RSSI is kept as the side of away_rssi it   *)
(* is on: a mean of two readings on one side stays there, of two readings  *)
(* on different sides it may be on either.  An object without an RSSI      *)
(* property counts as i16::MIN + 1 (beacon.rs:335), which drags the mean   *)
(* below any threshold at once.                                            *)
(*                                                                         *)
(* External: bluez (the link, the loudest Apple advertisement in range,    *)
(* and whether its calls succeed at all).                                  *)
(* Left out: names, the text of notes (a change of text is left open), and *)
(* discovery, whose effect is that advertisements come and go.             *)
(***************************************************************************)
EXTENDS Naturals, Sequences

CONSTANTS
  Self,           \* Source::Beacon
  RequireInEar,   \* require_in_ear
  InEarMemory,    \* in_ear_memory_secs
  DistanceOn,     \* away_rssi # 0
  Hold,           \* rssi_hold_secs
  Silence,        \* silence_secs; 0 is off
  Never,          \* None, of an instant and of a mean
  NoAd,           \* no proximity advertisement in range
  Ads,            \* bound of the model: the advertisements that occur
  ChannelCap      \* capacity of the arbiter's channel

Side == {"near", "weak"}           \* of away_rssi
Heard == [inEar : BOOLEAN, rssi : Side \union {"missing"}]

ASSUME BeaconAssumption ==
  /\ RequireInEar \in BOOLEAN /\ DistanceOn \in BOOLEAN
  /\ InEarMemory \in Nat /\ Hold \in Nat /\ Silence \in Nat
  /\ Never \notin Nat \union Side /\ NoAd \notin Heard /\ Ads \subseteq Heard
  /\ ChannelCap \in Nat \ {0}

VARIABLES
  known,        \* bluez: it has an object for the configured address
  link,         \* bluez: the paired device is connected
  ad,           \* bluez: the loudest proximity advertisement, or NoAd
  bus,          \* bluez: its calls succeed; otherwise each of them may fail
  connected,    \* r.connected
  rssi,         \* r.rssi: its side of away_rssi, or Never
  inEarAge,     \* since r.last_in_ear; at InEarMemory it is as good as None
  adAge,        \* since r.last_ad, or Never
  belowAge,     \* since below_since, or Never
  wasArmed,     \* was_armed
  outbox,       \* the signals of this tick that tx.send has not taken yet
  chan,         \* the arbiter's channel
  lastSent      \* history: the last edge reported, "none" before the first

world == <<known, link, ad, bus>>
reading == <<connected, rssi, inEarAge, adAge>>
beaconVars == <<world, reading, belowAge, wasArmed, outbox, chan, lastSent>>

Ages(limit) == 0..limit
Signals == {"away", "back", "note"}

TypeOK ==
  /\ known \in BOOLEAN /\ link \in BOOLEAN /\ ad \in Ads \union {NoAd} /\ bus \in BOOLEAN
  /\ connected \in BOOLEAN /\ rssi \in Side \union {Never}
  /\ inEarAge \in Ages(InEarMemory)
  /\ adAge \in Ages(Silence) \union {Never}
  /\ belowAge \in Ages(Hold) \union {Never}
  /\ wasArmed \in BOOLEAN
  /\ outbox \in Seq(Signals) /\ Len(outbox) <= 2
  /\ chan \in Seq({Self} \X Signals) /\ Len(chan) <= ChannelCap
  /\ lastSent \in {"none", "away", "back"}

Init ==
  /\ known \in BOOLEAN /\ link \in BOOLEAN /\ (link => known) /\ ad = NoAd /\ bus \in BOOLEAN
  /\ connected = FALSE /\ rssi = Never
  /\ inEarAge = InEarMemory /\ adAge = Never /\ belowAge = Never
  /\ wasArmed = FALSE
  /\ outbox = <<>> /\ chan = <<>>
  /\ lastSent = "none"

-----------------------------------------------------------------------------
\* The world: the link drops and comes back, advertisements come and go, bluez
\* or the bus stops answering.
LinkChanges ==
  /\ known /\ link' = ~link
  /\ UNCHANGED <<known, ad, bus, reading, belowAge, wasArmed, outbox, chan, lastSent>>

\* The headset is paired, or its pairing removed.
PairingChanges ==
  /\ known' = ~known /\ link' = FALSE
  /\ UNCHANGED <<ad, bus, reading, belowAge, wasArmed, outbox, chan, lastSent>>

AdChanges ==
  /\ ad' \in Ads \union {NoAd}
  /\ UNCHANGED <<known, link, bus, reading, belowAge, wasArmed, outbox, chan, lastSent>>

BusChanges ==
  /\ bus' = ~bus
  /\ UNCHANGED <<known, link, ad, reading, belowAge, wasArmed, outbox, chan, lastSent>>

Older(age, limit) == IF age = Never \/ age = limit THEN age ELSE age + 1

TimePasses ==
  /\ inEarAge' = Older(inEarAge, InEarMemory)
  /\ adAge' = Older(adAge, Silence)
  /\ belowAge' = Older(belowAge, Hold)
  /\ UNCHANGED <<world, connected, rssi, wasArmed, outbox, chan, lastSent>>

-----------------------------------------------------------------------------
\* The smoothed RSSI after one more reading.
Smoothed(prev, v) ==
  IF v = "missing" THEN {"weak"} ELSE IF prev = Never THEN {v} ELSE {prev, v}

\* poll(): the paired device and the loudest advertisement, if there is one.
\* When bluez does not know the address the advertisements are not looked at.
ReadBluez ==
  /\ connected' = (known /\ link)
  /\ IF ~known \/ ad = NoAd THEN UNCHANGED <<rssi, inEarAge, adAge>>
     ELSE /\ rssi' \in Smoothed(rssi, ad.rssi)
          /\ adAge' = 0
          /\ inEarAge' = IF ad.inEar THEN 0 ELSE inEarAge

\* What the tick makes of the reading it has just taken.
Worn == ~RequireInEar \/ inEarAge' < InEarMemory
ArmedNow == connected' /\ Worn
BelowSince ==
  belowAge' = IF ~DistanceOn THEN belowAge
              ELSE IF rssi' # "weak" THEN Never
              ELSE IF belowAge = Never THEN 0 ELSE belowAge
Far == DistanceOn /\ rssi' = "weak" /\ belowAge' = Hold
Silent == Silence # 0 /\ ArmedNow /\ adAge' = Silence

\* Mutants of Gone: one asks whether the beacon is worn when the link drops, one
\* forgets that only a fall is news.
GoneOnlyWhileWorn == (wasArmed /\ Worn /\ ~connected') \/ (ArmedNow /\ Far) \/ Silent
GoneIsALevel == ~ArmedNow \/ Far \/ Silent

\* A fall from armed is news; being far or silent is said again every tick.
Gone == (wasArmed /\ ~ArmedNow) \/ (ArmedNow /\ Far) \/ Silent

\* Mutant of News: nobody ever comes back.
NewsIsOnlyBad == IF Gone THEN <<"away">> ELSE <<>>

\* What the tick tells the arbiter.
News == IF Gone THEN <<"away">>
        ELSE IF ArmedNow /\ ~wasArmed THEN <<"back">>
        ELSE <<>>

\* A round of the loop, with bluez read.
Tick ==
  /\ outbox = <<>>
  /\ ReadBluez
  /\ BelowSince
  /\ \E note \in {<<>>, <<"note">>} : outbox' = note \o News
  /\ wasArmed' = ArmedNow
  /\ lastSent' = IF News = <<>> THEN lastSent ELSE News[1]
  /\ UNCHANGED <<world, chan>>

\* A round in which bluez cannot be read: it is logged, and the loop goes on.
ReadFails == ~bus /\ outbox = <<>> /\ UNCHANGED beaconVars

\* Mutant of Send: the capacity of the channel is ignored.
SendWithoutWaiting ==
  /\ outbox # <<>>
  /\ chan' = Append(chan, <<Self, Head(outbox)>>)
  /\ outbox' = Tail(outbox)
  /\ UNCHANGED <<world, reading, belowAge, wasArmed, lastSent>>

\* tx.send(..).await: in order, and blocked while the channel is full.
Send ==
  /\ outbox # <<>> /\ Len(chan) < ChannelCap
  /\ chan' = Append(chan, <<Self, Head(outbox)>>)
  /\ outbox' = Tail(outbox)
  /\ UNCHANGED <<world, reading, belowAge, wasArmed, lastSent>>

\* The arbiter takes the next signal.
Receive ==
  /\ chan # <<>> /\ chan' = Tail(chan)
  /\ UNCHANGED <<world, reading, belowAge, wasArmed, outbox, lastSent>>

Next ==
  \/ LinkChanges \/ PairingChanges \/ AdChanges \/ BusChanges
  \/ TimePasses \/ Tick \/ ReadFails \/ Send \/ Receive

Spec == Init /\ [][Next]_beaconVars

-----------------------------------------------------------------------------
(***************************************************************************)
(* Properties.                                                             *)
(***************************************************************************)

\* The arbiter is never left believing in a beacon that is not one: whatever
\* options are on, the last word was "back" only while the beacon is armed.
BackIsTrue == lastSent = "back" => wasArmed

\* Triggers report edges, not levels (arbiter.rs:17): a beacon leaves only after
\* it came, and comes only when it was not there.  So starting up with the
\* headset in its case is silent (beacon.rs:134).
EdgesAlternate ==
  [][Tick => /\ News = <<"away">> => lastSent = "back"
             /\ News = <<"back">> => lastSent # "back"]_beaconVars

\* And an absence is one edge: the arbiter is not told again of a beacon it has
\* already been told is away.
AwayIsSaidOnce == [][Tick /\ News = <<"away">> => lastSent # "away"]_beaconVars

\* A link that is lost for good does not stay unreported, as long as bluez
\* answers in the end.
LossIsReported == <>[](~link /\ bus) => <>[](lastSent # "back")
=============================================================================
