----------------------------- MODULE BeaconLock -----------------------------
(***************************************************************************)
(* The headset in front of the arbiter: Beacon's task and Arbiter with the *)
(* channel of main.rs:125 between them, and one clock for both.            *)
(***************************************************************************)
EXTENDS Arbiter, Sequences

CONSTANTS
  BeaconSource, \* Source::Beacon
  RequireInEar, InEarMemory, DistanceOn, Hold, Silence, Never, NoAd, Ads, ChannelCap,
  MaxChanges    \* bound of the model: how often bluez changes

ASSUME BeaconLockAssumption == BeaconSource \in Source \ Pulse /\ MaxChanges \in Nat

VARIABLES
  known, link, ad, bus, connected, rssi, inEarAge, adAge, belowAge, wasArmed, outbox, chan,
  lastSent,
  changes,      \* how often bluez has changed
  falls,        \* history: how often the beacon stopped being armed
  autoLocks     \* history: locks nobody asked for

Bcn == INSTANCE Beacon WITH Self <- BeaconSource

task == <<connected, rssi, inEarAge, adAge, belowAge, wasArmed, outbox, lastSent>>
bluez == <<known, link, ad, bus, changes>>
lockVars == <<arbVars, task, bluez, chan, falls, autoLocks>>

LockInit == Init /\ Bcn!Init /\ changes = 0 /\ falls = 0 /\ autoLocks = 0

-----------------------------------------------------------------------------
\* bluez, a bounded number of times.
World ==
  /\ changes < MaxChanges /\ changes' = changes + 1
  /\ Bcn!LinkChanges \/ Bcn!PairingChanges \/ Bcn!AdChanges \/ Bcn!BusChanges
  /\ UNCHANGED <<arbVars, falls, autoLocks>>

Tick ==
  /\ Bcn!Tick
  /\ falls' = IF wasArmed /\ ~wasArmed' THEN falls + 1 ELSE falls
  /\ UNCHANGED <<arbVars, changes, autoLocks>>

ReadFails == Bcn!ReadFails /\ UNCHANGED lockVars

Send == Bcn!Send /\ UNCHANGED <<arbVars, changes, falls, autoLocks>>

\* A lock that was entered without the user asking.
CountLock ==
  autoLocks' = IF arb = "select" /\ arb' = "locking" THEN autoLocks + 1 ELSE autoLocks

Receive ==
  /\ Bcn!Receive
  /\ \/ Head(chan) = <<BeaconSource, "away">> /\ Away(BeaconSource)
     \/ Head(chan) = <<BeaconSource, "back">> /\ Back(BeaconSource)
     \/ Head(chan) = <<BeaconSource, "note">> /\ Note(BeaconSource)
  /\ CountLock
  /\ UNCHANGED <<changes, falls>>

Timer == TimerFires /\ CountLock /\ UNCHANGED <<task, bluez, chan, falls>>

Clock == TimePasses /\ Bcn!TimePasses /\ UNCHANGED <<changes, falls, autoLocks>>

Unattended(A) == A /\ UNCHANGED <<task, bluez, chan, falls, autoLocks>>

LockNext ==
  \/ World \/ Tick \/ ReadFails \/ Send
  \/ Receive \/ Timer \/ Clock
  \/ Unattended(LockDone) \/ Unattended(Unlock)

LockSpec == LockInit /\ [][LockNext]_lockVars

\* The task's loop goes round, and a round in which bluez answers is a tick; both
\* ends of the channel move, a lock command ends and time goes on.
FairLockSpec ==
  /\ LockSpec
  /\ WF_lockVars(bus /\ Tick) /\ WF_lockVars(Send)
  /\ SF_lockVars(Receive) /\ WF_lockVars(Timer)
  /\ WF_lockVars(Unattended(LockDone)) /\ WF_lockVars(Clock)

-----------------------------------------------------------------------------
(***************************************************************************)
(* Properties.                                                             *)
(***************************************************************************)

\* One absence, one lock: the beacon does not lock more often than it stopped
\* being armed, through flapping links, cooldowns and unlocks in between.
OneLockPerAbsence == autoLocks <= falls

\* A Back that the task has sent and the arbiter has not handled.
BackOnItsWay ==
  \/ outbox # <<>> /\ outbox[Len(outbox)] = "back"
  \/ \E i \in 1..Len(chan) : chan[i] = <<BeaconSource, "back">>

\* A beacon that is armed is not held absent, unless the Back that says so is on
\* its way.  It says nothing of a headset that is connected and not armed: see
\* ReconnectingCancels.
ArmedIsNotHeld == wasArmed /\ BeaconSource \in absent => BackOnItsWay

\* "The headset reconnecting cancels it" (README.md:70): the tick that sees the
\* link again while the beacon's countdown runs says so to the arbiter.
ReconnectingCancels ==
  [][Tick /\ ~connected /\ connected' /\ pending = BeaconSource /\ left > 0
     => BackOnItsWay']_lockVars

\* Walking off with the headset locks the screen, unless the link comes back or
\* bluez stops answering.
WalkingOffLocks == wasArmed /\ ~link ~> link \/ screen = "locked" \/ ~bus
=============================================================================
