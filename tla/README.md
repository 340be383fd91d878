# Vanish in TLA+

Vanish locks the screen when its owner leaves. It watches a USB stick (the
*anchor*), a Bluetooth headset (the *beacon*) and a local HTTP hook, and one
task, the *arbiter*, decides. This directory holds a model of that program: TLA+
modules checked by TLC on small instances, and proofs about each of its tasks
checked by TLAPS for every value of their constants.

Paths are given from the root of the repository (`src/arbiter.rs`); in
`PROJECT.json` the repository itself is the directory `src/`, so the same file
is `src/src/arbiter.rs` there.

- [The system](#the-system): components, state, interactions, what is hard
- [The modules](#the-modules): what models what, and what is abstracted
- [The runs](#the-runs): what each shows, with its bounds
- [Disagreements between code and documents](#disagreements-between-code-and-documents)
- [The proofs](#the-proofs)
- [What is not modelled](#what-is-not-modelled)
- [The plan](#the-plan)

To check: `tlc -config X.cfg M` for a run of `PROJECT.json`, `tlapm M.tla` for
the proofs of `ArbiterProofs`, `AnchorProofs`, `BeaconProofs`, `QueueCounts`,
`AnchorLockProofs`, `BeaconLockProofs` and `DaemonProofs`.

## The system

One process (`vanish run`), one tokio runtime, two plain threads, and short-lived
client processes (`vanish lock`, `pause`, `status`, ...). Everything meets in one
bounded channel of `Signal`s (`main.rs:125`) that the arbiter alone reads.

```
 kernel --uevents--> thread uevent \                                        notchd
   |                               > flag --Away/Back--\                      ^
   +---- sysfs ----> thread poll   /                    \                     |
 bluez --D-Bus----> beacon task -------Away/Back/Note----> channel --> arbiter --> lock::lock
 HTTP caller -----> webhook task per connection --Away---/                    (loginctl / command)
 vanish CLI ------> control socket task --LockNow/Pause/...
```

| component | state it keeps | operations | what makes it correct |
|---|---|---|---|
| **arbiter** `src/arbiter.rs` | `pending` countdown, `absent`, `paused_until`, `last_lock`, notes | one handler per `Signal`, and the timer branch of its select | an unanswered absence is always going to be answered; nobody but the user locks in a pause or a cooldown; only its owner ends a window |
| **lock** `src/lock.rs` | none | find the active session, lock it | the session is locked, or the caller knows it was not |
| **notch** `src/notch.rs` | none (notchd's countdown) | show, cancel | what is on screen is what the arbiter is doing |
| **anchor** `src/triggers/anchor.rs`, `src/uevent.rs` | `present`, `devpath` under one mutex; a netlink socket | two detector threads | the arbiter's last word is the truth; one pull, one report |
| **beacon** `src/triggers/beacon.rs` | a `Reading`, `was_armed`, `below_since`; whether discovery is ours | a tick every two seconds: keep discovery to its duty cycle, read, report | edges that alternate, no loss or return unreported, never blind for good, the radio given back, buds on a desk ignored |
| **webhook** `src/triggers/webhook.rs` | none between calls | a task per connection: head, check, body, answer, send | a call with the token becomes a lock, whatever its caller does; every connection ends |
| **control socket** `src/control.rs` | the socket file | remove, bind, accept; a task per connection; `ask()` in the client | the daemon can be reached; what was acknowledged holds; every client returns |
| **daemon** `src/main.rs` | the channel | start-up, SIGTERM, exit | the promises above, across a stop, a crash and a restart |
| **configuration** `src/config.rs`, **CLI**, `learn`, `rssi` | none at run time | parse, print | |

What is hard to test here, and what the properties are for (`hazards` in
`PROJECT.json` has each one at its line):

- *Orders.* Two threads report the edges of one flag after they have released
  the lock that ordered them. A deadline and a queued `Back` or `Pause` can be
  ready at the same time, and tokio's select picks one at random.
- *Stale state.* A thread acts on a scan, or on an event, that the other one has
  already overtaken. The in-ear reading and the smoothed RSSI outlive what they
  were read from.
- *Long protocols.* Windows are opened, taken over, set aside, and resumed after
  a cooldown; a pause may fall anywhere in between.
- *Partial failure.* The lock command fails silently; the uevent socket loses
  events or dies; bluez forgets the address, or does not answer at all, and what
  the beacon asked of it may or may not have been done.
- *Liveness.* Every absence must be answered in the end, although the select's
  timer branch is parked for ever when it thinks there is nothing to wait for.
- *Acknowledged is not done.* A command is answered when it is queued, a webhook
  call before that; a lock, a full channel or a shutdown comes in between.
- *Clocks that do not agree.* The discovery's windows are cut from the wall clock,
  the loop samples them every two seconds or more, notchd opens the same windows
  a little earlier or later, and bluez forgets at its own pace.
- *Restart.* `contrib/vanish.service` restarts the daemon; nothing is persisted,
  and a killed daemon leaves its socket file behind.

## The modules

| module | models | state and steps |
|---|---|---|
| `Presence` | nothing in particular: the promise of `arbiter.rs:17-24` without clocks or messages | which absences are owed, whether a lock is being carried out |
| `Arbiter` | `arbiter.rs`, with `lock.rs` and `notch.rs` as their outcomes | one action per signal (`Away`, `Back`, `Note`, `LockNow`, `Pause`, `Resume`), two for the timer branch (`CountdownElapsed`, `CooldownOver`), `LockDone` for the return of `lock::lock` |
| `Anchor` | `triggers/anchor.rs`, the kernel and the netlink socket | one step per access to the mutex, per scan, per `recv`, per send |
| `Beacon` | the loop and `poll()` of `triggers/beacon.rs`, bluez as its environment | `Tick` is one round of the loop; the sends are steps of their own |
| `BeaconRadio` | the head of that loop: discovery and its duty cycle, with the adapter, notchd's scans and bluez's cache | extends `Beacon`; `Round` is `Reassert` and then `Tick` |
| `ControlSocket` | the socket file of `control.rs` and `main.rs` | `Remove` and `Bind` of `control::run`; `Start`, `Term`, `Leave`, `Exit`, `Crash` of the process |
| `Control` | `serve()` and `ask()` of `control.rs` | where each client's request is: `Ask`, `Submit`, `Answer`, and the ways it fails |
| `Webhook` | `triggers/webhook.rs` | where each connection's task is: head, check, body, 204, send, and both timeouts |
| `AnchorLock` | `Anchor`, webhook calls and the user's commands, the channel, `Arbiter` | a signal is handled when the arbiter takes it from the channel |
| `BeaconLock` | `Beacon`, the channel, `Arbiter`, one clock | the same |
| `Daemon` | `main.rs`: `ControlSocket`, `Control`, `Webhook`, the channel and `Arbiter` in one process that stops, dies and starts again | the steps of its parts, with what a stop does to all of them (`Term`, `Die`) |
| `ArbiterProofs`, `AnchorProofs`, `BeaconProofs`, `AnchorLockProofs`, `BeaconLockProofs`, `DaemonProofs` | theorems about the module they are named for (`BeaconProofs` about `BeaconRadio` as well) | |
| `QueueCounts` | nothing: how often a signal waits in a queue, and what a send and a receive do to that | lemmas the two balances rest on |
| `MC...` | small instances for TLC | |

`Arbiter` is extended by the three compositions, which drive its actions from the
channel. `AnchorLock` extends `Anchor` as well, and takes its `Watch`: everything
it does on its side of the channel, without `Deliver`, the reader it has when it is
alone. `Beacon`, `Control`, `Webhook` and `ControlSocket` are instantiated, sharing
`chan`. `Arbiter` instantiates `Presence` and maps
`owed` to `absent`, `locking` to `arb = "locking"`, and `Source` to the sources
that can come back.

A definition named like a bug (`RememberOwner`, `PollForArrivals`,
`SendOrDrop`, ...) is a *mutant*: a plausible wrong version of the definition
below it that no specification uses. For every property of a passing run,
`PROJECT.json` names a mutant that makes TLC find it violated.

### Abstractions

- **Instants** are distances from now that stop at zero (or, for ages, at the
  limit they are compared with). The code only compares instants with now. One
  step moves all timers together; which timer runs out first depends on the
  constants only through their order, so windows of one to three units show
  every order. A timer that is due may still wait for the task to be scheduled.
- **`lock::lock`** either locks or does nothing. It returns `()`, so the
  arbiter cannot tell; a dry run, a missing session and a failing command are
  all "nothing". While it is awaited the arbiter does nothing else; time, the
  triggers and the channel go on.
- **notchd** shows a countdown or not, as the last message asked. A message that
  could not be delivered is not modelled. In `BeaconRadio` it is a second client
  of bluez that scans in the same windows.
- **A scan of sysfs** is one step. `read_dir` may list in any order, so with two
  matching devices either is found. A scan that fails (`anchor.rs:215`) finds
  nothing in the code, as if the anchor were out; it is not modelled, since
  `/sys/bus/usb/devices` is there as long as the kernel has USB.
- **The uevent socket** holds at most `QueueCap` datagrams and drops the rest.
  The real socket reports the overrun as an error, which ends the thread: that is
  `SocketDies`, which may happen at any time, so the model's drop without an
  error only adds behaviours.
- **RSSI** is the side of `away_rssi` the mean is on. Two readings on one side
  average to that side; on different sides the mean may be on either.
- **bluez and the bus answer or do not** (`bus`). While they do not, each call of
  a round may fail by itself. `poll()` that fails is `ReadFails`: logged, and the
  loop goes on without a tick (`beacon.rs:195-198`). At the head of the round a
  `Powered` or `Discovering` that cannot be read counts as `FALSE`
  (`beacon.rs:166-168`), and the errors of `StartDiscovery` and `StopDiscovery` are
  logged or ignored, so our discovery may be left on or off (`Reassert`). A proxy
  for the adapter that cannot be built at start-up is `OwnDiscovery = FALSE` for
  the rest of the run; without a system bus at start-up there is no beacon task.
- **The wall clock** of the duty cycle counts ticks modulo the period; a round is
  one to `MaxGap` ticks after the last one. bluez scans while any client holds a
  discovery, hears the loudest advertisement within a tick of scanning, may
  forget it only when nobody scans, and loses every discovery with the power
  (`powered`: a suspend, or an adapter that is gone).
- **A webhook call** is what `validate()` looks at and whether a body is still to
  come. Both timeouts may come at any time, and do in the end.
- **A request** of the command line is well formed. A client is a process that
  asks once and may be started again.
- **A stop** drops the arbiter and its end of the channel wherever they are
  (`DropArbiter`), the connections with the process (`Die`), and leaves a lock
  command that has been started, and notchd's countdown, to themselves.
- **Text** (details, notes, log lines, names) is left out; whether a note
  changes is left open.
- **History variables** (`tally`, `pulls`, `heard`, `believed`, `lastSent`,
  `falls`, `autoLocks`, `pulses`, `answered`, and `ahead` of a connection) are read by no
  guard; they exist for the properties. `moves`, `changes`, `requests`, `calls`
  and `starts` bound the environment.

### Fairness, and why the code justifies it

- *The arbiter's timer* (WF) and *its channel* (SF in `AnchorLock` and
  `BeaconLock`, WF in `Daemon`): both are branches of one `tokio::select!`, which
  starts polling at a random branch, so a branch that is ready again and again is
  taken.
- *A lock command ends* (WF on `LockDone`): the documented lockers are
  `loginctl` and commands that detach. A locker run in the foreground breaks this
  assumption, and the arbiter then stands still; see the hazard at `main.rs:125`.
- *The threads* (WF in `Anchor`; SF on a thread's steps in `AnchorLock`): the
  operating system schedules both, the poll sleeps for a bounded time, and
  senders waiting for room in a tokio channel are served in order.
- *The beacon's loop* (WF on `Round` in `BeaconRadio`, on `bus /\ Tick` in
  `BeaconLock`, and on `Send`): a sleep that always ends, and a channel that is being
  read. A round is fair whether it reads bluez or fails to; that it succeeds is
  assumed only of a round made while bluez answers (`bus`), and no fairness makes
  bluez answer: the properties that need it say so.
- *The tasks of the daemon* (WF on `Bind`, and on every connection's
  `Answering(c)` and `Hooking(k)` by itself): tokio runs what can go on. The two
  timeouts of a webhook connection make its part fair whatever the caller does. A
  client reads what it was sent. `Submit` needs no more than WF: with clients
  that ask a bounded number of times the channel does not stay full.
- *Time passes* (WF).
- No fairness is assumed of the environment beyond the lock command and the
  client: nobody has to plug, unplug, call, reconnect, unlock, ask, start or stop
  anything, and bluez need not answer. Where a property needs more it says so
  itself: a headset that is still there (`<>[]SittingThere`), a bluez that answers in
  the end (`<>[](~link /\ bus)`, `<>[](powered /\ bus)`) or up to the lock
  (`\/ ~bus` in `WalkingOffLocks`), a daemon that is not stopped (`~Up`).

## The runs

Passing runs. Deadlock is checked in all of them.

| run | instance | shows |
|---|---|---|
| `arbiter` | three sources; grace 0, 3 and 1 (anchor, beacon, webhook); cooldown 3; pauses of 0, 1, 3; locks that fail or not | no order of signals and timers leaves a countdown in a pause or a cooldown, an owner that is back, an absence without a timer, a notch countdown without a window, or a status that says "back" of a held absence; automatic locks respect pause and cooldown; only the owner ends a window; `Arbiter` implements `Presence` *with its liveness*: every absence is answered by a lock, its own return or a pause |
| `anchor_both` | the stick, its twin with `serial` set, a mouse, two ports, both threads, a socket with room for two events that may fail to open or die, interface events, three moves of the kernel | every edge of the flag is sent exactly once; a stale `devpath` is about to be corrected; an anchor that is out at start-up stays silent until it is plugged in; whatever was lost or mistaken, the poll makes the flag right; and as long as no event was taken for the anchor's, the arbiter hears what is true, one pull is one report and an untouched anchor stays |
| `beacon_radio` | default options; windows of 2 ticks in 4, rounds 1 or 2 ticks apart, in-ear memory of 9; suspends, a bluez that stops answering and comes back, notchd scanning or not | edges alternate, and the last word is "back" only while armed; once bluez answers for good, a link that is lost is reported, somebody who sits there wearing the buds is seen and stays seen, and with power the radio listens again and again; the radio is given back by the first answered round after the window |
| `anchor_lock` | poll, webhook with grace 0, `lock`, `pause`, `resume`, channel of two, two moves and two requests | from the port to the lock: a pull ends in a locked screen unless it is taken back or paused; one automatic lock per pull or call; what is held of the anchor is what it said last |
| `beacon_lock` | headset alone, default options, cooldown 2, five changes of bluez | from the link to the lock: walking off ends in a locked screen unless the link is back or bluez stops answering; one fall, one lock; a beacon that is armed is not held absent, or is being taken back |
| `daemon` | two clients with two requests between them (`lock`, `resume`, `pause`, `status`), one webhook call (right, wrong, or with a body that may not come), a channel of two, two starts, SIGTERM and crash at any time | every client gets an answer or the end of the stream; every connection ends; a valid call and an acknowledged `lock` lock unless the daemon stops; a status is never older than what was queued before it; a restarted daemon can be reached |

The bounds. *Sources*: three is all there are. *Moves* of the kernel: three are
a pull, a return and a pull, enough for both threads to hold an edge while a
third is made; the overtaken edge appears with two.
*Channel*: two, so that both threads can have sent, one can be blocked behind
them, and the order in the channel matters; in `daemon` two clients and a call
then meet a channel that holds a queue and is full. One in `beacon_radio` and
`beacon_levels`, where there is one sender and no reader that acts on the order.
The code's capacity is larger, which only makes waiting rarer. *Changes of
bluez*: five are an advertisement, a link, its
loss, its return and its loss again. *Requests*: two allow a command during the
effect of another one or of a call. *Starts*: two are a daemon and the one that
meets what it left behind. *Duty cycle*: windows twice the tick and periods twice
the window have rounds that miss the start of a window, and rounds that come
after its end; with windows shorter than the distance of two rounds a window can
be missed for ever, which is what `WellTuned` excludes (the defaults, windows of
3 ticks in 15 and a memory of 300, satisfy it).

What the instances leave out. `anchor_lock` runs the poll alone: with both
detectors a pull that is reported twice breaks `OneLockPerReason`, and an overtaken
edge breaks `PullIsAnswered`. `anchor_lock`, `beacon_lock` and `daemon` have lock
commands that work (`LockOutcome = {"locks"}`), because their properties ask for a
locked screen; a lock that does nothing is in `arbiter`. `daemon` has the webhook
as its only trigger, so `ValidCallLocks` says nothing of a call in the countdown of
another source, which is dropped (`call_dropped`). The distance and silence options
are on in `beacon_levels` and in the theorems `TypeCorrect` and `BackIsStoodBy`
only. `Armed = FALSE` is in `arbiter_disarmed`, and in every theorem about
`Arbiter`.

## Disagreements between code and documents

Each is a run that checks one statement of a document or comment, which TLC
finds violated by what the code does. The lines quoted are in `findings` of
`PROJECT.json`.

| run | statement | what happens |
|---|---|---|
| `anchor_overtaken` | both detectors feed one flag, whichever notices first wins | the two edges of a short pull can be sent in the wrong order; since only edges are sent, the arbiter stays wrong until the next one |
| `beacon_levels` | triggers report edges, not levels | with `away_rssi` set, a headset that stays far is reported away again on the next tick |
| `beacon_reconnect` | the headset reconnecting cancels its countdown | when its in-ear reading has expired by then, the tick that sees the link again sends nothing, and the countdown goes on |
| `control_two_daemons` | a second daemon's bind fails and says so | it removes the socket of the first, its bind succeeds, and the first one's exit removes it again |
| `arbiter_disarmed` | `armed = false` never locks, as `--dry-run` | `vanish lock` locks |
| `call_dropped` | a webhook grace of 0 means lock immediately | a call during the anchor's countdown is dropped: its source is a pulse, and a pulse is not remembered |

Noticed on the way, and visible in the modules, but not stated as properties:

- an event that is older than the poll's last scan, or a scan older than the last
  event, is reported as a departure of its own, so one pull can be reported twice
  (`OnePullOneReport` holds until an event is taken for the anchor's);
- with `serial` set, a `remove` of the other device of the same model is taken for
  the anchor's until the next poll (`MatchesUs`: the event's PRODUCT has no serial),
  although `config.rs:51` says that `serial` pins one of two;
- buds on the desk are reported gone when their in-ear reading expires, still
  connected (`Worn` and `Gone`), although README.md:106-108 says that they are
  ignored: it is the expiry of `beacon_reconnect`, at its other end;
- getting near again is no edge of `armed`, so a countdown that being far has started
  is not taken back (`News`);
- with both detectors the first word about an anchor that was out at start-up and is
  plugged in and pulled can be "away": one thread overtakes the "back" in the hands
  of the other;
- an object with manufacturer data and no RSSI counts as `i16::MIN + 1`
  (`Smoothed`), which makes the headset far;
- `vanish pause` is acknowledged when it is queued; a countdown that is due by
  then may still be taken first (`Timer` and `Receive` in `AnchorLock`);
- a lock that failed clears the absences like one that worked (`LockDone`);
- a signal that is queued when the daemon stops is lost, after its ok or its 204
  (`DropArbiter`), and notchd goes on counting down to a lock that never comes.

## The proofs

Each proves, for every value of the constants that the module's assumption
allows (any sets of sources, ports, devices, clients and callers, any capacity
and any window), what the run beside it checks on a small instance. Every safety
property that a passing run checks is stated by a theorem; where a theorem has a
hypothesis on the constants, it is named below with its reason.

### The arbiter

`ArbiterProofs`, from `ArbiterAssumption` alone:

| theorem | states |
|---|---|
| `TypeCorrect` | `TypeOK` always holds |
| `PauseIsQuiet` | in a pause nothing counts down and nothing is remembered |
| `NoCountdownInCooldown` | no countdown runs during a cooldown |
| `CountdownHasAbsence` | the owner of a countdown, unless a pulse, is absent |
| `AbsenceHasTimer` | an absence never waits on a parked timer |
| `NotchIsRight` | notchd shows a countdown exactly while there is one |
| `StatusIsHonest` | no source shown as back is held as absent |
| `AutomaticLocksAreGuarded` | only the user locks in a pause or in a cooldown |
| `DisarmedLocksOnRequest` | and only the user's request when disarmed, which is what `arbiter_disarmed` finds |
| `WindowIsKept` | only its owner, its end, a lock by the user or a pause ends a window |
| `ImplementsPresenceSafety` | every step is a step of `Presence` or invisible to it |

They all rest on `Invariance == Spec => []IInv`. The invariants that the runs
check are not inductive by themselves; `IInv` adds four facts:

- `CooldownHasLock`: a cooldown runs only after a lock. `NoAbsenceStranded`
  needs it where `Away` is set aside in a cooldown: the timer looks at
  `last_lock`.
- `LockingHasNoCountdown`: every way into `lock::lock` has taken the countdown.
  Without it `LockDone` would start a cooldown under a countdown.
- `NoPulseAbsent`: pulses are not remembered. A window opened for a remembered
  absence by `start_next` belongs to a source that can come back.
- `DisarmedMeansQuiet`: disarmed, nothing gets past the first check of `Away`,
  so the timer never has anything to lock for.

`StepHolds` goes through the actions one by one; what `start_next` may do is
stated once, in `StartNextOutcome`, and used for its two callers. The two
action properties and the refinement are step facts under the invariant, lifted
with PTL.

`IInv` is `CoreInv` and `NotchFollowsCountdown`, each with a step lemma of its own,
because a daemon that is stopped in a countdown leaves notchd counting: across a
restart only `CoreInv` is kept, and that is what `DaemonProofs` takes from here.

### The anchor

`AnchorProofs`, from `AnchorAssumption`, with any number of ports, devices and
moves and queues of any size:

| theorem | states |
|---|---|
| `AnchorTypeCorrect` | `AnchorTypeOK` always holds |
| `BooksBalance` | what was sent and what the threads have in hand add up to the flag |
| `DevpathIsTrue` | a devpath without a presence is about to be followed by "back" |
| `AbsentStartIsSilent` | about an anchor that is out at start-up and stays out, nothing is ever sent, by either thread |
| `PollIsRight` | until an event is heard, the latest signal is what the flag says |
| `PollReportsOnce` | until then there are no more departures than pulls |
| `PollKeepsAnchor` | until then an anchor nobody pulled is not given up |
| `PollingOnlyIsRight` | with a uevent socket that does not open, the last two hold for ever (`UntouchedAnchorIsPresent`, which a twin's `remove` breaks, included) |

The invariant is in two parts. `DetectorInv` speaks of one side of the channel only
and is kept by `Watch`, whoever reads the channel; `AnchorInv` adds what was
delivered. It is longer than the arbiter's because a report passes through several
hands. That a thread in `setpath` has found a port (`SetPathHasPort`) carries the
devpath; that the uevent thread waits until it has heard something (`PollIsAlone`),
and that the poll has in hand what the flag says (`PollReportsFlag`), carry the
latest signal. `DeparturesHavePulls` is the one that took work: departures sent, in
the poll's hand, or `Due` (the flag is up, or about to be raised, and the anchor is
out or was seen out) are no more than the pulls. A pull may make one due; the scan
that notices it, the update and the send only hand it on.

### The beacon

`BeaconProofs`, from `BeaconAssumption` and `RadioAssumption`:

| theorem | states |
|---|---|
| `TypeCorrect`, `RadioTypeCorrect` | the types, of `Beacon` and of `BeaconRadio` |
| `BackIsStoodBy` | whatever options are on, the last word is "back" only while armed, in `Beacon` and in `BeaconRadio` |
| `DefaultEdgesAlternate`, `LinkEdgesAlternate` | with distance and silence off, edges alternate, for every duty cycle and whatever bluez does |
| `OnlyExpiryReportsTheDesk` | with distance and silence off, a headset whose link is up is reported gone only by the expiry of its in-ear reading |
| `WithoutInEarDeskIsIgnored` | so without `require_in_ear` it never is |
| `RadioGivenBack` | for every duty cycle and spacing of rounds that leaves a round between two windows, after a round that bluez answered a discovery of ours is held only in its window, whatever failed before |

That edges alternate needs the converse of `BackIsTrue` as well (`ArmedIsSaid`),
which is what fails with `away_rssi` set: the repetition in `beacon_levels` breaks
`LinkEdgesAlternate` without its hypothesis. The two theorems about the desk say
which option that behaviour hangs on. `RadioGivenBack` needs `MineNeedsPower`: a
round that asks nothing of bluez, for lack of power or by configuration, has nothing
of its own to give back. A round in which calls fail promises nothing and is excused
by name (`answered`); while bluez does not answer, a discovery may outlive any
number of windows.

### From the port to the lock

`AnchorLockProofs`, from the assumptions of `Arbiter`, `Anchor` and `AnchorLock`:

| theorem | states |
|---|---|
| `ArbiterInside` | every behaviour of `AnchorLock` is one of `Arbiter` |
| `PromiseIsKept` | so what `ArbiterProofs` says of a step holds behind the channel: `Presence`'s safety, guarded locks, kept windows |
| `DetectorsKeepTheirBooks`, `DetectorsAreRight` | and what `AnchorProofs` says of the detectors holds in front of it |
| `AbsenceIsItsLastWord` | the anchor is held against the user only if its last word was "away", with both detectors |
| `OneLockPerReport` | automatic locks are no more than the departures sent and the webhook calls, whatever the detectors do |
| `PollLocksOnce` | until an event is heard, they are no more than the pulls and the calls (`OneLockPerReason`) |
| `OneLockPerPull` | and they are for ever, when the uevent socket does not open |

The last three are a balance across four owners. A departure, once sent, waits in
the channel, is held (as an absence; a webhook call only as the countdown it
started), is answered by one automatic lock, or is dropped by a pause or a
cooldown:

    autoLocks + Waiting(chan, away) + Waiting(chan, call) + Held <= departures sent + calls

`ReportsCover`, with what may be in the channel and that nobody but the anchor is
absent, is inductive together with the arbiter's `IInv` and `DetectorInv`. A step
of the arbiter moves one unit from left to right in it, or drops one; the delicate
case is the end of a cooldown or of a window, where `start_next` may lock for an
absence that has been held since before the last lock: `LockDone` clears them all,
and this is why `Held` counts while the arbiter is in its select only.

`OneLockPerReport` has no hypothesis: nothing behind the flag ever answers a report
twice. `OneLockPerReason` has one, and needs it. With both detectors one pull may
be two reports, so the number of pulls bounds the locks only as long as no event
was taken for the anchor's (`~heard`), or when none ever can be
(`SocketOpens = {FALSE}`: the daemon that says "cannot open uevent socket; polling
only", `anchor.rs:119`, and the instance of the run `anchor_lock`).

### From the link to the lock

`BeaconLockProofs`, from the assumptions of `Arbiter`, `Beacon` and `BeaconLock`:

| theorem | states |
|---|---|
| `ArbiterInside`, `PromiseIsKept` | as for the anchor |
| `EachFallLocksOnce` | with the shipped options, automatic locks are no more than falls from armed |
| `ArmedIsForgiven` | with the shipped options, an armed beacon is not held absent, or is being taken back |
| `WithoutInEarReconnectingCancels` | with them and without `require_in_ear`, reconnecting cancels: what `beacon_reconnect` finds hangs on the in-ear reading |

`Default` (`~DistanceOn` and `Silence = 0`, the values of `config.rs:147-149`) is
the hypothesis of these: with `away_rssi` or `silence_secs` the beacon reports
levels, `beacon_levels` shows it, and none of them is true then. `LockInv`
holds the same kind of balance for falls (`FallsCover`), with the outbox as one
more place where a departure may wait. `ArmedIsNotHeld` is not inductive: a
departure that becomes a held absence must have been true, or taken back, while it
was still queued. That is `AwayIsTrue`, for every departure in the channel, and it
needs `OutboxIsFresh`: what has not been sent yet ends in what the task is now.

### The daemon

`DaemonProofs`, from the assumptions of its four parts:

| theorem | states |
|---|---|
| `DaemonTypesHold` | the types of all four parts and the bound of the channel, through stops and restarts |
| `StatusIsCurrent` | no status is older than what was queued before it was asked |
| `RestartKeepsTheBooks` | the arbiter's invariants, that of notchd excepted, hold in every daemon of the series |
| `OnlyTheUserLocksThen` | and so does that only the user locks in a pause or in a cooldown |
| `BoundIsReachable` | a daemon that is up and has bound its socket owns the file |

They rest on `DaemonInvariance`. For the status it relates a client's count to its
place in the queue: a request that is not sent yet counts no more than what is
queued (`AskedIsBehind`), a status in the queue counts no more than what is in
front of it (`StatusIsBehind`) and is there once (`StatusIsOnce`). They need that
without a process there are no connections (`DownIsEmpty`): otherwise a restart
would find a request that counts what died with the last daemon. `SocketInv` is
about one daemon at a time, which is what `Daemon` models; with two,
`control_two_daemons` shows that `BoundIsReachable` is not true.
A stop is no step of `Arbiter`, so `ArbiterInside` is not a theorem here: instead
every step is one of `Arbiter` or drops it (`ArbiterStepOrDrop`), and both keep
`CoreInv`.

Every invariant was checked with TLC before it was proved.

### What is only model-checked

Every property under fairness, since TLAPS has no rules for `ENABLED` here:
the liveness half of `ImplementsPresence` (its safety half is
`ImplementsPresenceSafety`), `FlagSettles`, `PollAloneSuffices`, `SittingIsSeen`,
`NeverBlindForGood`, `LossIsReported`, `PullIsAnswered`, `WalkingOffLocks`,
`EveryClientReturns`, `EveryCallEnds`, `ValidCallLocks`, `RequestedLockIsDone` and
`RestartIsReachable`. The six disagreements are TLC's counterexamples.

## What is not modelled

- *Configuration, CLI, `learn`, `rssi`*: parsed or printed once, no state that
  changes; the configuration is the constants. `parse_duration`, `human`, the
  parsing of a uevent and of an HTTP head are pure functions of strings.
- *The session*: which one is active, VT switches between looking and locking
  (`lock.rs:42`), a locker that stays in the foreground.
- *notchd's side of its socket*: messages that do not arrive. `notch.rs` connects,
  writes one short line and reads nothing, so it would wait only for a notchd whose
  backlog is full.
- *The reason's text* of a webhook call, *malformed requests* to the control
  socket (answered, nothing changes), a token too short for the listener.
- *Overflow* of `Instant + Duration`: a panic for absurd windows.
- *The closed-channel branch* of the arbiter's select: `main` holds a sender for
  as long as the arbiter runs.

## The plan

Done: `Presence`, `Arbiter`, `Anchor`, `Beacon`, `BeaconRadio`, `ControlSocket`,
`Control`, `Webhook`, `AnchorLock`, `BeaconLock` and `Daemon`, each with its run,
and the proofs above. Left, in this order:

1. **Proofs**: that `BeaconLock` keeps `Beacon`'s own `BackIsTrue`, and step facts
   of the kind the liveness properties rest on (a countdown never gets longer but
   by a takeover, a connection never goes back to an earlier part).
2. **`LockSession`**: the active session, a VT switch between looking and
   locking, a locker that stays in the foreground and its effect on the channel.
3. **Pure operators**: `parse_duration` and `human`, the parsing of a uevent,
   `matches_product`, against reference definitions over bounded inputs.
