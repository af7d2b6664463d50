# A TLA+ model of ElectricEel

ElectricEel is a Sailfish OS application that controls a Tesla over Bluetooth
LE and can act as its phone key. This directory holds TLA+ modules that model
the parts of it where things happen concurrently or fail halfway, the TLC
configurations that check them, and proofs that TLAPS checks. Paths below are
relative to `src/`.

## 1. The system

| Part | Code | State it keeps | Operations |
| --- | --- | --- | --- |
| Pages and cover | `app/qml/pages/FirstPage.qml`, `app/qml/cover/CoverPage.qml`, `app/qml/js/VehicleState.js` | `vehicleStatus`, `statusStage`, `statusError`, the settle timer, `commandBusy` | quick actions, the chain of readings, refresh |
| Application | `app/src/teslaclient.cpp` | `m_phoneKeyActive`, `m_phoneKeyStatus` | one worker thread makes all calls of the core, one at a time; a 1 s timer polls phone-key events |
| Rust core | `helper/src/core.rs` | configuration under `cfg`; `phone_key_started`, `_enabled`, `_retry_at` under `phone_key_gate`; `ble_sem`; on disk `config.json` and the key pair | run, generate_key, pair, start/stop_phone_key, poll_phone_key_event, handle_resume, set_config, share_destination |
| Session client | `helper/src/session_client.rs` | the child process, its socket, a queue of at most 64 events, `presence_active` | spawn and handshake, one request and its reply at a time, kill, invalidate |
| Configuration | `helper/src/config.rs` | versioned JSON file | load (with migration), sanitize, save |
| Session child | `helper/session/*.go` | one `session` object under `mu`: link, sessions, auth tap, idle timer, presence mode | command, pair, navigate, keygen, presence-start, presence-stop, shutdown |
| BlueZ transport | `helper/session/bluez/` | bus, discovery, `Watcher.paused`, per-connection buffers | Watch, Wait, Pause, Resume, Stop, Connect, Send, rx |
| Commands, sharing, C ABI, helper daemon, logs | `commands.rs`, `share.rs`, `ffi.rs`, `helper.rs`, `keylog.rs`, ... | none, or the log | |

The pages queue calls for the application's worker thread, and its signals come
back to them in a queue. The worker calls the core through a C ABI. The core
spawns the session child and talks to it over a Unix socket with one JSON
object per line: a request, its reply, and unsolicited events and heartbeats.
The child drives BlueZ over D-Bus. Replies travel on the request path;
phone-key events travel on their own through the client's queue, the poll and a
session-bus signal.

### Where it is hard

* **The child.** Four kinds of goroutine share `session.mu`: the request loop,
  presence loops (a cancelled one can still be running when the next one
  starts), one authentication responder for each link, and idle-timer
  callbacks. Each of them reads state, releases `mu` or blocks on the vehicle,
  and acts on what it read. Discovery is switched on and off both with and
  without `mu`. Links drop at any moment.
* **The core and its client.** A stop, a retry, a resume and a late event of a
  dead child all decide whether the phone key runs. The reader thread reports a
  loss by itself, a failed request reports it too, and the queue is bounded.
  Pairing state on disk, the two key files and what the vehicle has enrolled
  change in several steps, each of which may fail, or fail after it took
  effect, or be the last before the process dies.
* **The application.** It learns of the service from two sources, the outcome of
  a start and the events.
* **The pages.** They show the effect of an action before it has one, and
  confirm it by readings that lag behind.
* **The transport.** A fragmented protocol over notifications that can be lost,
  and writes whose size has to be found out by failing.

What makes each part correct:

* child: a link is only reused when it is authenticated; answers stay on their
  link; presence mode and its loop never come apart; no link, scanner or
  goroutine is left behind; the parent's picture of the link gets corrected;
* core and client: a key is marked paired only if the configured vehicle has
  enrolled it, whatever fails; the child serves the configured vehicle and only
  while a service is wanted; a lost service is told of, and somebody brings it
  back;
* application: the phone is kept awake exactly while the service runs;
* pages: one request at a time, its answer taken for no other, and at rest the
  vehicle as it is;
* transport: what is delivered is what was sent, until the next loss.

`PROJECT.json` lists the hazards line by line, with the properties that cover
them or the reason why none does.

## 2. The modules

| Module | Models | Extends |
| --- | --- | --- |
| `SessionChild` | the child process with the `bluez` backend | |
| `SessionChildProperties` | what it promises | `SessionChild` |
| `SessionChildProofs` | proofs | `SessionChildProperties` |
| `Presence` | how the presence loop judges nearness, with counter and clock | |
| `PresenceProofs` | proofs | `Presence` |
| `Watcher` | `scan.go` inside: the watcher, its signal goroutine and its locks, and connect's scan and retries | |
| `WatcherProofs` | proofs | `Watcher` |
| `Framing` | `connection.go`: fragments in, chunks out | |
| `FramingProofs` | proofs | `Framing` |
| `PhoneKeyCore` | core, session client, files, and the child seen from outside | |
| `PhoneKeyService` | abstract: what the phone key is for its user | |
| `PhoneKeyCoreProperties` | what core and client promise, and the refinement | `PhoneKeyCore` |
| `PhoneKeyCoreProofs` | proofs: types, enrolment, the refinement | `PhoneKeyCoreProperties` |
| `PhoneKeyEventProofs` | proofs: losses, retries, events | `PhoneKeyCoreProofs` |
| `PhoneKeyApp` | worker thread and `TeslaClient`, composed with the core | `PhoneKeyCore` |
| `PhoneKeyAppProperties` | what the application promises; fairness | `PhoneKeyApp` |
| `PhoneKeyAppProofs` | proofs | `PhoneKeyAppProperties`, `PhoneKeyEventProofs` |
| `Dashboard`, `DashboardProperties` | front page, cover and the queues to the worker | |
| `DashboardProofs` | proofs | `DashboardProperties` |
| `MC...` | instances for TLC | |

Operators with a suffix (as in `closeLink_KeepsTap`) are variants with a
plausible mistake; no action uses them. Each is the mutant that shows that some
property can fail.

### SessionChild

| Model | Code |
| --- | --- |
| `mu`, `phase` | holder of `session.mu` while it spans steps, and what it waits for: `gatt` is inside `bluez.Connect`, `handshake` inside `StartSession` |
| `request` | what `serveConn` is serving; `closed` after the parent went away |
| `bus` | `s.bluez != nil` |
| `car`, `linkUp`, `sessions` | `s.car`/`s.conn`, whether BlueZ has reported the link lost (`Connection.Dropped`), the domains with a session |
| `tap`, `queue`, `responder` | `authInbox`/`authCancel`, the datagrams in each inbox, the state of each `authResponderLoop` |
| `settled`, `vcsec`, `insideEmitted` | `connectedAt`, `lastVCSECPrime` with `lastUserPresence`, `insideEmitted` |
| `idle`, `fired` | a pending `idleTimer`; callbacks that fired and wait for `mu` |
| `presence`, `generation`, `cancelled` | `presenceCancel`, `presenceGeneration` (as the loop that has it), cancelled contexts |
| `beacon`, `backoff` | a recent strong `lastBeacon`, an active `connectBackoffUntil` |
| `watcher`, `paused`, `discovering` | `s.watcher`, `Watcher.paused` of each loop's watcher, the adapter's discovery |
| `pc`, `snap`, `seen` | where each `presenceLoop`/`runPresenceWatcher` is, and its locals `bzConn`, `near` with `lastSeen` |
| `told` | the last thing the events said about the link: `near` or `lost` |

One critical section is one action; the code between two of them that another
goroutine can observe (pausing a watcher, `Wait`, writing an event) is an
action of its own. Two critical sections last so long that others visibly move
meanwhile, and hold `mu` over several actions: connecting, and starting a
watcher, whose discovery runs before it is paused. A command over a live link
is one action, since nothing it does is visible before it releases `mu`.

Data is abstracted to what the properties tell apart: a request to its kind, an
answer of the vehicle to whether it proves the session lost, a scan result to
"strong and fresh" or not, time to timers that may fire whenever they are
armed. Two facts about time are kept, both true of the default arguments: the
far timeout (15 s) is longer than a beacon stays fresh, and both count from the
same advertisement (`FarTimeoutPasses`). `presence_confirm` has its default of
1 here; `Presence` has the counter. A connect without a beacon scans by itself
before it connects; that one-shot scan is part of the `gatt` phase.

### Presence

The locals `near`, `consecNear` and `lastSeen` of `runPresenceWatcher` under
`presenceStep`, the ticks with a link, and a failed connect, with a clock. The
history variable `ticks` records what each tick saw, when it began and when its
observation ended. A tick takes its time before it waits for the scanner, so a
departure may be declared one scan interval early or late against the real
moments; `DropoutIsBridged` says just how early. Scanner errors skip the step.
Locks and cancellation are those of `SessionChild` and are left out.

### Watcher

| Model | Code |
| --- | --- |
| `mu`, `discoveryMu` | the holders of `session.mu` and of the watcher's mutex around calls of BlueZ; `signalMu` never spans a step |
| `pc` | the presence loop between `Watch` and `Stop`, and a request inside `bluez.Connect` |
| `paused`, `pending`, `updates`, `nearUpdate`, `signalStop` | the fields of `Watcher`; a channel of capacity 1 is whether it holds its token |
| `observer` | `observeRSSIUpdates`: `reading` an RSSI without a lock, about to store one, about to wake `Wait`, `done` once `signalDone` is closed |
| `discovering`, `signals`, `link` | `Adapter1.Discovering`, signals not yet received, `s.car != nil` |

This is the part of the child that `SessionChild` takes in larger steps. Every
call of BlueZ that switches discovery is a step and may fail, BlueZ drops
discovery when it likes, a connect scans, shares the scan it finds, retries and
gives up. Signals are a set: nothing promises their order, and a second one of
the same kind changes nothing. Left out: which device object is the vehicle's
(signals are of the vehicle or of the adapter), powering the adapter, a bus
that closes, and the overlap of two watchers, which is in `SessionChild`.

### Framing

`rxBuf`, `inbox` and `blockLength` are the fields of `Connection`; `flushing` is
that `rx` is in the loop around `flush`, one round of which is the step
`Flushes`, so the reader of the inbox may run between two rounds. The vehicle
sends messages in chunks of any sizes up to `Block`, which is what the link can
carry (`air` is what is still to come of the frame); they may be lost, or late
by more than `rxTimeout`. After a loss without a gap the receiver may glue
messages, and does in the model: the property speaks of what follows the next
gap, and of the inbound observer, since the inbox drops what it has no room for.

`blockLength` begins with what BlueZ reports or, if it does not, with the most
to expect (`BlockLengths`); either may be more than the link carries. Any write
may fail, at the first chunk of a frame or after larger ones were written. Then
`Send` falls back to `Guaranteed`, in the middle of the frame if need be, and
only gives up when it had done so before. A write that fails has written nothing
(BlueZ answers `WriteValue`); one whose context expires may have. Each sender
sends one frame.

The two directions share no state. `framing` explores each while the other has
not begun (`OneDirection`), which loses nothing, as no property is about both.

### PhoneKeyCore

| Model | Code |
| --- | --- |
| `up` | the application's process runs |
| `file`, `priv`, `pub`, `knows` | `config.json`, the key files (whether the public one belongs to the private one), and the vehicles that have enrolled the private key |
| `cfg`, `started`, `enabled`, `retry` | `Core.cfg`, `phone_key_started`, `phone_key_enabled`, `phone_key_retry_at` |
| `ble`, `gate` | holders of `ble_sem` and `phone_key_gate` |
| `pc`, `op`, `out` | where each calling thread is, its operation and the outcome |
| `conn` | `SessionClient.child` with its reader thread, in five states from spawned to having reported its loss |
| `childVin`, `mode` | the child: the VIN it was spawned with, and its presence loop (`off`, `opening`, `on`, `near`) |
| `unsaid` | what the presence loop is about to write, having let go of `session.mu`: `presence_near` or `presence_stopped` |
| `active`, `events`, `wire` | `presence_active`, the event queue, the request in flight |

An operation waits for the gate before it does anything that others see, so it
begins when it gets the gate (a poll has taken its event before). From then on
every write of a file, every request to the child and every release of the gate
ends a step. A save succeeds, fails, or fails after the rename (when only the
sync of the directory fails). A request is served, refused, lost with the
child, or given up, with the child killed, at a moment when the child may have
served it. The child is what `SessionChild` looks like from outside: it opens
its bus or gives up, a link comes and goes, and events are queued while anyone
reads them. A loss is written under `session.mu`, in the step that notices it
(`LinkLost`, which also stands for attempts that fail); a session and the end
of a loop are written later, by `LoopReports`, with anything in between: another
loss, a stop, a new loop. `Crash` ends the process between any two steps.

Abstracted or left out: a child whose core has crashed is taken to have exited
before the next start (its socket closes at once); events that change nothing in
the core (`presence_inside`, `_auth_*`); the reads of the
configuration that a poll makes to fill in an event's VIN; and, of the initial
states, files of the first schema with a private key but no public one, which
`Core::new` cannot tell from a key that was never paired.

`PhoneKeyService` is the abstract specification: a phone paired with at most
one vehicle, serving it or not; `Serve`, `Cease`, `Pair`. The refinement maps
`paired` to the configuration of the running core and `serving` to the VIN of
the child while its presence loop is on, at every step, also inside operations.

### PhoneKeyApp

`todo` is what a worker slot goes on to after the call it made (every
`generateKey` and `pair` is followed by a refresh, a poll by another one),
`keepAwake` and `status` are `m_phoneKeyActive` and `m_phoneKeyStatus`, `wake` a
queued `handleResume` (of several only one is kept; the next may be queued as
soon as it is taken). Signals between the two threads are delivered in order,
and nothing the model has acts on the client's state, so it is that after the
last signal. `status` keeps apart what the properties do: "scanning" also stands
for the text of an error, and the texts for authorisations are left out.

### Dashboard

`vehicleStatus`, `statusStage`, `statusError`, `settling` (the timer) and
`commandBusy` are the pages' properties, `calls` and `replies` the queues to and
from the worker; `car` and `telemetry` are the vehicle and what Infotainment
takes it for. A command may be carried out whatever its outcome. Readings are
abstracted to the values that quick actions toggle; parsing them is left out,
and so are the requests of other pages, whose identifiers differ. The history
variable `overtaken` records the two ways in which something gets behind the
confirmation: a refresh that begins within the 2.5 s of the timer or while
telemetry lags, which keeps the timer from starting its own chain, and a
command of the cover, which nothing re-reads. `settled` takes 2.5 s to be
enough for telemetry to catch up, as FirstPage.qml:42-51 does.

## 3. Runs

| Run | Instance | Question |
| --- | --- | --- |
| `core` | `SessionChild`: 1 loop, 2 links, all requests, 1 fired callback | links, taps, visits, departure and discovery under any interleaving |
| `restart` | 2 loops, 1 link, command, presence-start and -stop, 1 fired callback | a cancelled loop that has not returned against its successor; no link is left open without a timer |
| `progress` | 1 loop, 1 link, command, navigate, presence-start and -stop, with fairness | dropped links are released, the parent corrected, requests answered; loops and responders return |
| `service` | `PhoneKeyCore`: 2 threads, every operation but `share`, 1 vehicle, queue of 2 | a lost service is told of and has somebody to bring it back; events are fresh |
| `enrolment` | 1 thread, every operation, 2 vehicles, every schema, crashes | paired keys are enrolled; the child serves the configured vehicle; refinement of `PhoneKeyService` |
| `app` | `PhoneKeyApp`: 1 vehicle, `start`, `poll`, `resume`, `pair`, `drop` and `generate_key` with force, queue of 1, with fairness | kept awake exactly while serving; a paired key comes up again; a presence loop that is gone is back or no longer shown, whether or not the core had noticed |
| `dashboard` | `Dashboard`: 2 quick actions, trunk, menu, cover, with fairness | one request at a time; at rest the page shows the vehicle; it comes to rest |
| `presence` | `Presence`: confirm 2, far timeout 3, scan interval 2, 5 ticks | the counter and the timestamp against the definition over the whole record |
| `watcher` | `Watcher`, which has no parameters and no bounds, with fairness | no wakeup is lost, no discovery disturbs a connect or a link, discovery comes back, and `Stop` returns |
| `framing` | `Framing`: 4 messages of 2 kinds, 2 faults; 3 senders, frames of 7 bytes, a link that carries 3, guaranteed 2, assumed 2, 3 or 4 | delivered is what was sent; frames are whole, and sent once |
| `stale_loop`, `stale_near` | as small as the disagreement allows | see section 5 |

Bounds. `Loops` bounds the presence-starts and `Links` the connects of a
behaviour: two loops are what an overlap needs, and two links what a request
that waits for a replacement needs. `InboxCap` is 1 instead of 64, and
`EventCap` 1 or 2: the full queue is the interesting one, and two is what it
takes for a loss to be pushed out by news. `MaxFired` is 1: one callback that
has fired while a command restarts the timer is the race that
`resetIdleTimerLocked` has. `IdleTimerGuardsLink` is checked without
`navigate`, with which it fails (section 5); `QuietConnect` is checked with one
loop, since it fails with two that overlap. Two threads in `service` are what a poll that
waits for the gate while a stop has it needs; the application has one, and
`enrolment` and `app` use that. `share` is a second command, and `service` leaves
it to `enrolment`; `app` leaves out commands, which do to the service what a child
that dies does, and a second vehicle, since `enrolment` is about those. Its queue
of one drops an event whenever two are waiting. In `framing`, bytes are 0 to 3,
a message of the greatest length and one whose payload reads as a length are
sent, in chunks of 1 to 3 bytes; two faults are what it takes to lose agreement,
regain it and lose it again. An assumed size of 4 is too large for the
link, and one of 3 shrinks to 2 within a frame of 7, or between two frames. In
`presence`, five ticks are enough for an arrival, a departure or a failed
connect, and a second arrival.

Loops, links, threads and vehicles are symmetric, and the safety runs without
temporal properties use that. `restart` takes states for the same that differ
only in what the parent was told, the settle time and `insideEmitted`
(`ButReports`): no other variable depends on these and none of its properties
reads them. `CHECK_DEADLOCK FALSE` is said where the system
really stops: the child exits when its parent is gone, and `framing` ends when
all messages are sent.

### Fairness

`progress` assumes of the code only what the Go runtime gives: a goroutine that
can go on does, and one that waits for `mu` gets it if it is released again and
again, as `sync.Mutex` hands itself to a waiter that starves (hence strong
fairness of each loop and each responder, and of `NavigateExecute`). Of the
rest it assumes that waits for the vehicle end (every one has a timeout), that
BlueZ does not refuse to start scanning for ever, that a `Wait` does not lose
against errors for ever, and that clocks advance: a backoff expires, and the far
timeout passes unless the loop sees the vehicle again and again. No property
assumes that the idle timer fires, that a vehicle answers or that a user asks
for anything.

`app` assumes that the worker goes on with what it has begun (every wait for the
child has a deadline), that the poll's timer gets its turn among other events,
that a dead child's socket is noticed (the frame timeout) and its loss reported,
that a presence loop writes what it is about to write, and that a retry comes due. Of the world it assumes that a presence-start that is
tried again and again is spawned, served and heard at last, and that the
application is launched again after it was killed. `PairedKeyRuns` also assumes
that the child does not die for ever (`Undisturbed`): a child that dies between
any two polls is retried for ever, and never seen to run. Nothing is assumed of
the user.

`watcher` assumes that goroutines go on and get a mutex that is released again
and again, that calls of BlueZ end and deadlines come, and that BlueZ does not
refuse to start discovery for ever. It assumes nothing of the request: while
one connects, discovery need not come back.

`dashboard` assumes that queued calls and signals are delivered, that every call
returns with some outcome, that the timer fires and that telemetry catches up;
`ComesToRest` is about a user who leaves the page alone from some time on.

## 4. What is proved

`SessionChild`, for any set of loops, links and requests and any capacities;
assumed are only `Constants` (kinds of request, a positive inbox capacity, and
that `None` and `Requester` are no loop or link).

* `SessionChildProofs`:
  * `TypeCorrect`, `Spec => []TypeOK`. The type is split into seven parts; a
    step keeps a part whose variables it leaves alone (`TypeUnchanged`), so
    that each action only argues about the others.
  * `LockCorrect`: a loop that starts a watcher or connects holds `mu`
    (`LockInv`). Every later proof needs it, because actions that finish a
    long critical section are only harmless if nobody else is in one.
  * `PresenceModeHasItsLoop`, `Spec => []OnePresenceLoop`. That property is not
    inductive: nothing in it keeps a loop that starts from having been
    cancelled before. `LoopInv` adds that exactly the loops that left `new`
    are started, that cancelled loops were started, and that no cancelled loop
    has the current generation. `LoopFootprint` reduces the loop's 31 actions
    to the few facts that matter here.
  * `CachedLinksAreAuthenticated`, from `LinkInv`, which also says what the
    holder of `mu` may have established so far in each phase, and that only
    `pair` does without a tap.
  * `AnswersStayOnTheirLink`, from `LinkInv` and `ResponderInv` (a link never
    opened has no responder). `StepOpens` classifies every step by what it
    does to links and responders.
  * `OnlyTheCurrentLoopConnects`, from `LockInv` and `LoopInv`.
  * `ScannerHasItsLoop`, `Spec => []ScannerNeedsLoop`, from `ScanInv`, which
    names the positions of a loop at which its watcher may discover.
  * `InsideIsOfTheVisit`, `Spec => []InsideBelongsToVisit`. The hard step is a
    loop that ends presence mode by itself without touching the link: it must
    not find one. `ExitInv` says so: such a loop exits with `mu` free and
    without a link, a beacon or another watcher. It rests on `BusInv`: without a
    bus there is no link, no beacon and no loop that has got anywhere.
  * `IdleTimerGuards`: if `navigate` is not among the requests,
    `Spec => []IdleTimerGuardsLink`, from `IdleInv` (the property whenever no
    connect is under way, held or not) and `ExitInv`. With `navigate` it is
    false (section 5).
  * `DeparturesSpareLinks`, `Spec /\ []BeaconIsOwn => []DepartureSparesLinks`,
    from `DepartInv`: a loop that is to declare a departure has a mode without
    a link and without a beacon to open one by. The hypothesis excludes what
    main.go:1169 allows: a cancelled loop that stores its beacon late and
    leaves it to its successor.
  * `ConnectsAreQuiet`, `Spec /\ []NoOverlap => []QuietConnect`, from
    `QuietInv`: during a connect every loop that waits is paused, and a loop
    that has a watcher is the one that is registered. The hypothesis is that a
    cancelled loop has returned before the next begins to run; without it the
    property is false (section 5).
  * `OneLoopIsExact`: both hypotheses hold of a child that serves one
    presence-start (`Loops` has one element), as in the run `core`.

`PhoneKeyCore`, for any threads, vehicles, schemas and queue capacity; assumed
is only `CoreConstants`.

* `PhoneKeyCoreProofs`: `TypeCorrect`, `Spec => []TypeOK`, in four parts; and
  from one inductive invariant `IInv` of twelve parts:
  * `PairedKeysAreEnrolled`. The property says nothing of the middle of an
    operation, where it is decided: a key replacement must have unpaired both
    copies of the configuration before the child writes (`ReplacedIsUnpaired`),
    a pairing that is about to be saved must be known to the vehicle
    (`ConfirmedIsEnrolled`), a changed file must agree with the key it was
    saved for (`FileIsSaved`), and a file that has not been migrated must
    become a true one (`OldFileIsEnrolled`, `MemoryIsMigrated`).
  * `CommandsGoToConfiguredVehicle`. What makes it hold is who is in the gate
    (`GateHeld`, `RequestHasCaller`) and that a child's VIN is that of the
    configuration whenever a request is in flight or the gate is free
    (`ChildServesConfigured`).
  * `CoreImplementsService`: the initial states map to the initial state of
    `PhoneKeyService`, and every step to `Serve`, `Cease`, `Pair` or a stutter.
    A presence-start is only sent for an eligible configuration
    (`StartIsEligible`), and a configuration only changes over a stopped child.

* `PhoneKeyEventProofs`, from `EInv`, which adds nine parts to `IInv`:
  * `DownServicesAreRetried`. Between the end of a failed start and the next
    one nothing holds the service but `retry`; `WantedIsStarted` follows it
    through the operations that are about to start. It needs that a wanted
    service is eligible (`WantedIsEligible`), or a start could be refused and
    forgotten, and that nobody who stops a service leaves it wanted
    (`StoppedIsOff`).
  * `LossesAreReported`. `LossIsNoticed` speaks of every state, also within an
    operation: a stop that was served has no loop and tells nobody, and a start
    that was served may have lost it before the core hears of the success. What
    the child has still to write counts as noticed, since there is somebody to
    read it (`UnsaidIsHeard`).
  * `NewsIsOfTheLivingChild`, from `NewsIsFresh` and `UnsaidIsHeard`: what is
    written late is written to a reader that is still there. A session of a loop
    that has ended is only written while its service is stopped
    (`UnsaidIsCurrent`).
  * `PresenceIsAlwaysWanted`, from `LoopIsWanted` and from what a presence
    request leaves behind when it is not answered (`PresenceIsServed`).

  `QueueSteps` and `StartingSteps` say once what the steps do to the queue and
  to the callers' positions.

`PhoneKeyApp`, for any vehicles, schemas, operations and queue capacity;
assumed are `CoreConstants` and that the worker is the only caller.

* `PhoneKeyAppProofs`:
  * `AppRunsCore`, `AppSpec => Spec`: every step of the application is one of
    the core or leaves it alone. So all theorems of the core hold of it, and
    `EInv` is there to build on.
  * `PhoneIsAwakeWhileServing`, `AppSpec => []AwakeWhileServing`. The client
    learns of the service from the outcome of a start and from polled events,
    and between an operation and the refresh that follows it knows nothing.
    `AInv` says when it does (`ClientKnows`): unless a refresh is due
    (`Refreshing`), a start is under way or an answer is about to tell it. That
    an answer tells the truth is `ResultIsTrue`; that a late "near", in the
    queue or still to be written, never speaks of a service that ended is `NewsIsServed`, which holds
    since whoever ends one restarts it, clears the queue or is followed by a
    refresh.

`Watcher`, which has no parameters. TLC enumerates its states; the proofs give
the argument lock by lock, which is what a change of `scan.go` has to keep.

* `WatcherProofs`: `LocksExclude` (who holds `session.mu` and `discoveryMu`
  where); `PendsNothing`, `Spec => []NothingPendsWhilePaused`, which is
  inductive by itself; `GattLeftQuiet`, `Spec => GattIsLeftQuiet`, from
  `QuietInv` (a request past its `Pause` finds the watcher paused until it ends,
  and `ensureDiscovering` between its check and its call is not paused); and
  `WakesForAll`, `Spec => []NoWakeupIsLost`, from `WakeInv`, which extends the
  promise to the moment before the `select`, when the token has not been taken.

`Presence`, for every confirm count, far timeout and scan interval and records
of any length; assumed is only `Config`.

* `PresenceProofs`: `DropoutsAreBridged`, `Spec => DropoutIsBridged`, from
  `SeenInv` (`lastSeen` bounds the times the vehicle was seen at);
  and `NearIsJudgedAsDefined`, `Spec => []NearIsAsDefined`, which needs `CountInv`
  (while not near, `consecNear` is the length of the run of strong results that
  ends the record, and below the confirm count) and `ClockInv` (while near,
  `lastSeen` is the time of a tick that saw the vehicle). `OneMoreTick` reduces
  the definition, which looks at the whole record, to its last tick.

`Dashboard`, for any set of quick actions and queues of any length; assumed is
only `QuickActions` (they toggle fields of the status).

* `DashboardProofs`: `TypeCorrect`;
  * `PageAsksOnce`, `Spec => []OneStatusRequest`, from `OneInv`: while the page
    waits, exactly one message in the two queues is its own and it is for
    `statusStage`. `AppendAsks` and `TailAsks` say what queueing and taking a
    message does to that, so that no proof looks into a queue.
  * `RestShowsCar`, `Spec => []AtRestShowsCar`. At rest everything has been
    read; the invariant must say how far a chain has got. `ChainIsFresh`: a
    chain that nothing overtook runs over a settled vehicle, every reading on
    its way is the vehicle's, and what the legs before `statusStage` read is
    shown unless one of them failed. That no quick action runs meanwhile is
    `OneInv`.

`Framing`, for any messages, chunks of any sizes, any number of senders, any link
and any limits; assumed is only `Sizes`.

* `FramingProofs`:
  * `FlushUndoesFraming`, for every message within `MaxMessageSize`: one round
    of `flush` on a buffer that begins with its frame returns it and keeps the
    rest, and on a part of the frame it waits.
  * `FlushMakesProgress`: a round that goes on shortens the buffer, so the loop
    of `rx` ends, and one that stops leaves less than a whole message.
  * `TypeCorrect`, `Spec => []TypeOK`, and `DeliveredAsSent`,
    `Spec => []DeliveredIsSent`, from `RxInv`. Its parts: `AirInv` (what has gone
    of a frame, followed by what is to come, is the frame); and, while both ends
    agree, either `Taken` (all that was sent was observed, and the buffer is
    what has gone) or `Pending` (the last chunk has just come: the buffer is one
    whole frame, and its message is all that the observer lacks). The property
    alone is not inductive: it says nothing of the buffer, nor of the loop.
    `Cut` and `Grouped` are the lemmas on sequences that a chunk of any size
    needs.
  * `SentFramesAreWhole`, `Spec => []FramesAreWhole`, from `SendInv` (who sends
    holds `mu`, and what it has written so far is the end of the wire) and
    `OnceInv` (no byte is written twice). Neither depends on the size of the
    chunks, nor on when it shrinks.

Every invariant and every action property of a run that passes is proved. Only
model-checked: `CancelledLoopClosesNothing` and `ConnectedIsTrue`, which are
false (section 5), and all liveness (the prover does neither fairness nor `ENABLED`).

## 5. Where comments and documents promise more

Each of these runs has one property, which states what the repository says, and
TLC finds a behaviour of the model that breaks it.

| Run | What happens |
| --- | --- |
| `stale_loop` | a presence loop cancelled while it waits for `mu` closes the link of a later command |
| `stale_near` | `presence_near` is written after `mu` is let go (main.go:1229), the loss of that session under `mu`: the loss is polled first, and the pages show "connected" without a session |

Seen in the models while they were written, and not kept as runs:

* `presence-start` leaves the idle timer of an earlier command running, which
  then tears a held link down (main.go:393 says the timer is suppressed).
* A `navigate` that fails after connecting leaves a link without an idle timer
  (navigate.go:86; main.go:388 says "after every command, successful or not"),
  and it asks for a VCSEC session although navigate.go:69 speaks of all domains.
* Presence mode holds a link that a `state` command opened, without VCSEC.
* A loop cancelled before it registers its watcher a second time (main.go:985)
  hides its successor's watcher from the pause before a connect.
* Shutdown closes the bus just before a loop calls `Watch` on it (main.go:959).
* `pair` stops the service and leaves its queued events (core.rs:624): a
  `presence_near` among them is polled over the next service, with the same effect.
* A watcher starts discovery before it is paused (main.go:957), over whatever
  link is up then, although main.go:1062 warns of discovery while GATT is up.
* A `presence_stopped` that a failed command queued restarts, when it is polled, a
  service that has been restarted since: once more than needed.
* `generateKey` that reuses the key is followed by a refresh, which overwrites
  "connected" with "scanning" over a session that is up.
* A tap on the padlock before its first reading unlocks the doors, and the icon
  goes to locked (FirstPage.qml:84: the opposite of null is true).
* A `StopDiscovery` that fails in `Pause` is not repeated, as `paused` is set
  (scan.go:463): a watcher started over a link may then discover under it for
  as long as it lasts. A connect repeats it and waits.
* On the front page, a refresh within the 2.5 s of the settle timer keeps the
  timer from re-reading, and the lock command of the cover is never re-read.

## 6. Not modelled, and what is left

* The beacon that a later presence mode inherits from a cancelled loop
  (main.go:1169): targets of a connect would have to be told apart. `Peek`,
  which nothing but tests calls.
* `write_atomic` inside: temporary file, rename and sync; the model has its
  outcomes. Sanitizing of values, and the backup of a corrupt file.
* The raw HCI backend and the one-shot binaries: no presence mode, no state
  shared with it.
* `commands.rs` (one comparison for each argument), `share.rs`, the C ABI, the
  helper daemon, logs, the other pages, translations and packaging: no state, or
  only formatting. The vendored `vehicle-command` library: `SessionChild` models
  its effect.

The program is written in Go, Rust, C++, QML and JavaScript. By extension, most
of the `.ts` files of the repository are Qt translations (XML), with one text
for each language; nothing in them can be modelled, so a coverage that counts
them as implementation stays low however much of the program is mapped. Mapped
(apart from tests) are three fifths of `main.go`, half of `core.rs`,
`connection.go`, `gatt.go`, `scan.go` and `teslaclient.cpp`, a quarter of
`session_client.rs`, most of `navigate.go` and `pairing.go`, and the logic of
the front page and the cover.

Left for later: `SessionChild`'s scanner shown to be implemented by
`Watcher`; `SessionChild` shown to implement the child of `PhoneKeyCore`.
