---------------------------- MODULE SessionChild ----------------------------
(***************************************************************************)
(* The tesla-session child process (helper/session): one `session` object *)
(* whose mutex `mu` is shared by                                           *)
(*   - the request loop, which serves one request of the Rust core at a    *)
(*     time (serve.go, dispatch in main.go, pairing.go, navigate.go),      *)
(*   - the presence loops: the current one and cancelled ones that have    *)
(*     not returned yet (presenceLoop, runPresenceWatcher),                *)
(*   - one AuthenticationRequest responder for each BLE link,              *)
(*   - the callbacks of the idle timer.                                    *)
(* A critical section is one action, except the two during which the rest  *)
(* of the process visibly moves: connecting to the vehicle and starting a  *)
(* watcher hold mu over several steps.  Time is abstract: a timer may fire *)
(* whenever it is armed.  The bluez backend is modelled; the raw HCI one   *)
(* has no presence mode.                                                   *)
(*                                                                         *)
(* An operator named X_Suffix is a variant of the operator X that no       *)
(* action uses: X as it would read with a plausible mistake, for checking  *)
(* that a property notices it.                                             *)
(***************************************************************************)
EXTENDS Naturals, FiniteSets

CONSTANTS Loops,      \* the presence loops that may ever be started
          Links,      \* the BLE links that may ever be established
          Requests,   \* the request kinds the core sends
          InboxCap,   \* capacity of an auth inbox (64 in the code)
          MaxFired,   \* idle callbacks that may wait for mu at one time
          Requester,  \* the request loop, as a holder of mu
          None        \* nil

Commands    == {"command", "state", "body-controller-state"}
RequestKind == Commands \cup
    {"pair", "navigate", "keygen", "presence-start", "presence-stop"}

ASSUME Constants ==
    /\ Requests \subseteq RequestKind
    /\ InboxCap \in Nat \ {0}
    /\ MaxFired \in Nat
    /\ None \notin Loops \cup Links
    /\ Requester \notin Loops \cup {None}

VCSEC == "VCSEC"
INFOTAINMENT == "INFOTAINMENT"
Domains == {VCSEC, INFOTAINMENT}

\* sessionDomains: the domains StartSession is asked for.  {} stands for nil,
\* "all domains"; presence and navigate pass the empty command name.
sessionDomains(cmd) ==
    CASE cmd = "state" -> {INFOTAINMENT}
      [] cmd \in {"presence", "navigate", "body-controller-state"} -> {VCSEC}
      [] OTHER -> {}

VARIABLES
    mu,            \* holder of session.mu between two of its steps, or None
    phase,         \* what that holder is waiting for
    request,       \* request being served: "idle", a kind, or "closed"
    bus,           \* the system bus is open (s.bluez is not nil)
    car,           \* the cached link (s.car and s.conn), or None
    linkUp,        \* BlueZ has not reported that link disconnected
    sessions,      \* domains with an established session on that link
    links,         \* links established so far
    tap,           \* link whose inbox is authInbox; its authCancel is pending
    queue,         \* AuthenticationRequests waiting in each link's inbox
    responder,     \* state of each link's authResponderLoop
    settled,       \* the link has been up for insideSettleDuration
    vcsec,         \* last GET_STATUS: "due", or fresh and "absent"/"present"
    insideEmitted,
    idle,          \* idleTimer is pending
    fired,         \* idle callbacks that fired and wait for mu
    presence,      \* loop whose cancel function is presenceCancel, or None
    generation,    \* loop whose generation equals presenceGeneration, or None
    cancelled,     \* loops whose context is cancelled
    started,       \* loops started so far
    beacon,        \* loop whose fresh, strong result is lastBeacon, or None
    backoff,       \* connectBackoffUntil lies in the future
    watcher,       \* loop whose Watcher is s.watcher, or None
    paused,        \* Watcher.paused (TRUE when the loop has no live watcher)
    discovering,   \* the adapter's discovery session of this D-Bus client
    pc, snap,      \* a loop's position, and the link in its last snapshot
    seen,          \* its `near`, split by whether farTimeout has passed
    told           \* last link status the events gave the parent

lockVars  == <<mu, phase>>
linkVars  == <<car, linkUp, sessions>>
authVars  == <<queue, responder>>
visitVars == <<settled, vcsec, insideEmitted>>
modeVars  == <<presence, generation, cancelled, started>>
scanVars  == <<watcher, paused, discovering>>
loopVars  == <<pc, snap, seen>>
sessionVars  == <<bus, linkVars, links, tap, authVars, visitVars, idle, fired>>
presenceVars == <<modeVars, beacon, backoff, scanVars>>
vars == <<lockVars, request, sessionVars, presenceVars, loopVars, told>>

Phase == {"none", "gatt", "handshake"}
Position ==
    {"new", "init", "watch", "opening", "watching", "rewatch", "rewatching",
     "run", "top", "enter",
     "hold", "held", "prime", "look", "wait", "sawNear", "sawNone", "arrive",
     "target", "connect", "failed", "near", "depart", "far", "pause", "leave",
     "exit", "stopped", "done"}

LockType ==
    /\ mu \in Loops \cup {None, Requester}
    /\ phase \in Phase
    /\ request \in RequestKind \cup {"idle", "closed"}
LinkType ==
    /\ bus \in BOOLEAN
    /\ car \in Links \cup {None}
    /\ linkUp \in BOOLEAN
    /\ sessions \subseteq Domains
    /\ links \subseteq Links
    /\ tap \in Links \cup {None}
AuthType ==
    /\ queue \in [Links -> 0 .. InboxCap]
    /\ responder \in [Links -> {"none", "listen", "hold", "done"}]
VisitType ==
    /\ settled \in BOOLEAN
    /\ vcsec \in {"due", "absent", "present"}
    /\ insideEmitted \in BOOLEAN
    /\ idle \in BOOLEAN
    /\ fired \in 0 .. MaxFired
ModeType ==
    /\ presence \in Loops \cup {None}
    /\ generation \in Loops \cup {None}
    /\ cancelled \subseteq Loops
    /\ started \subseteq Loops
    /\ beacon \in Loops \cup {None}
    /\ backoff \in BOOLEAN
ScanType ==
    /\ watcher \in Loops \cup {None}
    /\ paused \in [Loops -> BOOLEAN]
    /\ discovering \in BOOLEAN
LoopType ==
    /\ pc \in [Loops -> Position]
    /\ snap \in [Loops -> Links \cup {None}]
    /\ seen \in [Loops -> {"away", "near", "far"}]
    /\ told \in {"nothing", "near", "lost"}
TypeOK ==
    /\ LockType /\ LinkType /\ AuthType /\ VisitType
    /\ ModeType /\ ScanType /\ LoopType

Init ==
    /\ mu = None /\ phase = "none" /\ request = "idle" /\ bus = FALSE
    /\ car = None /\ linkUp = FALSE /\ sessions = {} /\ links = {}
    /\ tap = None
    /\ queue = [l \in Links |-> 0]
    /\ responder = [l \in Links |-> "none"]
    /\ settled = FALSE /\ vcsec = "due" /\ insideEmitted = FALSE
    /\ idle = FALSE /\ fired = 0
    /\ presence = None /\ generation = None /\ cancelled = {} /\ started = {}
    /\ beacon = None /\ backoff = FALSE
    /\ watcher = None
    /\ paused = [g \in Loops |-> TRUE]
    /\ discovering = FALSE
    /\ pc = [g \in Loops |-> "new"]
    /\ snap = [g \in Loops |-> None]
    /\ seen = [g \in Loops |-> "away"]
    /\ told = "nothing"

-----------------------------------------------------------------------------
(* Helpers of the critical sections.                                       *)

Free == mu = None
Unlock == mu' = None /\ phase' = "none"

closeLink_KeepsTap ==
    /\ car' = None /\ linkUp' = FALSE /\ sessions' = {}
    /\ settled' = FALSE /\ vcsec' = "due" /\ insideEmitted' = FALSE
    /\ UNCHANGED tap
closeLink_KeepsInside ==
    /\ tap' = None
    /\ car' = None /\ linkUp' = FALSE /\ sessions' = {}
    /\ settled' = FALSE /\ vcsec' = "due" /\ UNCHANGED insideEmitted

\* teardownLocked, stopAuthTapLocked: close the link and forget all about it.
closeLink ==
    /\ tap' = None
    /\ car' = None /\ linkUp' = FALSE /\ sessions' = {}
    /\ settled' = FALSE /\ vcsec' = "due" /\ insideEmitted' = FALSE
teardownLocked == closeLink /\ idle' = FALSE

resetIdleTimerLocked_ByGeneration == idle' = (generation = None)

\* resetIdleTimerLocked: presence mode suppresses the timer.
resetIdleTimerLocked == idle' = (presence = None)

\* emitPresenceDisconnectedLocked
emitPresenceDisconnectedLocked ==
    told' = IF presence = None THEN told ELSE "lost"

\* stopPresenceLocked; `cancelled` is what presenceCancel() does.  The parent
\* asked for it, so no earlier event stands for the link any more.
stopPresenceLocked ==
    /\ presence' = None
    /\ cancelled' = cancelled \cup ({presence} \ {None})
    /\ generation' = None
    /\ beacon' = None
    /\ backoff' = FALSE
    /\ told' = "nothing"
    /\ UNCHANGED started

pauseWatcher_OnlyStops ==
    /\ discovering' = FALSE
    /\ UNCHANGED <<watcher, paused>>

\* s.watcher.Pause before a connect; tryConnect also stops the discovery.
pauseWatcher ==
    /\ paused' = [g \in Loops |-> paused[g] \/ g = watcher]
    /\ discovering' = FALSE
    /\ UNCHANGED watcher

stopWatcher_KeepsScanning(g) ==
    /\ paused' = [paused EXCEPT ![g] = TRUE]
    /\ UNCHANGED discovering

\* Watcher.Stop of loop g's watcher.
stopWatcher(g) ==
    /\ paused' = [paused EXCEPT ![g] = TRUE]
    /\ discovering' = FALSE

ctxErr_Background(g) == FALSE

\* ctx.Err() # nil, for the context of loop g.
ctxErr(g) == g \in cancelled

current_PresenceOn(g) == presence # None

\* The presence mode of loop g has neither been stopped nor replaced.
current(g) == generation = g

dropped_Unnoticed == FALSE

\* The cached link is one that BlueZ reported disconnected.
dropped == car # None /\ ~linkUp

\* presenceTargetReadyLocked of a result the given loops may have delivered.
targetReady(by) == presence = None \/ beacon \in by

Goto(g, to) == pc' = [pc EXCEPT ![g] = to]
Near(g, to) == seen' = [seen EXCEPT ![g] = to]

\* ensureConnectedLocked, its first part without a live link: open the bus,
\* pause the watcher, call bluez.Connect.  holder keeps mu until it returns.
beginConnect(holder) ==
    /\ car = None
    /\ mu' = holder /\ phase' = "gatt" /\ bus' = TRUE
    /\ pauseWatcher

\* ensureAuthTapLocked: start the responder of link l unless one is running.
ensureAuthTapLocked(l) ==
    IF tap = None
      THEN tap' = l /\ responder' = [responder EXCEPT ![l] = "listen"]
      ELSE UNCHANGED <<tap, responder>>

\* bluez.Connect returned link l: cache it and attach the auth tap before
\* the handshake.  A pair request connects without a tap.
linkEstablished(l, tapped) ==
    /\ l \notin links
    /\ links' = links \cup {l}
    /\ car' = l /\ linkUp' = TRUE /\ UNCHANGED sessions
    /\ IF tapped THEN ensureAuthTapLocked(l) ELSE UNCHANGED <<tap, responder>>
    /\ phase' = "handshake" /\ UNCHANGED mu

-----------------------------------------------------------------------------
(* The request loop.                                                       *)

Accept(cmd) == cmd \in Requests /\ request = "idle" /\ Free

\* dispatch of a command over the live link: a command that names a domain
\* handshakes it, which needs the vehicle unless it is already established;
\* the idle timer restarts whether the command succeeds or fails.
CommandOnLiveLink(cmd) ==
    /\ Accept(cmd) /\ cmd \in Commands
    /\ car # None
    /\ linkUp \/ sessionDomains(cmd) \subseteq sessions
    /\ sessions' = sessions \cup sessionDomains(cmd)
    /\ ensureAuthTapLocked(car)
    /\ resetIdleTimerLocked
    /\ UNCHANGED <<lockVars, request, bus, car, linkUp, links, queue,
                   visitVars, fired, presenceVars, loopVars, told>>

\* dispatchPair over the live link: add-key-request, then torn down.
PairOnLiveLink ==
    /\ Accept("pair")
    /\ car # None
    /\ teardownLocked
    /\ UNCHANGED <<lockVars, request, bus, links, authVars, fired,
                   presenceVars, loopVars, told>>

NavigateOnLiveLink_Locked ==
    /\ Accept("navigate")
    /\ car # None
    /\ linkUp \/ sessionDomains("navigate") \subseteq sessions
    /\ sessions' = sessions \cup sessionDomains("navigate")
    /\ ensureAuthTapLocked(car)
    /\ request' = "navigate"
    /\ mu' = Requester
    /\ UNCHANGED <<phase, bus, car, linkUp, links, queue, visitVars, idle,
                   fired, presenceVars, loopVars, told>>

\* dispatchNavigate over the live link, up to the unlock before executing.
NavigateOnLiveLink ==
    /\ Accept("navigate")
    /\ car # None
    /\ linkUp \/ sessionDomains("navigate") \subseteq sessions
    /\ sessions' = sessions \cup sessionDomains("navigate")
    /\ ensureAuthTapLocked(car)
    /\ request' = "navigate"
    /\ UNCHANGED <<bus, lockVars, car, linkUp, links, queue, visitVars, idle,
                   fired, presenceVars, loopVars, told>>

\* Any of them without a live link.  While presence mode runs it may only
\* connect to a beacon the watcher reported strong and recently.
RequestConnect(cmd) ==
    /\ Accept(cmd) /\ cmd \in Commands \cup {"pair", "navigate"}
    /\ targetReady(Loops)
    /\ beginConnect(Requester)
    /\ request' = cmd
    /\ UNCHANGED <<linkVars, links, tap, authVars, visitVars, idle, fired,
                   modeVars, beacon, backoff, loopVars, told>>

RequestGattFails ==
    /\ mu = Requester /\ phase = "gatt"
    /\ Unlock /\ request' = "idle"
    /\ UNCHANGED <<sessionVars, presenceVars, loopVars, told>>

RequestGattUp(l) ==
    /\ mu = Requester /\ phase = "gatt"
    /\ linkEstablished(l, request # "pair")
    /\ UNCHANGED <<request, bus, queue, visitVars, idle, fired, presenceVars,
                   loopVars, told>>

\* StartSession failed, or add-key-request is over: the link is torn down.
RequestDropsLink ==
    /\ mu = Requester /\ phase = "handshake"
    /\ teardownLocked
    /\ Unlock /\ request' = "idle"
    /\ UNCHANGED <<bus, links, authVars, fired, presenceVars, loopVars, told>>

\* StartSession succeeded.  navigate unlocks before it executes; any other
\* command executes in the same critical section.
RequestSessionUp ==
    /\ mu = Requester /\ phase = "handshake" /\ request # "pair"
    /\ sessions' = IF sessionDomains(request) = {} THEN Domains
                                                   ELSE sessionDomains(request)
    /\ Unlock
    /\ IF request = "navigate"
         THEN UNCHANGED <<request, idle>>
         ELSE request' = "idle" /\ resetIdleTimerLocked
    /\ UNCHANGED <<bus, car, linkUp, links, tap, authVars, visitVars, fired,
                   presenceVars, loopVars, told>>

\* The second critical section of dispatchNavigate.  Only success restarts
\* the idle timer, and infotainment actions need an infotainment session.
NavigateExecute ==
    /\ request = "navigate" /\ Free
    /\ request' = "idle"
    /\ \/ UNCHANGED idle
       \/ /\ car # None /\ linkUp /\ INFOTAINMENT \in sessions
          /\ resetIdleTimerLocked
    /\ UNCHANGED <<bus, lockVars, linkVars, links, tap, authVars, visitVars,
                   fired, presenceVars, loopVars, told>>

\* dispatchKeygen -f replaced the key: no session may keep using the old one.
ForcedKeygen ==
    /\ Accept("keygen")
    /\ stopPresenceLocked /\ teardownLocked
    /\ UNCHANGED <<lockVars, request, bus, links, authVars, fired, scanVars,
                   loopVars>>

PresenceStart(g) ==
    /\ Accept("presence-start")
    /\ presence = None
    /\ g \notin started
    /\ started' = started \cup {g}
    /\ presence' = g /\ generation' = g /\ UNCHANGED cancelled
    /\ Goto(g, "init") /\ UNCHANGED <<snap, seen>>
    /\ UNCHANGED <<lockVars, request, sessionVars, beacon, backoff, scanVars,
                   told>>

PresenceStop ==
    /\ Accept("presence-stop")
    /\ stopPresenceLocked /\ teardownLocked
    /\ UNCHANGED <<lockVars, request, bus, links, authVars, fired, scanVars,
                   loopVars>>

\* shutdown, or the signal handler: the parent is gone or asked us to exit.
Shutdown ==
    /\ request # "closed" /\ Free
    /\ request' = "closed" /\ bus' = FALSE
    /\ stopPresenceLocked /\ teardownLocked
    /\ UNCHANGED <<lockVars, links, authVars, fired, scanVars, loopVars>>

RequestLoop ==
    \/ \E cmd \in Requests : CommandOnLiveLink(cmd) \/ RequestConnect(cmd)
    \/ PairOnLiveLink
    \/ NavigateOnLiveLink
    \/ RequestGattFails
    \/ \E l \in Links : RequestGattUp(l)
    \/ RequestDropsLink
    \/ RequestSessionUp
    \/ NavigateExecute
    \/ ForcedKeygen
    \/ \E g \in Loops : PresenceStart(g)
    \/ PresenceStop
    \/ Shutdown

-----------------------------------------------------------------------------
(* The idle timer.                                                         *)

IdleTimerFires ==
    /\ idle /\ fired < MaxFired
    /\ idle' = FALSE /\ fired' = fired + 1
    /\ UNCHANGED <<lockVars, request, bus, linkVars, links, tap, authVars,
                   visitVars, presenceVars, loopVars, told>>

\* The callback got mu.  Stop() cannot call back one that already fired.
IdleTeardown ==
    /\ fired > 0 /\ Free
    /\ fired' = fired - 1
    /\ teardownLocked
    /\ UNCHANGED <<lockVars, request, bus, links, authVars, presenceVars,
                   loopVars, told>>

-----------------------------------------------------------------------------
(* The AuthenticationRequest responders.                                   *)

Datagram_Unbounded(l) ==
    /\ car = l /\ tap = l /\ linkUp
    /\ queue' = [queue EXCEPT ![l] = @ + 1]
    /\ UNCHANGED <<lockVars, request, bus, linkVars, links, tap, responder,
                   visitVars, idle, fired, presenceVars, loopVars, told>>

\* The observer of the live link queues a request, dropping the oldest one
\* when the inbox is full.
Datagram(l) ==
    /\ car = l /\ tap = l /\ linkUp
    /\ queue' = [queue EXCEPT ![l] = IF @ = InboxCap THEN @ ELSE @ + 1]
    /\ UNCHANGED <<lockVars, request, bus, linkVars, links, tap, responder,
                   visitVars, idle, fired, presenceVars, loopVars, told>>

AuthTake(l) ==
    /\ responder[l] = "listen" /\ queue[l] > 0
    /\ queue' = [queue EXCEPT ![l] = @ - 1]
    /\ responder' = [responder EXCEPT ![l] = "hold"]
    /\ UNCHANGED <<lockVars, request, bus, linkVars, links, tap, visitVars,
                   idle, fired, presenceVars, loopVars, told>>

AuthReturns_NoCancel(l) ==
    /\ responder[l] = "hold" /\ Free
    /\ tap # l
    /\ responder' = [responder EXCEPT ![l] = "done"]
    /\ UNCHANGED <<lockVars, request, bus, linkVars, links, tap, queue,
                   visitVars, idle, fired, presenceVars, loopVars, told>>

AuthReturns(l) ==
    /\ \/ responder[l] = "listen"
       \/ responder[l] = "hold" /\ Free
    /\ tap # l
    /\ responder' = [responder EXCEPT ![l] = "done"]
    /\ UNCHANGED <<lockVars, request, bus, linkVars, links, tap, queue,
                   visitVars, idle, fired, presenceVars, loopVars, told>>

authAnswering_AnyInbox(l) == responder[l] = "hold" /\ Free

\* The responder of link l has mu and a request to answer on the live link.
authAnswering(l) == responder[l] = "hold" /\ Free /\ tap = l

\* The response was sent, or failed without proving the session lost.
AuthAnswered(l) ==
    /\ authAnswering(l)
    /\ car = None \/ VCSEC \in sessions
    /\ responder' = [responder EXCEPT ![l] = "listen"]
    /\ UNCHANGED <<lockVars, request, bus, linkVars, links, tap, queue,
                   visitVars, idle, fired, presenceVars, loopVars, told>>

\* sessionDroppedError: the link is gone or has no VCSEC session.
AuthDropsSession(l) ==
    /\ authAnswering(l)
    /\ car # None /\ (~linkUp \/ VCSEC \notin sessions)
    /\ responder' = [responder EXCEPT ![l] = "listen"]
    /\ teardownLocked
    /\ emitPresenceDisconnectedLocked
    /\ UNCHANGED <<lockVars, request, bus, links, queue, fired, presenceVars,
                   loopVars>>

Responder(l) ==
    AuthTake(l) \/ AuthReturns(l) \/ AuthAnswered(l) \/ AuthDropsSession(l)

-----------------------------------------------------------------------------
(* presenceLoop and runPresenceWatcher of loop g.                          *)

\* ensureBluezLocked, which can only fail to open a bus that is not open.
LoopOpensBus(g) ==
    /\ pc[g] = "init" /\ Free
    /\ \/ bus' = TRUE /\ Goto(g, "watch") /\ UNCHANGED told
       \/ ~bus /\ UNCHANGED bus /\ Goto(g, "exit") /\ told' = "lost"
    /\ UNCHANGED <<lockVars, request, linkVars, links, tap, authVars,
                   visitVars, idle, fired, presenceVars, snap, seen>>

LoopOpensWatcher(g) ==
    /\ pc[g] = "watch" /\ ~ctxErr(g)
    /\ Goto(g, "opening")
    /\ UNCHANGED <<lockVars, request, sessionVars, presenceVars, snap, seen,
                   told>>

\* newWatcher: discovery starts while mu is held.  A cancelled context makes
\* it fail; the first watcher is retried, a failed restart ends the watcher.
\* Without a bus, s.bluez.Watch panics.
WatchStarts(g) ==
    /\ pc[g] \in {"opening", "rewatch"} /\ Free /\ bus /\ ~ctxErr(g)
    /\ Goto(g, IF pc[g] = "opening" THEN "watching" ELSE "rewatching")
    /\ mu' = g /\ UNCHANGED phase
    /\ discovering' = TRUE
    /\ UNCHANGED <<request, sessionVars, modeVars, beacon, backoff, watcher,
                   paused, snap, seen, told>>

\* ... and is paused again before mu is released if a link is up.
WatchStarted(g) ==
    /\ pc[g] \in {"watching", "rewatching"}
    /\ Goto(g, IF pc[g] = "watching" THEN "run" ELSE "top")
    /\ Unlock
    /\ watcher' = g
    /\ paused' = [paused EXCEPT ![g] = car # None]
    /\ discovering' = (discovering /\ car = None)
    /\ UNCHANGED <<request, sessionVars, modeVars, beacon, backoff, snap, seen,
                   told>>

WatchFails(g) ==
    /\ pc[g] \in {"opening", "rewatch"} /\ bus
    /\ Goto(g, IF pc[g] = "opening" THEN "watch" ELSE "leave")
    /\ told' = "lost"
    /\ UNCHANGED <<lockVars, request, sessionVars, presenceVars, snap, seen>>

\* runPresenceWatcher registers its watcher once more.
LoopRuns(g) ==
    /\ pc[g] = "run" /\ Free
    /\ watcher' = g
    /\ Goto(g, "top")
    /\ UNCHANGED <<lockVars, request, sessionVars, modeVars, beacon, backoff,
                   paused, discovering, snap, seen, told>>

\* A select on ctx.Done(), or the test of ctx.Err().  What the loop sees at its
\* top may no longer be true when it has mu.
LoopTestsContext(g) ==
    /\ \/ ctxErr(g) /\ pc[g] \in {"top", "held", "pause"} /\ Goto(g, "leave")
       \/ ctxErr(g) /\ pc[g] = "watch" /\ Goto(g, "exit")
       \/ ~ctxErr(g) /\ pc[g] = "top" /\ Goto(g, "enter")
    /\ UNCHANGED <<lockVars, request, sessionVars, presenceVars, snap, seen,
                   told>>

\* Past the test: snapshot the link, or find it dropped.
LoopSnapshots(g) ==
    /\ pc[g] = "enter" /\ Free
    /\ ~dropped
    /\ IF car = None
         THEN Goto(g, "look") /\ UNCHANGED <<snap, seen>>
         ELSE Goto(g, "hold") /\ Near(g, "near")
              /\ snap' = [snap EXCEPT ![g] = car]
    /\ UNCHANGED <<lockVars, request, sessionVars, presenceVars, told>>

LoopFindsDropped(g) ==
    /\ pc[g] = "enter" /\ Free
    /\ dropped
    /\ teardownLocked
    /\ emitPresenceDisconnectedLocked
    /\ Goto(g, "look")
    /\ UNCHANGED <<lockVars, request, bus, links, authVars, fired,
                   presenceVars, snap, seen>>

\* GATT is up: pause the watcher without holding mu.
HoldPauses(g) ==
    /\ pc[g] = "hold"
    /\ Goto(g, "held")
    /\ paused' = [paused EXCEPT ![g] = TRUE]
    /\ discovering' = (discovering /\ paused[g])
    /\ UNCHANGED <<lockVars, request, sessionVars, modeVars, beacon, backoff,
                   watcher, snap, seen, told>>

\* Dropped() fired, or BlueZ reported Connected=false twice: tear down, but
\* only if the link of the snapshot is still the live one.
HeldLinkDropped(g) ==
    /\ pc[g] = "held" /\ Free
    /\ snap[g] # car \/ ~linkUp
    /\ IF snap[g] = car THEN teardownLocked /\ emitPresenceDisconnectedLocked
                        ELSE UNCHANGED <<linkVars, tap, visitVars, idle, told>>
    /\ Goto(g, "top")
    /\ UNCHANGED <<lockVars, request, bus, links, authVars, fired,
                   presenceVars, snap, seen>>

HeldTick(g) ==
    /\ pc[g] = "held"
    /\ Goto(g, "prime")
    /\ UNCHANGED <<lockVars, request, sessionVars, presenceVars, snap, seen,
                   told>>

\* emitInsideLocked, with the GET_STATUS result the critical section ends with.
emitInsideLocked(status) ==
    insideEmitted' = \/ insideEmitted
                     \/ presence # None /\ settled /\ status = "present"

\* primeVCSECLocked got an answer, or failed without losing the session.
primed(g, status) ==
    \/ status \in {"absent", "present"} /\ linkUp /\ ~ctxErr(g)
    \/ /\ status = IF vcsec = "due" THEN "due" ELSE "absent"
       /\ ~ctxErr(g)

\* It lost the session; a cancelled context counts as a lost session too.
\* The caller still resets the idle timer.
primeDropped(g) ==
    /\ ~linkUp \/ ctxErr(g)
    /\ closeLink
    /\ resetIdleTimerLocked

\* The periodic critical section of the hold branch.
HoldPrimes(g) ==
    /\ pc[g] = "prime" /\ Free
    /\ \/ car = None
          /\ UNCHANGED <<linkVars, tap, visitVars, idle, told>>
       \/ \E status \in {"due", "absent", "present"} :
            /\ car # None
            /\ IF vcsec = "due" THEN primed(g, status) ELSE status = vcsec
            /\ vcsec' = status /\ UNCHANGED settled
            /\ emitInsideLocked(status)
            /\ resetIdleTimerLocked
            /\ UNCHANGED <<linkVars, tap, told>>
       \/ /\ car # None /\ vcsec = "due"
          /\ primeDropped(g) /\ emitPresenceDisconnectedLocked
    /\ Goto(g, "top")
    /\ UNCHANGED <<lockVars, request, bus, links, authVars, fired,
                   presenceVars, snap, seen>>

LoopLooks_Blindly(g) ==
    /\ pc[g] = "look" /\ Free
    /\ Goto(g, "wait") /\ paused' = [paused EXCEPT ![g] = FALSE]
    /\ UNCHANGED <<lockVars, request, sessionVars, modeVars, beacon, backoff,
                   watcher, discovering, snap, seen, told>>

\* No GATT in the snapshot: unless a command connected meanwhile, scan.
LoopLooks(g) ==
    /\ pc[g] = "look" /\ Free
    /\ IF car # None
         THEN Goto(g, "top") /\ UNCHANGED paused
         ELSE Goto(g, "wait") /\ paused' = [paused EXCEPT ![g] = FALSE]
    /\ UNCHANGED <<lockVars, request, sessionVars, modeVars, beacon, backoff,
                   watcher, discovering, snap, seen, told>>

\* ensureDiscovering inside Wait, under discoveryMu but not under mu.
WaitDiscovers(g) ==
    /\ pc[g] = "wait" /\ ~paused[g] /\ ~discovering
    /\ discovering' = TRUE
    /\ UNCHANGED <<lockVars, request, sessionVars, modeVars, beacon, backoff,
                   watcher, paused, loopVars, told>>

\* Wait returns a strong fresh advertisement, or nothing usable.
WaitReturns(g) ==
    /\ pc[g] = "wait"
    /\ \/ ~paused[g] /\ Goto(g, "sawNear")
       \/ Goto(g, "sawNone")
    /\ UNCHANGED <<lockVars, request, sessionVars, presenceVars, snap, seen,
                   told>>

\* It fails; the fifth time in a row the watcher is stopped and replaced.
WaitFails(g) ==
    /\ pc[g] = "wait"
    /\ \/ Goto(g, "top") /\ UNCHANGED <<paused, discovering>>
       \/ /\ Goto(g, "rewatch")
          /\ stopWatcher(g)
    /\ UNCHANGED <<lockVars, request, sessionVars, modeVars, beacon, backoff,
                   watcher, snap, seen, told>>

\* Store lastBeacon and take presenceStep's verdict.  farTimeout was compared
\* with the time at which the loop began to wait: see FarTimeoutPasses.
LoopSteps(g) ==
    /\ Free
    /\ \/ /\ pc[g] = "sawNear"
          /\ beacon' = g
          /\ Near(g, "near") /\ Goto(g, "arrive")
       \/ /\ pc[g] = "sawNone"
          /\ beacon' = None
          /\ IF seen[g] = "far"
               THEN Near(g, "away") /\ Goto(g, "depart")
               ELSE UNCHANGED seen /\ Goto(g, "pause")
    /\ UNCHANGED <<lockVars, request, sessionVars, modeVars, backoff, scanVars,
                   snap, told>>

\* Arrive and StayNear: no attempt while the connect backoff is active.
LoopReadsBackoff(g) ==
    /\ pc[g] = "arrive" /\ Free
    /\ Goto(g, IF backoff THEN "pause" ELSE "target")
    /\ UNCHANGED <<lockVars, request, sessionVars, presenceVars, snap, seen,
                   told>>

\* The error path after a connect attempt of the loop.
connectFailed(g) ==
    /\ backoff' = TRUE
    /\ Near(g, "away") /\ Goto(g, "failed")

\* ... and its success path once the session is up: prime it, report near.
sessionReady(g, domains) ==
    \/ \E status \in {"due", "absent", "present"} :
         /\ primed(g, status)
         /\ vcsec' = status /\ UNCHANGED <<settled, insideEmitted>>
         /\ sessions' = domains /\ UNCHANGED <<car, linkUp, tap>>
         /\ resetIdleTimerLocked
         /\ backoff' = FALSE
         /\ Goto(g, "near") /\ UNCHANGED <<seen, told>>
    \/ /\ primeDropped(g) /\ emitPresenceDisconnectedLocked
       /\ connectFailed(g)

\* A connect attempt that finds a live link only adds the VCSEC handshake,
\* which a cancelled context fails unless that session is established.
LoopAdoptsLink(g) ==
    /\ pc[g] = "target" /\ Free
    /\ car # None
    /\ \/ /\ VCSEC \in sessions \/ (linkUp /\ ~ctxErr(g))
          /\ sessionReady(g, sessions \cup {VCSEC})
       \/ /\ VCSEC \notin sessions
          /\ connectFailed(g)
          /\ UNCHANGED <<linkVars, tap, visitVars, idle, told>>
    /\ UNCHANGED <<lockVars, request, bus, links, authVars, fired, modeVars,
                   beacon, scanVars, snap>>

\* Without one it needs its own result to be the recent strong beacon.
LoopRefused(g) ==
    /\ pc[g] = "target" /\ Free
    /\ car = None /\ ~targetReady({g})
    /\ connectFailed(g)
    /\ UNCHANGED <<lockVars, request, sessionVars, modeVars, beacon, scanVars,
                   snap, told>>

LoopConnects(g) ==
    /\ pc[g] = "target" /\ Free
    /\ targetReady({g})
    /\ beginConnect(g)
    /\ Goto(g, "connect")
    /\ UNCHANGED <<request, linkVars, links, tap, authVars, visitVars, idle,
                   fired, modeVars, beacon, backoff, snap, seen, told>>

LoopGattFails(g) ==
    /\ mu = g /\ phase = "gatt"
    /\ Unlock /\ connectFailed(g)
    /\ UNCHANGED <<request, sessionVars, modeVars, beacon, scanVars, snap,
                   told>>

LoopGattUp_Background(g, l) ==
    /\ mu = g /\ phase = "gatt"
    /\ linkEstablished(l, TRUE)
    /\ UNCHANGED <<request, bus, queue, visitVars, idle, fired, presenceVars,
                   loopVars, told>>

LoopGattUp(g, l) ==
    /\ mu = g /\ phase = "gatt" /\ ~ctxErr(g)
    /\ linkEstablished(l, TRUE)
    /\ UNCHANGED <<request, bus, queue, visitVars, idle, fired, presenceVars,
                   loopVars, told>>

LoopSessionFails(g) ==
    /\ mu = g /\ phase = "handshake"
    /\ teardownLocked
    /\ Unlock /\ connectFailed(g)
    /\ UNCHANGED <<request, bus, links, authVars, fired, modeVars, beacon,
                   scanVars, snap, told>>

LoopSessionUp(g) ==
    /\ mu = g /\ phase = "handshake"
    /\ sessionReady(g, {VCSEC})
    /\ Unlock
    /\ UNCHANGED <<request, bus, links, authVars, fired, modeVars, beacon,
                   scanVars, snap>>

LoopReports_SilentFar(g) ==
    /\ \/ pc[g] = "near" /\ told' = "near" /\ Goto(g, "pause")
       \/ pc[g] = "failed" /\ told' = "lost" /\ Goto(g, "top")
       \/ pc[g] = "far" /\ UNCHANGED told /\ Goto(g, "pause")
       \/ pc[g] = "stopped" /\ told' = "lost" /\ Goto(g, "done")
    /\ UNCHANGED <<lockVars, request, sessionVars, presenceVars, snap, seen>>

\* presence_near, presence_error, presence_far and presence_stopped are
\* emitted after mu was released.
LoopReports(g) ==
    /\ \/ pc[g] = "near" /\ told' = "near" /\ Goto(g, "pause")
       \/ pc[g] = "failed" /\ told' = "lost" /\ Goto(g, "top")
       \/ pc[g] = "far" /\ told' = "lost" /\ Goto(g, "pause")
       \/ pc[g] = "stopped" /\ told' = "lost" /\ Goto(g, "done")
    /\ UNCHANGED <<lockVars, request, sessionVars, presenceVars, snap, seen>>

\* Departure releases the session.
LoopDeparts(g) ==
    /\ pc[g] = "depart" /\ Free
    /\ backoff' = FALSE
    /\ teardownLocked
    /\ Goto(g, "far")
    /\ UNCHANGED <<lockVars, request, bus, links, authVars, fired, modeVars,
                   beacon, scanVars, snap, seen, told>>

\* pauseAfterBeacon elapsed.
LoopPaused(g) ==
    /\ pc[g] = "pause" /\ ~ctxErr(g)
    /\ Goto(g, "top")
    /\ UNCHANGED <<lockVars, request, sessionVars, presenceVars, snap, seen,
                   told>>

\* runPresenceWatcher returns: unregister and stop the watcher; the next
\* round of presenceLoop starts with a fresh `near`.
LoopLeaves(g) ==
    /\ pc[g] = "leave" /\ Free
    /\ watcher' = IF watcher = g THEN None ELSE watcher
    /\ stopWatcher(g)
    /\ Near(g, "away") /\ Goto(g, "watch")
    /\ UNCHANGED <<lockVars, request, sessionVars, modeVars, beacon, backoff,
                   snap, told>>

\* The deferred cleanup: only the current generation clears presence mode.
LoopExits(g) ==
    /\ pc[g] = "exit" /\ Free
    /\ presence' = IF current(g) THEN None ELSE presence
    /\ Goto(g, IF current(g) THEN "stopped" ELSE "done")
    /\ UNCHANGED <<lockVars, request, sessionVars, generation, cancelled,
                   started, beacon, backoff, scanVars, snap, seen, told>>

Loop(g) ==
    \/ LoopOpensBus(g) \/ LoopOpensWatcher(g) \/ WatchStarts(g)
    \/ WatchStarted(g) \/ WatchFails(g) \/ LoopRuns(g) \/ LoopTestsContext(g)
    \/ LoopSnapshots(g) \/ LoopFindsDropped(g) \/ HoldPauses(g)
    \/ HeldLinkDropped(g) \/ HeldTick(g) \/ HoldPrimes(g) \/ LoopLooks(g)
    \/ WaitDiscovers(g) \/ WaitReturns(g) \/ WaitFails(g) \/ LoopSteps(g)
    \/ LoopReadsBackoff(g) \/ LoopAdoptsLink(g) \/ LoopRefused(g)
    \/ LoopConnects(g) \/ LoopGattFails(g)
    \/ \E l \in Links : LoopGattUp(g, l)
    \/ LoopSessionFails(g) \/ LoopSessionUp(g) \/ LoopReports(g)
    \/ LoopDeparts(g) \/ LoopPaused(g) \/ LoopLeaves(g) \/ LoopExits(g)

-----------------------------------------------------------------------------
(* The vehicle, the radio and the clock.                                   *)

LinkDrops ==
    /\ car # None /\ linkUp
    /\ linkUp' = FALSE
    /\ UNCHANGED <<lockVars, request, bus, car, sessions, links, tap, authVars,
                   visitVars, idle, fired, presenceVars, loopVars, told>>

\* 45 s after connectedAt, which is set when the connect has succeeded.
ConnectionSettles ==
    /\ car # None /\ ~settled /\ phase # "handshake"
    /\ settled' = TRUE
    /\ UNCHANGED <<lockVars, request, bus, linkVars, links, tap, authVars,
                   vcsec, insideEmitted, idle, fired, presenceVars, loopVars,
                   told>>

\* vcsecPrimeInterval since the last GET_STATUS.
StatusAges ==
    /\ vcsec # "due" /\ Free
    /\ vcsec' = "due"
    /\ UNCHANGED <<lockVars, request, bus, linkVars, links, tap, authVars,
                   settled, insideEmitted, idle, fired, presenceVars, loopVars,
                   told>>

BeaconAges ==
    /\ beacon # None
    /\ beacon' = None
    /\ UNCHANGED <<lockVars, request, sessionVars, modeVars, backoff, scanVars,
                   loopVars, told>>

BackoffExpires ==
    /\ backoff
    /\ backoff' = FALSE
    /\ UNCHANGED <<lockVars, request, sessionVars, modeVars, beacon, scanVars,
                   loopVars, told>>

\* farTimeout since the loop's lastSeen, as it will find when it next reads
\* the clock.  It is longer than a beacon stays fresh, and both count from
\* the same advertisement.
FarTimeoutPasses(g) ==
    /\ pc[g] \in {"top", "enter", "look", "pause"}
    /\ seen[g] = "near" /\ beacon # g
    /\ Near(g, "far")
    /\ UNCHANGED <<lockVars, request, sessionVars, presenceVars, pc, snap,
                   told>>

Environment ==
    \/ \E l \in Links : Datagram(l)
    \/ LinkDrops
    \/ ConnectionSettles
    \/ StatusAges
    \/ BeaconAges
    \/ BackoffExpires
    \/ \E g \in Loops : FarTimeoutPasses(g)
    \/ IdleTimerFires

Next ==
    \/ RequestLoop
    \/ IdleTeardown
    \/ \E l \in Links : Responder(l)
    \/ \E g \in Loops : Loop(g)
    \/ Environment

Spec == Init /\ [][Next]_vars

\* What the child can rely on.  A goroutine that is ready, or waits for a
\* mutex that keeps being released, runs (sync.Mutex hands itself to a
\* starving waiter); every wait on the vehicle has a timeout; BlueZ does not
\* refuse to scan for ever; and clocks advance, so that farTimeout passes once
\* the loop stops seeing the vehicle.  No property needs a fair idle timer.
RequestTimeouts == RequestGattFails \/ RequestDropsLink \/ RequestSessionUp
SeesVehicle(g) == pc[g] \in {"sawNear", "hold"}
Fairness ==
    /\ WF_vars(RequestTimeouts)
    /\ SF_vars(NavigateExecute)
    /\ WF_vars(BackoffExpires)
    /\ \A l \in Links : SF_vars(Responder(l))
    /\ \A g \in Loops :
         /\ SF_vars(Loop(g))
         /\ SF_vars(WatchStarts(g))
         /\ SF_vars(WaitReturns(g))
         /\ []<>SeesVehicle(g) \/ SF_vars(FarTimeoutPasses(g))

FairSpec == Spec /\ Fairness
=============================================================================
