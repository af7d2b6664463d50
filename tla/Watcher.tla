-------------------------------- MODULE Watcher --------------------------------
(***************************************************************************)
(* The inside of bluez.Watcher (helper/session/bluez/scan.go): the         *)
(* presence loop that owns it, a request that connects meanwhile (connect  *)
(* in gatt.go), the goroutine that observes BlueZ's signals, and BlueZ.    *)
(* SessionChild takes Wait, Pause and Stop as atomic; here they are not.   *)
(*                                                                         *)
(* Signals about the adapter or the vehicle's device are kept in a set:    *)
(* they may arrive in any order; the code ignores all others.  An operator *)
(* named X_Suffix is a variant of X with a plausible mistake that no       *)
(* action uses.                                                            *)
(***************************************************************************)

VARIABLES
    mu, discoveryMu,  \* holders of session.mu and Watcher.discoveryMu
    pc,               \* where the presence loop and the request are
    link,             \* s.car is set
    discovering,      \* Adapter1.Discovering
    signals,          \* on their way to the observer
    paused, pending,      \* fields under signalMu
    updates, nearUpdate,  \* whether the channels hold their one token
    observer,         \* observeRSSIUpdates, or the RSSI it is about to store
    signalStop        \* the channel is closed

busVars     == <<discovering, signals>>
beaconVars  == <<paused, pending>>
channelVars == <<updates, nearUpdate, signalStop>>
vars == <<mu, discoveryMu, pc, link, busVars, beaconVars, channelVars, observer>>

Free == "free"
None == "none"
Strength == {"weak", "strong"}  \* strong: nearRSSI or above

Serving    == {"tick", "pause", "pausing", "ensure", "checking", "take", "select", "rest"}
Stopping   == {"leaving", "closing", "joining", "turnOff", "turningOff"}
Connecting == {"pause", "pausing", "try", "scanning", "sharing",
               "quieten", "settle", "connect", "failed"}

Init ==
    /\ mu = Free /\ discoveryMu = Free
    /\ pc = [loop |-> "absent", request |-> "idle"]
    /\ link = FALSE /\ discovering = FALSE /\ signals = {}
    /\ paused = FALSE /\ pending = None
    /\ updates = FALSE /\ nearUpdate = FALSE /\ signalStop = FALSE
    /\ observer = "done"

At(t, l)   == pc[t] = l
Goto(t, l) == pc' = [pc EXCEPT ![t] = l]

\* A step that only goes on.
Moves(t, from, to) ==
    /\ pc[t] \in from /\ Goto(t, to)
    /\ UNCHANGED <<mu, discoveryMu, link, busVars, beaconVars, channelVars, observer>>

subscribed == pc["loop"] \in Serving \union {"leaving", "closing"}
Sent(s)    == IF subscribed THEN signals \union {s} ELSE signals

\* Adapter1.Discovering becomes v; BlueZ signals a change.
Discover(v) == /\ discovering' = v
               /\ signals' = IF v = discovering THEN signals ELSE Sent("adapter")

startDiscovery == Discover(TRUE)
\* An error, or no answer in time, is only logged.
stopDiscovery  == Discover(FALSE) \/ UNCHANGED busVars

\* A send that never blocks, to a channel with room for one.
wake_Unbuffered == updates' = (updates \/ At("loop", "select"))
wake == updates' = TRUE

-----------------------------------------------------------------------------
(* Pause: by a request that connects, by a loop that finds a link, and by  *)
(* one that has just started its watcher over a link and still holds mu.   *)

PauseReturns(t) ==
    /\ discoveryMu' = Free
    /\ Goto(t, IF t = "loop" THEN "tick" ELSE "try")
    /\ mu' = IF t = "loop" /\ mu = t THEN Free ELSE mu

PauseBegins(t) ==
    /\ At(t, "pause") /\ discoveryMu = Free
    /\ \/ paused /\ PauseReturns(t) /\ UNCHANGED beaconVars
       \/ /\ ~paused
          /\ paused' = TRUE /\ pending' = None
          /\ discoveryMu' = t /\ Goto(t, "pausing") /\ UNCHANGED mu
    /\ UNCHANGED <<link, busVars, channelVars, observer>>

PauseEnds(t) ==
    /\ At(t, "pausing")
    /\ stopDiscovery /\ PauseReturns(t)
    /\ UNCHANGED <<link, beaconVars, channelVars, observer>>

-----------------------------------------------------------------------------
(* The presence loop.                                                      *)

\* newWatcher, in the loop's critical section; one that fails stops itself.
Watch ==
    /\ At("loop", "absent") /\ mu = Free
    /\ signals' = {}
    /\ \/ /\ discovering' = TRUE
          /\ observer' = "idle" /\ signalStop' = FALSE
          /\ paused' = FALSE /\ pending' = None
          /\ updates' = FALSE /\ nearUpdate' = FALSE
          /\ Goto("loop", IF link THEN "pause" ELSE "tick")
          /\ mu' = IF link THEN "loop" ELSE Free
       \/ /\ discovering' \in {FALSE, discovering}
          /\ UNCHANGED <<mu, pc, beaconVars, channelVars, observer>>
    /\ UNCHANGED <<discoveryMu, link>>

\* The loop notes the link in one critical section and pauses after it.
FindsLink == mu = Free /\ link /\ Moves("loop", {"tick"}, "pause")

Resume_OnlyClears == pending' = (IF paused THEN None ELSE pending) /\ UNCHANGED paused
Resume == pending' = (IF paused THEN None ELSE pending) /\ paused' = FALSE

Resumes ==
    /\ At("loop", "tick") /\ mu = Free /\ ~link
    /\ Resume /\ Goto("loop", "ensure")
    /\ UNCHANGED <<mu, discoveryMu, link, busVars, channelVars, observer>>

\* ensureDiscovering; what it calls of BlueZ is a step of its own.
EnsureBegins_Unlocked ==
    /\ At("loop", "ensure")
    /\ Goto("loop", IF paused THEN "take" ELSE "checking")
    /\ UNCHANGED <<mu, discoveryMu, link, busVars, beaconVars, channelVars, observer>>

EnsureBegins ==
    /\ At("loop", "ensure") /\ discoveryMu = Free
    /\ discoveryMu' = IF paused THEN Free ELSE "loop"
    /\ Goto("loop", IF paused THEN "take" ELSE "checking")
    /\ UNCHANGED <<mu, link, busVars, beaconVars, channelVars, observer>>

EnsureEnds(ok) ==
    /\ At("loop", "checking")
    /\ discoveryMu' = Free
    /\ IF ok THEN startDiscovery /\ Goto("loop", "take")
             ELSE UNCHANGED busVars /\ Goto("loop", "tick")
    /\ UNCHANGED <<mu, link, beaconVars, channelVars, observer>>

\* An advertisement is returned unless it is older than five seconds; the loop
\* then rests for the scan interval.
Takes ==
    /\ At("loop", "take")
    /\ pending' = None
    /\ \/ Goto("loop", "select")
       \/ pending # None /\ ~paused /\ Goto("loop", "rest")
    /\ UNCHANGED <<mu, discoveryMu, link, busVars, paused, channelVars, observer>>

Woken ==
    /\ At("loop", "select") /\ updates
    /\ updates' = FALSE /\ Goto("loop", "ensure")
    /\ UNCHANGED <<mu, discoveryMu, link, busVars, beaconVars, nearUpdate, signalStop, observer>>

\* Wait's deadline, or the timer of pauseAfterBeacon.
TimesOut == Moves("loop", {"take", "select", "rest"}, "tick")

Roused ==
    /\ At("loop", "rest") /\ nearUpdate
    /\ nearUpdate' = FALSE /\ Goto("loop", "tick")
    /\ UNCHANGED <<mu, discoveryMu, link, busVars, beaconVars, updates, signalStop, observer>>

\* The loop is cancelled, or restarts a watcher that keeps failing.
Leaves == Moves("loop", {"tick", "select", "rest"}, "leaving")

\* Stop, step by step.
StopBegins ==
    /\ At("loop", "leaving")
    /\ paused' = TRUE /\ pending' = None /\ Goto("loop", "closing")
    /\ UNCHANGED <<mu, discoveryMu, link, busVars, channelVars, observer>>

StopCloses_WaitsFirst ==
    /\ At("loop", "closing") /\ observer = "done"
    /\ signalStop' = TRUE /\ Goto("loop", "joining")
    /\ UNCHANGED <<mu, discoveryMu, link, busVars, beaconVars, updates, nearUpdate, observer>>

StopCloses ==
    /\ At("loop", "closing")
    /\ signalStop' = TRUE /\ Goto("loop", "joining")
    /\ UNCHANGED <<mu, discoveryMu, link, busVars, beaconVars, updates, nearUpdate, observer>>

StopJoins == observer = "done" /\ Moves("loop", {"joining"}, "turnOff")

StopTurnsOff ==
    /\ At("loop", "turnOff") /\ discoveryMu = Free
    /\ discoveryMu' = "loop" /\ Goto("loop", "turningOff")
    /\ UNCHANGED <<mu, link, busVars, beaconVars, channelVars, observer>>

StopEnds ==
    /\ At("loop", "turningOff")
    /\ stopDiscovery /\ discoveryMu' = Free /\ Goto("loop", "absent")
    /\ UNCHANGED <<mu, link, beaconVars, channelVars, observer>>

-----------------------------------------------------------------------------
(* observeRSSIUpdates.                                                     *)

AdapterSignal ==
    /\ observer = "idle" /\ "adapter" \in signals
    /\ signals' = signals \ {"adapter"} /\ wake
    /\ UNCHANGED <<mu, discoveryMu, pc, link, discovering, beaconVars, nearUpdate, signalStop, observer>>

\* An advertisement without an RSSI has it read, without a lock; a signal that
\* is none, such as a change of Connected, is dropped.
DeviceSignal ==
    /\ observer = "idle" /\ "advert" \in signals
    /\ signals' = signals \ {"advert"}
    /\ observer' \in IF paused THEN {"idle"} ELSE Strength \union {"idle", "reading"}
    /\ UNCHANGED <<mu, discoveryMu, pc, link, discovering, beaconVars, channelVars>>

Reads ==
    /\ observer = "reading"
    /\ observer' \in Strength \union {"idle"}
    /\ UNCHANGED <<mu, discoveryMu, pc, link, busVars, beaconVars, channelVars>>

Stores_Unchecked ==
    /\ observer \in Strength
    /\ pending' = observer /\ nearUpdate' = (nearUpdate \/ observer = "strong")
    /\ observer' = "waking"
    /\ UNCHANGED <<mu, discoveryMu, pc, link, busVars, paused, updates, signalStop>>

Stores ==
    /\ observer \in Strength
    /\ IF paused
       THEN observer' = "idle" /\ UNCHANGED <<pending, nearUpdate>>
       ELSE /\ pending' = observer
            /\ nearUpdate' = (nearUpdate \/ observer = "strong")
            /\ observer' = "waking"
    /\ UNCHANGED <<mu, discoveryMu, pc, link, busVars, paused, updates, signalStop>>

Wakes ==
    /\ observer = "waking"
    /\ wake /\ observer' = "idle"
    /\ UNCHANGED <<mu, discoveryMu, pc, link, busVars, beaconVars, nearUpdate, signalStop>>

ObserverReturns ==
    /\ observer = "idle" /\ signalStop
    /\ observer' = "done"
    /\ UNCHANGED <<mu, discoveryMu, pc, link, busVars, beaconVars, channelVars>>

-----------------------------------------------------------------------------
(* A request that connects, holding mu; also the loop's own connect, while *)
(* it rests.                                                               *)

\* A loop that leaves unregisters its watcher, unless it will start another.
ConnectBegins ==
    /\ At("request", "idle") /\ mu = Free /\ ~link
    /\ mu' = "request"
    /\ \/ pc["loop"] \in Serving \union Stopping /\ Goto("request", "pause")
       \/ pc["loop"] \in {"absent"} \union Stopping /\ Goto("request", "try")
    /\ UNCHANGED <<discoveryMu, link, busVars, beaconVars, channelVars, observer>>

\* Without a target the beacon is scanned for; a discovery that was already
\* open is somebody else's and stays open.
ScanBegins ==
    /\ At("request", "try")
    /\ startDiscovery
    /\ Goto("request", IF discovering THEN "sharing" ELSE "scanning")
    /\ UNCHANGED <<mu, discoveryMu, link, beaconVars, channelVars, observer>>

ScanEnds ==
    /\ pc["request"] \in {"scanning", "sharing"}
    /\ IF At("request", "scanning") THEN stopDiscovery ELSE UNCHANGED busVars
    /\ \E l \in {"quieten", "failed"} : Goto("request", l)
    /\ UNCHANGED <<mu, discoveryMu, link, beaconVars, channelVars, observer>>

HasTarget == Moves("request", {"try"}, "quieten")

Quietens ==
    /\ At("request", "quieten")
    /\ stopDiscovery /\ Goto("request", "settle")
    /\ UNCHANGED <<mu, discoveryMu, link, beaconVars, channelVars, observer>>

\* waitDiscoveryStopped, after which Device1.Connect is called.
Settles == ~discovering /\ Moves("request", {"settle"}, "connect")

Connected ==
    /\ At("request", "connect")
    /\ link' = TRUE /\ mu' = Free /\ Goto("request", "idle")
    /\ UNCHANGED <<discoveryMu, busVars, beaconVars, channelVars, observer>>

AttemptFails == Moves("request", {"try", "settle", "connect"}, "failed")
Retries      == Moves("request", {"failed"}, "try")

GivesUp ==
    /\ At("request", "failed") /\ mu' = Free /\ Goto("request", "idle")
    /\ UNCHANGED <<discoveryMu, link, busVars, beaconVars, channelVars, observer>>

-----------------------------------------------------------------------------
(* BlueZ and the vehicle.                                                  *)

Advertises ==
    /\ discovering /\ subscribed
    /\ signals' = signals \union {"advert"}
    /\ UNCHANGED <<mu, discoveryMu, pc, link, discovering, beaconVars, channelVars, observer>>

DiscoveryLost ==
    /\ discovering /\ Discover(FALSE)
    /\ UNCHANGED <<mu, discoveryMu, pc, link, beaconVars, channelVars, observer>>

\* The link drops or is closed, and is torn down under mu.
LinkLost ==
    /\ link /\ mu = Free /\ link' = FALSE
    /\ UNCHANGED <<mu, discoveryMu, pc, busVars, beaconVars, channelVars, observer>>

Observer == AdapterSignal \/ DeviceSignal \/ Reads \/ Stores \/ Wakes \/ ObserverReturns

Stop == StopBegins \/ StopCloses \/ StopJoins \/ StopTurnsOff \/ StopEnds

Next ==
    \/ \E t \in {"loop", "request"} : PauseBegins(t) \/ PauseEnds(t)
    \/ Watch \/ FindsLink \/ Resumes
    \/ EnsureBegins \/ \E ok \in BOOLEAN : EnsureEnds(ok)
    \/ Takes \/ Woken \/ TimesOut \/ Roused \/ Leaves
    \/ Stop \/ Observer
    \/ ConnectBegins \/ ScanBegins \/ ScanEnds \/ HasTarget \/ Quietens \/ Settles
    \/ Connected \/ AttemptFails \/ Retries \/ GivesUp
    \/ Advertises \/ DiscoveryLost \/ LinkLost

Spec == Init /\ [][Next]_vars

\* A goroutine that can go on does, and one that waits for a mutex gets it when
\* it is released again and again; calls to BlueZ end, deadlines come, and
\* BlueZ does not refuse to discover for ever.
Fairness ==
    /\ \A t \in {"loop", "request"} : SF_vars(PauseBegins(t)) /\ WF_vars(PauseEnds(t))
    /\ SF_vars(FindsLink) /\ SF_vars(Resumes) /\ SF_vars(EnsureBegins)
    /\ WF_vars(\E ok \in BOOLEAN : EnsureEnds(ok)) /\ SF_vars(EnsureEnds(TRUE))
    /\ WF_vars(Takes) /\ WF_vars(TimesOut)
    /\ WF_vars(StopBegins) /\ WF_vars(StopCloses) /\ WF_vars(StopJoins)
    /\ SF_vars(StopTurnsOff) /\ WF_vars(StopEnds)
    /\ WF_vars(Reads) /\ WF_vars(Stores) /\ WF_vars(Wakes) /\ SF_vars(ObserverReturns)

FairSpec == Spec /\ Fairness

-----------------------------------------------------------------------------
(* Properties.                                                             *)

\* An advertisement that the observer was still handling when a connect paused
\* the watcher is not left for the time after it (Pause "drops pending
\* advertisements", scan.go:457): the observer decides, reads the RSSI without
\* a lock, and decides again when it stores (scan.go:286 and 307).
NothingPendsWhilePaused == paused => pending = None

\* Device1.Connect is never called over a running discovery, which would abort
\* it (gatt.go:76), however many calls to stop that one failed; and over a link
\* none begins but that of a watcher being started: ensureDiscovering, which
\* runs without session.mu, and Pause exclude each other.
GattIsLeftQuiet ==
    [][ /\ pc'["request"] = "connect" => ~discovering'
        /\ link /\ ~discovering /\ discovering' => At("loop", "absent") ]_vars

\* A Wait that sleeps will be woken for what it waits for, an advertisement or
\* a discovery that stopped, and a rest for a strong advertisement: the tokens
\* outlive the moment they were sent, and are sent after what they announce.
NoWakeupIsLost ==
    /\ At("loop", "select") /\ ~paused /\ (pending # None \/ ~discovering) =>
          updates \/ observer = "waking" \/ "adapter" \in signals
    /\ At("loop", "rest") /\ pending = "strong" => nearUpdate

\* The phone key listens again after every connect that failed, every link that
\* was lost and every discovery that BlueZ dropped (scan.go:458).
DiscoveryReturns ==
    pc["loop"] \in Serving /\ ~discovering ~>
        discovering \/ link \/ pc["request"] # "idle" \/ pc["loop"] \notin Serving

\* Stop, for which the next presence mode waits, returns: the observer it joins
\* is not waiting for it in turn.
StopReturns == pc["loop"] \in Stopping ~> At("loop", "absent")
===============================================================================
