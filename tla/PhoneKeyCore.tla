---------------------------- MODULE PhoneKeyCore ----------------------------
(***************************************************************************)
(* The Rust core (helper/src/core.rs) and its client of the session child  *)
(* (helper/src/session_client.rs): the operations callers make, the        *)
(* phone-key service they start, stop and retry, the files they keep, and  *)
(* the process that serves them.                                           *)
(*                                                                         *)
(* phone_key_gate orders the operations: one that waits for it has done    *)
(* nothing yet, except poll, which has already taken its event, and run,   *)
(* share and pair, which hold ble_sem; a caller that finds ble_sem held is *)
(* turned away and changes nothing.  So an operation begins when it gets   *)
(* the gate.  It gives way to the rest of the world at every write of a    *)
(* file and at every request to the child.                                 *)
(*                                                                         *)
(* A key is known by what was done with it: whether there is a private     *)
(* key, whether the public file belongs to it, and which vehicles have     *)
(* enrolled it.  The backend is bluez, which has no fallback to one-shot   *)
(* binaries.  An operator named X_Suffix is a variant of X with a          *)
(* plausible mistake that no action uses.                                  *)
(***************************************************************************)
EXTENDS Naturals, Sequences

CONSTANTS Callers,   \* threads that call the core
          Ops,       \* the operations they call
          Vins,      \* vehicles
          Versions,  \* schemas config.json may be found in
          EventCap,  \* capacity of the event queue (64 in the code)
          None       \* no caller, no vehicle

Operation == {"run", "share", "generate_key", "replace_key", "pair", "start",
              "poll", "resume", "set_config", "drop"}
Version   == {"V0", "V1", "V2", "newer"}

ASSUME CoreConstants ==
    /\ Ops \subseteq Operation
    /\ Versions \subseteq Version
    /\ EventCap \in Nat \ {0}
    /\ None \notin Callers \cup Vins

VARIABLES
    up,            \* the core's process runs
    file,          \* config.json
    priv,          \* private_key.pem exists
    pub,           \* public_key.pem: "none", "stale", or "match"es the private
    knows,         \* vehicles that have enrolled the private key on disk
    cfg,           \* Core.cfg
    ble, gate,     \* holders of ble_sem and phone_key_gate
    started, enabled,  \* phone_key_started, phone_key_enabled
    retry,         \* phone_key_retry_at: "none", "armed" (future) or "due"
    pc, op, out,   \* where each caller is, its operation and its result
    conn,          \* the child handle and its reader thread (see Conn)
    childVin,      \* the -vin of the child process, None when it is dead
    mode,          \* its presence loop: "off", "opening", "on", or "near"
    active,        \* SessionClient.presence_active
    wire,          \* the request in flight (see Wire)
    events,        \* SessionClient.events
    unsaid         \* what the child still has to write of its presence loop

diskVars    == <<file, priv, pub, knows>>
serviceVars == <<started, enabled, retry>>
childVars   == <<conn, childVin, mode, active, events, unsaid>>
callerVars  == <<pc, op, out, gate, ble>>
vars == <<up, diskVars, cfg, serviceVars, childVars, wire, callerVars>>

\* A position in a request of the child is named after the request.
Request  == {"presence-start", "presence-stop", "keygen", "pair", "command"}
Position == Request \cup {"idle", "stop", "stopped", "writePub", "savePaired",
                          "start", "pollGate", "returned"}
Result   == {"none", "ok", "failed", "near", "lost", "stopped", "restarted"}
Event    == {"near", "lost", "stopped"}

\* none: no handle.  up: connected.  gone: the process died, unnoticed.
\* closing: the reader cleared `alive`.  closed: it has reported the loss.
Conn == {"none", "up", "gone", "closing", "closed"}
\* send: to be written.  sent: written.  ok, rejected: the reply is here.
\* lost: served, but nobody will read the reply.  failed: never sent.
Wire == {"idle", "send", "sent", "ok", "rejected", "lost", "failed"}

Config == [vin : Vins \cup {None}, paired : BOOLEAN, version : Version]

DiskType ==
    /\ file \in Config
    /\ priv \in BOOLEAN
    /\ pub \in {"none", "stale", "match"}
    /\ knows \subseteq Vins
ServiceType ==
    /\ up \in BOOLEAN
    /\ cfg \in Config
    /\ started \in BOOLEAN /\ enabled \in BOOLEAN
    /\ retry \in {"none", "armed", "due"}
CallerType ==
    /\ ble \in Callers \cup {None} /\ gate \in Callers \cup {None}
    /\ pc \in [Callers -> Position]
    /\ op \in [Callers -> Operation \cup {"none"}]
    /\ out \in [Callers -> Result]
ChildType ==
    /\ conn \in Conn
    /\ childVin \in Vins \cup {None}
    /\ mode \in {"off", "opening", "on", "near"}
    /\ active \in BOOLEAN
    /\ wire \in Wire
    /\ events \in Seq(Event) /\ Len(events) <= EventCap
    /\ unsaid \subseteq {"near", "stopped"}
TypeOK == DiskType /\ ServiceType /\ CallerType /\ ChildType

-----------------------------------------------------------------------------
(* Starting up.                                                            *)

KeyFiles == priv /\ pub # "none"
Enrolled(c) == c.paired => priv /\ c.vin \in knows

\* Core::new: only a file without enrollment state is taken to be paired when
\* it has a VIN and both key files; a newer schema is kept as it is.
migrate(c) ==
    [c EXCEPT !.paired = @ \/ (c.version = "V0" /\ c.vin # None /\ KeyFiles),
              !.version = IF c.version = "newer" THEN @ ELSE "V2"]

Fresh ==
    /\ ble = None /\ gate = None
    /\ started = FALSE /\ enabled = FALSE /\ retry = "none"
    /\ pc = [c \in Callers |-> "idle"]
    /\ op = [c \in Callers |-> "none"]
    /\ out = [c \in Callers |-> "none"]
    /\ conn = "none" /\ childVin = None /\ mode = "off" /\ active = FALSE
    /\ wire = "idle" /\ events = <<>> /\ unsaid = {}

\* What an earlier session left on disk: what it marked as paired is enrolled,
\* and files of the time before such marks are a complete, working key or none.
Init ==
    /\ up = FALSE
    /\ file \in {c \in Config : c.version \in Versions}
    /\ priv \in BOOLEAN
    /\ pub \in IF priv THEN {"none", "stale", "match"} ELSE {"none", "stale"}
    /\ knows \in IF priv THEN SUBSET Vins ELSE {{}}
    /\ file.version = "V0" => ~file.paired /\ (priv <=> pub # "none")
    /\ Enrolled(migrate(file))
    /\ cfg = file
    /\ Fresh

-----------------------------------------------------------------------------
(* Helpers.                                                                *)

\* The process ends and takes its memory with it.
Forgets ==
    /\ up' = FALSE
    /\ ble' = None /\ gate' = None
    /\ started' = FALSE /\ enabled' = FALSE /\ retry' = "none"
    /\ pc' = [c \in Callers |-> "idle"]
    /\ op' = [c \in Callers |-> "none"]
    /\ out' = [c \in Callers |-> "none"]
    /\ conn' = "none" /\ childVin' = None /\ mode' = "off" /\ active' = FALSE
    /\ wire' = "idle" /\ events' = <<>> /\ unsaid' = {}
    /\ UNCHANGED <<diskVars, cfg>>

GoTo(c, p) == pc' = [pc EXCEPT ![c] = p]

\* The operation is over; its guards are dropped.
Return(c, r) ==
    /\ GoTo(c, "returned")
    /\ out' = [out EXCEPT ![c] = r]
    /\ gate' = IF gate = c THEN None ELSE gate
    /\ ble' = IF ble = c THEN None ELSE ble
    /\ UNCHANGED op

\* The operation takes the gate and goes on at p.
Enter(c, o, p) ==
    /\ gate' = c /\ GoTo(c, p)
    /\ op' = [op EXCEPT ![c] = o]
    /\ UNCHANGED out

\* The operation is over as soon as it began.
Refuse(c, o) ==
    /\ GoTo(c, "returned")
    /\ op' = [op EXCEPT ![c] = o]
    /\ out' = [out EXCEPT ![c] = "failed"]
    /\ UNCHANGED <<gate, ble>>

\* Config::save of d.  write_atomic may also fail after the rename, when it
\* syncs the directory: the file is new and the caller is told otherwise.
SaveOk(d)    == d.version # "newer" /\ file' = d
SaveFails(d) == IF d.version = "newer" THEN UNCHANGED file ELSE file' \in {file, d}

kill == conn' = "none" /\ childVin' = None /\ mode' = "off" /\ unsaid' = {}

\* transport_failed: what the dead child reported gives way to its loss.
transport_failed == active' = FALSE /\ events' = <<"stopped">>

invalidate_KeepsChild ==
    active' = FALSE /\ UNCHANGED <<conn, childVin, mode, events, unsaid>>
invalidate_KeepsEvents == kill /\ active' = FALSE /\ UNCHANGED events

\* invalidate: the reader is joined before the queue is cleared.
invalidate == kill /\ active' = FALSE /\ events' = <<>>

push_Unbounded(e) == events' = Append(events, e)

push_WhenRoom(e) ==
    events' = IF Len(events) < EventCap THEN Append(events, e) ELSE events

\* The reader queues an event and drops the oldest one of a full queue.
push(e) ==
    events' = Append(IF Len(events) < EventCap THEN events ELSE Tail(events), e)

IsAlive == conn \in {"up", "gone"}
IsPresenceActive == active /\ IsAlive
Eligible == cfg.vin # None /\ cfg.paired /\ priv
HasCommonArgs == cfg.vin # None /\ priv

-----------------------------------------------------------------------------
(* SessionClient::run, for the caller that holds the gate.                 *)

\* The request goes to the live child.  Of one that has just died nobody has
\* told: the write fails, or it succeeds and no reply will come.
SendToChild ==
    /\ wire = "send" /\ IsAlive
    /\ \/ wire' = "sent" /\ UNCHANGED childVars
       \/ conn = "gone" /\ wire' = "failed" /\ kill /\ transport_failed
    /\ UNCHANGED <<up, diskVars, cfg, serviceVars, callerVars>>

\* There is no child, or its reader gave up: a new one is spawned for the
\* configured VIN.  Without a VIN the child exits before the handshake.
SendSpawns ==
    /\ wire = "send" /\ ~IsAlive
    /\ IF conn = "none" THEN UNCHANGED <<active, events>> ELSE transport_failed
    /\ mode' = "off" /\ unsaid' = {}
    /\ \/ /\ cfg.vin # None
          /\ conn' = "up" /\ childVin' = cfg.vin /\ wire' = "sent"
       \/ conn' = "none" /\ childVin' = None /\ wire' = "failed"
    /\ UNCHANGED <<up, diskVars, cfg, serviceVars, callerVars>>

\* The reply r is here; presence_active follows presence-start and -stop.
Replied(r) ==
    /\ wire = r /\ wire' = "idle"
    /\ active' = IF r = "ok" /\ pc[gate] \in {"presence-start", "presence-stop"}
                 THEN pc[gate] = "presence-start" ELSE active
    /\ UNCHANGED <<conn, childVin, mode, events, unsaid>>

\* No reply: the request was never sent, or the deadline passed, the reader
\* hung up or the reply was none of this request; the child is killed.
NoReply ==
    /\ wire' = "idle"
    /\ \/ wire = "failed" /\ UNCHANGED childVars
       \/ wire \in {"sent", "ok", "rejected", "lost"} /\ kill /\ transport_failed

\* Any outcome but success.
Unsuccessful == Replied("rejected") \/ NoReply

-----------------------------------------------------------------------------
(* The reader thread.                                                      *)

\* It finds the socket closed, or the child silent for the frame timeout.
ReaderHangsUp ==
    /\ conn \in {"up", "gone"}
    /\ conn' = "closing" /\ unsaid' = {}
    /\ UNCHANGED <<up, diskVars, cfg, serviceVars, childVin, mode, active,
                   events, wire, callerVars>>

ReaderReports ==
    /\ conn = "closing"
    /\ conn' = "closed" /\ events' = <<"stopped">>
    /\ UNCHANGED <<up, diskVars, cfg, serviceVars, childVin, mode, active,
                   unsaid, wire, callerVars>>

-----------------------------------------------------------------------------
(* The child, as SessionChild models it from inside.                       *)

Replies(r) == wire' = IF conn = "up" THEN r ELSE "lost"
Emit(e) == IF conn = "up" THEN push(e) ELSE UNCHANGED events
\* The child has let go of its lock and is about to write the event.
Owes(e) == unsaid' = IF conn = "up" THEN unsaid \cup {e} ELSE unsaid

ServesPresence(request) ==
    /\ mode' = IF request = "presence-stop" THEN "off"
               ELSE IF mode = "off" THEN "opening" ELSE mode
    /\ Replies("ok")
    /\ UNCHANGED <<priv, pub, knows>>

\* dispatchKeygen re-prints an existing key, if it can read it, or writes a new
\* one, which no vehicle knows; the write may take place and still be reported
\* as failed.
ServesKeygen ==
    \/ op[gate] = "generate_key"
       /\ (Replies("ok") \/ Replies("rejected"))
       /\ UNCHANGED <<priv, pub, knows, mode>>
    \/ op[gate] = "replace_key"
       /\ \/ /\ priv' = TRUE /\ knows' = {}
             /\ pub' = IF pub = "none" THEN "none" ELSE "stale"
             /\ \/ Replies("ok") /\ mode' = "off"
                \/ Replies("rejected") /\ UNCHANGED mode
          \/ Replies("rejected") /\ UNCHANGED <<priv, pub, knows, mode>>

\* dispatchPair enrolls the public key if it is that of the private one, and
\* answers once the vehicle confirms; it may enroll without confirming.
ServesPair ==
    /\ \/ priv /\ pub = "match"
          /\ knows' = knows \cup {childVin}
          /\ (Replies("ok") \/ Replies("rejected"))
       \/ Replies("rejected") /\ UNCHANGED knows
    /\ UNCHANGED <<priv, pub, mode>>

\* A command, or a destination for the navigation, with either outcome.
ServesCommand ==
    /\ (Replies("ok") \/ Replies("rejected"))
    /\ UNCHANGED <<priv, pub, knows, mode>>

ChildServes ==
    /\ wire = "sent" /\ childVin # None
    /\ \/ pc[gate] \in {"presence-start", "presence-stop"} /\ ServesPresence(pc[gate])
       \/ pc[gate] = "keygen" /\ ServesKeygen
       \/ pc[gate] = "pair" /\ ServesPair
       \/ pc[gate] = "command" /\ ServesCommand
    /\ UNCHANGED <<up, file, cfg, serviceVars, conn, childVin, active, events,
                   unsaid, callerVars>>

\* The presence loop gets its bus, or returns for want of it; a child that has
\* had a session has one.
LoopOpensBus ==
    /\ mode = "opening" /\ mode' = "on"
    /\ UNCHANGED <<up, diskVars, cfg, serviceVars, conn, childVin, active,
                   events, unsaid, wire, callerVars>>
LoopGivesUp ==
    /\ mode = "opening" /\ "near" \notin unsaid
    /\ mode' = "off" /\ Owes("stopped")
    /\ UNCHANGED <<up, diskVars, cfg, serviceVars, conn, childVin, active,
                   events, wire, callerVars>>

\* An authenticated session with the vehicle is established.
LinkUp ==
    /\ mode = "on" /\ mode' = "near" /\ Owes("near")
    /\ UNCHANGED <<up, diskVars, cfg, serviceVars, conn, childVin, active,
                   events, wire, callerVars>>

\* It is lost, or an attempt of the loop to get one fails.
LinkLost ==
    /\ mode # "off" /\ mode' = (IF mode = "near" THEN "on" ELSE mode)
    /\ Emit("lost")
    /\ UNCHANGED <<up, diskVars, cfg, serviceVars, conn, childVin, active,
                   unsaid, wire, callerVars>>

\* The loop writes, at last: whatever was lost, stopped or begun meanwhile.
LoopReports ==
    /\ \E e \in unsaid : push(e) /\ unsaid' = unsaid \ {e}
    /\ UNCHANGED <<up, diskVars, cfg, serviceVars, conn, childVin, mode, active,
                   wire, callerVars>>

\* The child process dies, by itself or killed by the system.
ChildDies ==
    /\ childVin # None /\ childVin' = None /\ mode' = "off" /\ unsaid' = {}
    /\ conn' = IF conn = "up" THEN "gone" ELSE conn
    /\ UNCHANGED <<up, diskVars, cfg, serviceVars, active, events, wire, callerVars>>

ChildSteps ==
    \/ ReaderHangsUp \/ ReaderReports \/ ChildServes \/ ChildDies
    \/ LoopOpensBus \/ LoopGivesUp \/ LinkUp \/ LinkLost \/ LoopReports

-----------------------------------------------------------------------------
(* Operations.  Each begins with the gate free, and calls leave it to      *)
(* Return to give it back.                                                 *)

\* A core that is being freed takes no more calls.
Idle(c, o) ==
    /\ up /\ o \in Ops /\ pc[c] = "idle"
    /\ \A d \in Callers : op[d] # "drop"

\* run and share_destination: a command needs a VIN and a private key, a
\* destination only a VIN.
RunBegins(c, o) ==
    /\ o \in {"run", "share"} /\ Idle(c, o) /\ ble = None /\ gate = None
    /\ IF cfg.vin # None /\ (o = "share" \/ priv)
       THEN Enter(c, o, "command") /\ ble' = c /\ wire' = "send"
       ELSE Refuse(c, o) /\ UNCHANGED wire
    /\ UNCHANGED <<up, diskVars, cfg, serviceVars, childVars>>

RunEnds(c) ==
    /\ pc[c] = "command"
    /\ \/ Replied("ok") /\ Return(c, "ok")
       \/ Unsuccessful /\ Return(c, "failed")
    /\ UNCHANGED <<up, diskVars, cfg, serviceVars>>

\* generate_key without force while there is a private key: nothing is reset.
GenerateKeyBegins(c) ==
    /\ Idle(c, "generate_key") /\ gate = None /\ priv
    /\ IF cfg.version = "newer"
       THEN Refuse(c, "generate_key") /\ UNCHANGED wire
       ELSE Enter(c, "generate_key", "keygen") /\ UNCHANGED ble /\ wire' = "send"
    /\ UNCHANGED <<up, diskVars, cfg, serviceVars, childVars>>

ReplaceKeyBegins_Unsaved(c) ==
    /\ Idle(c, "replace_key") /\ gate = None
    /\ cfg.version # "newer"
    /\ Enter(c, "replace_key", "stop") /\ UNCHANGED <<ble, file>>
    /\ UNCHANGED <<up, priv, pub, knows, cfg, serviceVars, childVars, wire>>

\* generate_key that replaces the key, or makes the first one: the unpaired
\* state is saved before anything else happens.
ReplaceKeyBegins(c) ==
    /\ Idle(c, "replace_key") /\ gate = None
    /\ LET candidate == [cfg EXCEPT !.paired = FALSE] IN
       \/ SaveOk(candidate) /\ Enter(c, "replace_key", "stop") /\ UNCHANGED ble
       \/ SaveFails(candidate) /\ Refuse(c, "replace_key")
    /\ UNCHANGED <<up, priv, pub, knows, cfg, serviceVars, childVars, wire>>

\* set_config(vin): another VIN is unpaired.  The file is new from here on,
\* Core.cfg only when the old service has stopped.
SetConfigBegins(c) ==
    /\ Idle(c, "set_config") /\ gate = None
    /\ \E vin \in Vins \cup {None} :
         LET candidate == [cfg EXCEPT !.vin = vin,
                                      !.paired = @ /\ vin = cfg.vin] IN
         \/ SaveOk(candidate) /\ Enter(c, "set_config", "stop") /\ UNCHANGED ble
         \/ SaveFails(candidate) /\ Refuse(c, "set_config")
    /\ UNCHANGED <<up, priv, pub, knows, cfg, serviceVars, childVars, wire>>

PairBegins(c) ==
    /\ Idle(c, "pair") /\ ble = None /\ gate = None
    /\ IF cfg.version = "newer"
       THEN Refuse(c, "pair")
       ELSE Enter(c, "pair", "stop") /\ ble' = c
    /\ UNCHANGED <<up, diskVars, cfg, serviceVars, childVars, wire>>

\* Drop: its owner frees the core when no call is under way.
DropBegins(c) ==
    /\ Idle(c, "drop") /\ \A d \in Callers : pc[d] = "idle"
    /\ Enter(c, "drop", "stop") /\ UNCHANGED ble
    /\ UNCHANGED <<up, diskVars, cfg, serviceVars, childVars, wire>>

\* stop_phone_key_locked
Stop(c) ==
    /\ pc[c] = "stop"
    /\ enabled' = FALSE /\ retry' = "none"
    /\ IF started
       THEN GoTo(c, "presence-stop") /\ wire' = "send"
       ELSE GoTo(c, "stopped") /\ UNCHANGED wire
    /\ UNCHANGED <<up, diskVars, cfg, started, childVars, op, out, gate, ble>>

\* A child that does not answer the stop is killed, and its loss is no news.
StopEnds(c) ==
    /\ pc[c] = "presence-stop"
    /\ \/ Replied("ok") \/ Replied("rejected")
       \/ wire \notin {"idle", "send"} /\ wire' = "idle" /\ invalidate
    /\ started' = FALSE /\ GoTo(c, "stopped")
    /\ UNCHANGED <<up, diskVars, cfg, enabled, retry, op, out, gate, ble>>

\* The rest of set_config: an unchanged VIN gets its service back.
SetConfigStopped(c) ==
    /\ pc[c] = "stopped" /\ op[c] = "set_config"
    /\ cfg' = file /\ invalidate
    /\ IF cfg.vin = file.vin
       THEN /\ GoTo(c, "start") /\ gate' = None
            /\ UNCHANGED <<op, out, ble>>
       ELSE Return(c, "ok")
    /\ UNCHANGED <<up, diskVars, serviceVars, wire>>

ReplaceKeyStopped(c) ==
    /\ pc[c] = "stopped" /\ op[c] = "replace_key"
    /\ cfg' = file /\ invalidate
    /\ GoTo(c, "keygen") /\ wire' = "send"
    /\ UNCHANGED <<up, diskVars, serviceVars, op, out, gate, ble>>

KeygenEnds(c) ==
    /\ pc[c] = "keygen"
    /\ \/ Replied("ok") /\ GoTo(c, "writePub") /\ UNCHANGED <<op, out, gate, ble>>
       \/ Unsuccessful /\ Return(c, "failed")
    /\ UNCHANGED <<up, diskVars, cfg, serviceVars>>

\* The public half is written; only then the child forgets a replaced key.
WritePub(c) ==
    /\ pc[c] = "writePub"
    /\ \/ /\ pub' = "match" /\ Return(c, "ok")
          /\ IF op[c] = "replace_key" THEN invalidate ELSE UNCHANGED childVars
       \/ pub' \in {pub, "match"} /\ Return(c, "failed") /\ UNCHANGED childVars
    /\ UNCHANGED <<up, file, priv, knows, cfg, serviceVars, wire>>

PairStopped(c) ==
    /\ pc[c] = "stopped" /\ op[c] = "pair"
    /\ IF HasCommonArgs /\ pub # "none"
       THEN GoTo(c, "pair") /\ wire' = "send" /\ UNCHANGED <<op, out, gate, ble>>
       ELSE Return(c, "failed") /\ UNCHANGED wire
    /\ UNCHANGED <<up, diskVars, cfg, serviceVars, childVars>>

PairAnswered(c) ==
    /\ pc[c] = "pair"
    /\ \/ Replied("ok") /\ GoTo(c, "savePaired") /\ UNCHANGED <<op, out, gate, ble>>
       \/ Unsuccessful /\ Return(c, "failed")
    /\ UNCHANGED <<up, diskVars, cfg, serviceVars>>

\* The confirmed key is marked, and its service started without the gate.
SavePaired(c) ==
    /\ pc[c] = "savePaired"
    /\ LET candidate == [cfg EXCEPT !.paired = TRUE] IN
       \/ /\ SaveOk(candidate) /\ cfg' = candidate
          /\ GoTo(c, "start") /\ gate' = None /\ UNCHANGED <<op, out, ble>>
       \/ SaveFails(candidate) /\ UNCHANGED cfg /\ Return(c, "failed")
    /\ UNCHANGED <<up, priv, pub, knows, serviceVars, childVars, wire>>

\* Drop ends the process with its child.
Dropped(c) ==
    /\ pc[c] = "stopped" /\ op[c] = "drop"
    /\ Forgets

\* handle_resume: whatever ran before the system slept is retired.
ResumeBegins(c) ==
    /\ Idle(c, "resume") /\ gate = None
    /\ started' = FALSE /\ invalidate
    /\ GoTo(c, "start") /\ op' = [op EXCEPT ![c] = "resume"]
    /\ UNCHANGED <<up, diskVars, cfg, enabled, retry, wire, out, gate, ble>>

StartBegins(c) ==
    /\ Idle(c, "start")
    /\ GoTo(c, "start") /\ op' = [op EXCEPT ![c] = "start"]
    /\ UNCHANGED <<up, diskVars, cfg, serviceVars, childVars, wire, out, gate, ble>>

\* What the outcome of start_phone_key is to the operation that called it.
StartReturns(c, ok) ==
    Return(c, CASE op[c] = "poll" -> IF ok THEN "restarted" ELSE "stopped"
                [] op[c] \in {"resume", "set_config"} -> "ok"
                [] OTHER -> IF ok THEN "ok" ELSE "failed")

\* start_phone_key: nothing to do, not eligible, or a request to the child.
\* A service that was started and is not alive is retired with its events.
StartChecks(c) ==
    /\ pc[c] = "start" /\ gate = None
    /\ IF started /\ IsPresenceActive
       THEN StartReturns(c, TRUE) /\ UNCHANGED <<serviceVars, childVars, wire>>
       ELSE /\ started' = FALSE /\ UNCHANGED retry
            /\ IF Eligible
               THEN /\ enabled' = TRUE
                    /\ IF started THEN invalidate ELSE UNCHANGED childVars
                    /\ GoTo(c, "presence-start") /\ gate' = c /\ wire' = "send"
                    /\ UNCHANGED <<op, out, ble>>
               ELSE /\ StartReturns(c, FALSE)
                    /\ UNCHANGED <<enabled, childVars, wire>>
    /\ UNCHANGED <<up, diskVars, cfg>>

StartEnds_NoRetry(c) ==
    /\ pc[c] = "presence-start"
    /\ \/ /\ Replied("ok") /\ started' = TRUE /\ retry' = "none"
          /\ StartReturns(c, TRUE)
       \/ /\ Unsuccessful /\ started' = FALSE /\ UNCHANGED retry
          /\ StartReturns(c, FALSE)
    /\ UNCHANGED <<up, diskVars, cfg, enabled>>

StartEnds(c) ==
    /\ pc[c] = "presence-start"
    /\ \/ /\ Replied("ok") /\ started' = TRUE /\ retry' = "none"
          /\ StartReturns(c, TRUE)
       \/ /\ Unsuccessful /\ started' = FALSE /\ retry' = "armed"
          /\ StartReturns(c, FALSE)
    /\ UNCHANGED <<up, diskVars, cfg, enabled>>

\* poll_phone_key_event takes an event, or makes up a stopped one when a
\* retry is due; the latter two are acted on, the others passed on.
PollBegins(c) ==
    /\ Idle(c, "poll")
    /\ LET event == IF events # <<>> THEN Head(events)
                    ELSE IF enabled /\ retry = "due" THEN "stopped" ELSE "none" IN
       /\ events' = IF events = <<>> THEN events ELSE Tail(events)
       /\ op' = [op EXCEPT ![c] = "poll"]
       /\ IF event = "stopped"
          THEN GoTo(c, "pollGate") /\ UNCHANGED out
          ELSE GoTo(c, "returned") /\ out' = [out EXCEPT ![c] = event]
    /\ UNCHANGED <<up, diskVars, cfg, serviceVars, conn, childVin, mode, active,
                   unsaid, wire, gate, ble>>

\* A stopped event ends the service; unless it is unwanted or was retried just
\* now, its child is retired and it is started again, after the gate is let go.
PollRestarts(c) ==
    /\ pc[c] = "pollGate" /\ gate = None
    /\ started' = FALSE
    /\ IF enabled /\ retry # "armed"
       THEN /\ invalidate /\ GoTo(c, "start")
            /\ UNCHANGED <<op, out, gate, ble>>
       ELSE Return(c, "stopped") /\ UNCHANGED childVars
    /\ UNCHANGED <<up, diskVars, cfg, enabled, retry, wire>>

\* The caller has the result.
Returns(c) ==
    /\ pc[c] = "returned"
    /\ GoTo(c, "idle")
    /\ op' = [op EXCEPT ![c] = "none"] /\ out' = [out EXCEPT ![c] = "none"]
    /\ UNCHANGED <<up, diskVars, cfg, serviceVars, childVars, wire, gate, ble>>

RetryComesDue ==
    /\ retry = "armed" /\ retry' = "due"
    /\ UNCHANGED <<up, diskVars, cfg, started, enabled, childVars, wire, callerVars>>

-----------------------------------------------------------------------------
(* The process.                                                            *)

\* It starts: Core::new.  That the migrated file cannot be saved is only logged.
Boot ==
    /\ ~up /\ up' = TRUE
    /\ cfg' = migrate(file)
    /\ \/ UNCHANGED file /\ cfg' = file
       \/ cfg' # file /\ (SaveOk(cfg') \/ SaveFails(cfg'))
    /\ UNCHANGED <<priv, pub, knows, serviceVars, childVars, wire, callerVars>>

\* It is killed.  Its child finds the socket closed and exits.
Crash == up /\ Forgets

Begins(c) ==
    \/ \E o \in {"run", "share"} : RunBegins(c, o)
    \/ GenerateKeyBegins(c) \/ ReplaceKeyBegins(c)
    \/ SetConfigBegins(c) \/ PairBegins(c) \/ DropBegins(c)
    \/ ResumeBegins(c) \/ StartBegins(c) \/ PollBegins(c)
GoesOn(c) ==
    \/ RunEnds(c) \/ Stop(c) \/ StopEnds(c)
    \/ SetConfigStopped(c) \/ ReplaceKeyStopped(c) \/ PairStopped(c)
    \/ KeygenEnds(c) \/ WritePub(c) \/ PairAnswered(c) \/ SavePaired(c)
    \/ StartChecks(c) \/ StartEnds(c) \/ PollRestarts(c) \/ Dropped(c)
Client == SendToChild \/ SendSpawns

Next ==
    \/ \E c \in Callers : Begins(c) \/ GoesOn(c) \/ Returns(c)
    \/ Client \/ ChildSteps \/ RetryComesDue \/ Boot \/ Crash

Spec == Init /\ [][Next]_vars
=============================================================================
