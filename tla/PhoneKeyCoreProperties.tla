----------------------- MODULE PhoneKeyCoreProperties -----------------------
(***************************************************************************)
(* What the Rust core and its session client promise together.             *)
(***************************************************************************)
EXTENDS PhoneKeyCore

\* A configuration that says paired, in memory or on disk, names a vehicle
\* that has enrolled the very key that is on disk, whatever fails or is killed
\* between the writes of a key replacement, a pairing or a change of VIN
\* ("never leave a new key marked paired", generate_key; dispatchPair).
PairedKeyIsEnrolled == Enrolled(file) /\ (up => Enrolled(cfg))

\* A child that maintains presence does so for the configured vehicle, and
\* because an eligible service was asked for and not stopped: no operation
\* leaves one running for another VIN, an unpaired key or a stopped service
\* (set_config, generate_key, stop_phone_key_locked, invalidate).
Quiet == up /\ gate = None
PresenceIsWanted ==
    Quiet /\ mode # "off" =>
        enabled /\ cfg.paired /\ priv /\ childVin = cfg.vin

\* Commands go to the vehicle that is configured: a child spawned for another
\* one does not survive the operation that changed it (set_config).
CommandsReachConfiguredVehicle ==
    wire = "sent" /\ childVin # None => childVin = cfg.vin

\* A service that was started and no longer has its presence loop is not
\* forgotten: its loss is on its way to a poll, is queued, or is in the hands
\* of one, however events, failures and operations interleave and whatever the
\* bounded queue drops (spawn_reader, transport_failed, poll_phone_key_event).
LossIsReported ==
    Quiet /\ started /\ mode = "off" =>
        \/ conn \in {"gone", "closing"}
        \/ "stopped" \in unsaid
        \/ \E i \in DOMAIN events : events[i] = "stopped"
        \/ \E c \in Callers : pc[c] = "pollGate"

\* No event of a dead child is left to be taken for news of the next one
\* ("must not replay as if fresh once a new child is spawned").
EventsAreFresh ==
    \A i \in DOMAIN events :
      events[i] \in {"near", "lost"} => conn \in {"up", "gone", "closing"}

\* A requested service that is down has somebody to bring it up: a retry, or
\* an operation that is about to start it (schedule_phone_key_retry).  An event
\* in the queue does not count: the poll may find it overtaken.
DownServiceHasRetry ==
    Quiet /\ enabled /\ ~started =>
        retry # "none" \/ \E c \in Callers : pc[c] = "start"

\* The core implements PhoneKeyService: at every step, also while operations
\* are under way, a child that maintains presence does so for the vehicle the
\* configuration says is paired, and no pairing appears, changes or goes under
\* a running service (start_phone_key, set_config, generate_key, pair).
Service == INSTANCE PhoneKeyService
    WITH paired  <- IF up /\ cfg.paired THEN cfg.vin ELSE None,
         serving <- IF mode = "off" THEN None ELSE childVin
ImplementsService == Service!Spec
=============================================================================
