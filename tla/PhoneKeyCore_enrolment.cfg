\* One thread, two vehicles, every schema an earlier version may have left.
SPECIFICATION Spec
CONSTANTS
    a = a
    b = b
    v1 = v1
    v2 = v2
    None = None
    Callers = {a}
    Ops = {"run", "share", "generate_key", "replace_key", "pair", "start", "poll", "resume", "set_config", "drop"}
    Vins = {v1, v2}
    Versions = {"V0", "V1", "V2", "newer"}
    EventCap = 1
INVARIANTS
    PairedKeyIsEnrolled
    PresenceIsWanted
    CommandsReachConfiguredVehicle
PROPERTIES
    ImplementsService
