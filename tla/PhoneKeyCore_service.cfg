\* Two threads that call every operation, one vehicle.
SPECIFICATION Spec
CONSTANTS
    a = a
    b = b
    v1 = v1
    v2 = v2
    None = None
    Callers = {a, b}
    Ops = {"run", "generate_key", "replace_key", "pair", "start", "poll", "resume", "set_config", "drop"}
    Vins = {v1}
    Versions = {"V2"}
    EventCap = 2
SYMMETRY Symmetry
INVARIANTS
    TypeOK
    LossIsReported
    EventsAreFresh
    DownServiceHasRetry
