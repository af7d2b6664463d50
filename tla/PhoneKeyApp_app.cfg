\* The worker thread, the user and the service, one vehicle.
SPECIFICATION FairAppSpec
CONSTANTS
    v1 = v1
    v2 = v2
    None = None
    Worker = Worker
    Callers = {Worker}
    Ops = {"replace_key", "pair", "start", "poll", "resume", "drop"}
    Vins = {v1}
    Versions = {"V2"}
    EventCap = 1
INVARIANT
    AwakeWhileServing
PROPERTIES
    PairedKeyRuns
    LossIsShown
