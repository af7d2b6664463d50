\* A service that runs, and is polled.
SPECIFICATION AppSpec
CONSTANTS
    v1 = v1
    v2 = v2
    None = None
    Worker = Worker
    Callers = {Worker}
    Ops = {"start", "poll"}
    Vins = {v1}
    Versions = {"V2"}
    EventCap = 2
INVARIANT
    ConnectedIsTrue
