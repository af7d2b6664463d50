\* Two presence loops that may overlap, one link.
SPECIFICATION Spec
CONSTANTS
    g1 = g1
    g2 = g2
    l1 = l1
    l2 = l2
    None = None
    Requester = Requester
    Loops = {g1, g2}
    Links = {l1}
    Requests = {"command", "presence-start", "presence-stop"}
    InboxCap = 1
    MaxFired = 1
SYMMETRY Symmetry
VIEW ButReports
INVARIANTS
    OnePresenceLoop
    ScannerNeedsLoop
    IdleTimerGuardsLink
PROPERTIES
    CancelledLoopNeverConnects
\* The child exits after its parent is gone.
CHECK_DEADLOCK FALSE
