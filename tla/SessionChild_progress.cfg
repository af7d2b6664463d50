\* Liveness: one presence loop, one link, commands and presence-stop.
SPECIFICATION FairSpec
CONSTANTS
    g1 = g1
    g2 = g2
    l1 = l1
    l2 = l2
    None = None
    Requester = Requester
    Loops = {g1}
    Links = {l1}
    Requests = {"command", "navigate", "presence-start", "presence-stop"}
    InboxCap = 1
    MaxFired = 0
PROPERTIES
    DroppedLinkIsReleased
    StatusIsCorrected
    RequestIsAnswered
    CancelledLoopReturns
    ResponderReturns
\* The child exits after its parent is gone.
CHECK_DEADLOCK FALSE
