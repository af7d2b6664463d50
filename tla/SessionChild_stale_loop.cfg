\* presence-stop and presence-start in quick succession.
SPECIFICATION Spec
CONSTANTS
    g1 = g1
    g2 = g2
    l1 = l1
    l2 = l2
    None = None
    Requester = Requester
    Loops = {g1, g2}
    Links = {l1}
    Requests = {"command", "presence-start", "presence-stop"}
    InboxCap = 1
    MaxFired = 0
PROPERTY CancelledLoopClosesNothing
CHECK_DEADLOCK FALSE
