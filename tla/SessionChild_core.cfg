\* One presence loop, two links, every kind of request.
SPECIFICATION Spec
CONSTANTS
    g1 = g1
    g2 = g2
    l1 = l1
    l2 = l2
    None = None
    Requester = Requester
    Loops = {g1}
    Links = {l1, l2}
    Requests = {"command", "state", "body-controller-state", "pair", "navigate", "keygen", "presence-start", "presence-stop"}
    InboxCap = 1
    MaxFired = 1
SYMMETRY Symmetry
INVARIANTS
    TypeOK
    CachedLinkIsAuthenticated
    QuietConnect
    DepartureSparesLinks
    InsideBelongsToVisit
PROPERTIES
    AnswersOnOwnLink
\* The child exits after its parent is gone.
CHECK_DEADLOCK FALSE
