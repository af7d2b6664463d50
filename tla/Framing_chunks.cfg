\* Chunks that are lost or late, and goroutines that send over a link whose
\* chunk size has to be found out.
SPECIFICATION Spec
CONSTANTS
    Base = 4
    MaxMessageSize = 3
    InboxCap = 1
    Block = 3
    Messages <- MCMessages
    Senders = {"dispatcher", "responder", "loop"}
    FrameSize = 7
    Guaranteed = 2
    BlockLengths = {2, 3, 4}
    MaxMessages = 4
    MaxFaults = 2
CONSTRAINT OneDirection
INVARIANTS
    TypeOK
    DeliveredIsSent
    FramesAreWhole
CHECK_DEADLOCK FALSE
