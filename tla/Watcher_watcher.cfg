SPECIFICATION FairSpec
INVARIANTS
    NothingPendsWhilePaused
    NoWakeupIsLost
PROPERTIES
    GattIsLeftQuiet
    DiscoveryReturns
    StopReturns
