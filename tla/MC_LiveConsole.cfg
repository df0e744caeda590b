SPECIFICATION FairSpec
CONSTANTS
    h1 = h1
    h2 = h2
    None = None
    Hosts <- OneHost
    Calls <- ThreeCalls
    Watches <- TwoWatches
    LostAfter = 2
    MaxClears = 4
CHECK_DEADLOCK FALSE
INVARIANTS WalkedSinceTheClear
PROPERTIES KeepsConnection EndsByItsOwn BusyEnds
