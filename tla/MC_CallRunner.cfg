SPECIFICATION FairSpec
CONSTANTS
    c1 = c1
    c2 = c2
    c3 = c3
    NoCall = NoCall
    Calls <- MCCalls
    Announced <- MCAnnounced
CHECK_DEADLOCK FALSE
INVARIANTS SettledOnce RunningIsHeld
PROPERTIES KeepsPromise EveryCallSettles
