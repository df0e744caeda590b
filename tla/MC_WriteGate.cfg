SPECIFICATION GateFairSpec
CONSTANTS
    j1 = j1
    j2 = j2
    j3 = j3
    h1 = h1
    s1 = s1
    s2 = s2
    fader = fader
    None = None
    Jobs <- MCJobs
    Hosts <- MCHosts
    Serials <- MCSerials
    Addrs <- MCAddrs
    Values <- MCValues
    Kept <- MCKept
    Start = 0
    SwapInWindow = TRUE
CHECK_DEADLOCK FALSE
INVARIANTS OneOnTheWire NoJobIsLost NothingWaitsBehindAClosedGate
PROPERTIES EveryWriteEnds
