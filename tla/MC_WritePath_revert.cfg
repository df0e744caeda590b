SPECIFICATION Spec
CONSTANTS
    h1 = h1
    h2 = h2
    s1 = s1
    s2 = s2
    fader = fader
    mute = mute
    None = None
    Jobs <- FourJobs
    Hosts <- TwoHosts
    Serials <- OneDesk
    Addrs <- OneLeaf
    Values <- ZeroTwo
    Kept <- Whole
    Start = 0
    SwapInWindow = FALSE
    Edits <- FaderTwice
    Offered <- NowOnly
    MaxWrites = 2
INVARIANTS RevertAllRestores
CONSTRAINT Untroubled
SYMMETRY HostsAlike
CHECK_DEADLOCK FALSE
