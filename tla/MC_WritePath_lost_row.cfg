SPECIFICATION Spec
CONSTANTS
    h1 = h1
    h2 = h2
    s1 = s1
    s2 = s2
    fader = fader
    mute = mute
    None = None
    Jobs <- TwoJobs
    Hosts <- OneHost
    Serials <- OneDesk
    Addrs <- OneLeaf
    Values <- ZeroTwo
    Kept <- Clamped
    Start = 0
    SwapInWindow = FALSE
    Edits <- FaderTo2
    Offered <- NowOnly
    MaxWrites = 2
INVARIANTS EverySendHasARow
CHECK_DEADLOCK FALSE
