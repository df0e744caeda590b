SPECIFICATION Spec
CONSTANTS
    h1 = h1
    h2 = h2
    None = None
    Hosts <- TwoHosts
    Calls <- ThreeCalls
    Watches <- OneWatch
    LostAfter = 2
    MaxClears = 4
INVARIANTS HostIsTheHandshakes
CHECK_DEADLOCK FALSE
