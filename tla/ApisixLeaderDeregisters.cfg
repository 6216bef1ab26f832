SPECIFICATION Spec
CONSTANTS
    p1 = p1
    p2 = p2
    p3 = p3
    p4 = p4
    m1 = m1
    m2 = m2
    m3 = m3
    m4 = m4
    c1 = c1
    c2 = c2
    c3 = c3
    None = None
    Pods = {p1, p2}
    NRoutes = 1
    Inline = {}
    Callers = {m1, m2}
    Ctls = {c1, c2}
    PodOf <- TwoPods
    RegisterMode <- BothLeader
    DeregisterOnShutdown <- FlagTrue
    InvalidElection = {}
    MaxCalls <- TwoAndOneCalls
    MaxLate = 0
    MaxFaults = 0
INVARIANTS
    DeregisteredIsGone
CHECK_DEADLOCK FALSE
