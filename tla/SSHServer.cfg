SPECIFICATION FairSpec
CONSTANTS
    s1 = s1
    s2 = s2
    c1 = c1
    k1 = k1
    k2 = k2
    Srv = {s1, s2}
    Conn = {c1}
    Stop = {k1, k2}
    MaxTemp = 1
INVARIANTS
    WgCounts
    OpenIsTracked
    ShutdownWaited
PROPERTIES
    StopsEnd
    StoppedServeReturns
CHECK_DEADLOCK FALSE
