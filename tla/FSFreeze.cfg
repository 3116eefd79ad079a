SPECIFICATION FairSpec
CONSTANTS
    h1 = h1
    h2 = h2
    root = root
    data = data
    Handler = {h1, h2}
    FS = {root, data}
    Root = root
    NoFreeze = {}
    MaxFreezes = 2
    MaxFaults = 1
    MaxMounts = 2
    MaxStops = 2
INVARIANTS
    GateSound
PROPERTIES
    UnfreezeThawsAll
    ImplementsGate
    EventuallyRecovered
    EveryRequestReturns
    StopEnds
CHECK_DEADLOCK FALSE
