SPECIFICATION FairSpec
CONSTANTS
    MaxSig = 3
    MaxBreak = 1
    MaxCalls = 3
    BufSize = 2
    Drain = TRUE
INVARIANTS
    SignalsInv
PROPERTIES
    HandlerFinishes
    BufferedArrives
CHECK_DEADLOCK FALSE
