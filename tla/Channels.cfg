SPECIFICATION ChannelSpec
CONSTANTS
    MaxReq = 5
    Conn = {c1, c2}
    Fwd = {1, 2}
    Fixed = {"p"}
    AnyPort = "any"
    None = None
    Link = {l1}
    Pipe = {p1}
INVARIANTS
    SessionInv
    ForwardInv
    ProxyInv
PROPERTIES
    HandlerInputsStable
    StatusBeforeClose
    SessionEnds
    ForwardEnds
    DeadEntriesGo
    ProxyEnds
CHECK_DEADLOCK FALSE
