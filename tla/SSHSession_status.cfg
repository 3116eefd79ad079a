SPECIFICATION Spec
CONSTANTS
    MaxReq = 2
INVARIANTS
    StatusAsReported
CHECK_DEADLOCK FALSE
