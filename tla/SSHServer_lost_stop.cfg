SPECIFICATION FairSpec
CONSTANTS
    s1 = s1
    c1 = c1
    k1 = k1
    Srv = {s1}
    Conn = {c1}
    Stop = {k1}
    MaxTemp = 0
PROPERTIES
    ServeAsDocumented
CHECK_DEADLOCK FALSE
