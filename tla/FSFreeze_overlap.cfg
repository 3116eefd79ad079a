SPECIFICATION Spec
CONSTANTS
    h1 = h1
    h2 = h2
    root = root
    data = data
    fuse = fuse
    Handler = {h1, h2}
    FS = {root, data, fuse}
    Root = root
    NoFreeze = {fuse}
    MaxFreezes = 1
    MaxFaults = 0
    MaxMounts = 0
    MaxStops = 0
PROPERTIES
    UnfreezeAsDocumented
