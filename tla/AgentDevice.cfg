SPECIFICATION DeviceFairSpec
CONSTANTS
    virtio = virtio
    a1 = a1
    a2 = a2
    Main = virtio
    Addr = {a1, a2}
    MaxAttempt = 2
    MaxRpc = 2
INVARIANTS
    ServeInv
    NothingLeftOfDevice
PROPERTIES
    StopCompletes
CHECK_DEADLOCK FALSE
