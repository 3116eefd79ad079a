SPECIFICATION Spec
CONSTANTS
    Addr4 = {"a4", "b4", "h4"}
    Addr6 = {"a6"}
    Host4 = {"h4"}
    Extra = {"net"}
    Configs <- MCConfigs
    MaxChanges = 2
    FileRequest = {r1, r2}
    Perm = {"g", "o"}
    Special = {"s"}
    Mask = {"o"}
    Modes <- MCModes
    Text = {"root", "7", "-1"}
    Number <- MCNumber
    IdSpan = 16
    Accounts <- MCAccounts
    Mounts <- MCMounts
    Client = {c1, c2}
    MaxBoots = 3
INVARIANTS
    NetinitDelivers
    NetinitRepeats
    NetworkSound
    UmaskSound
    OwnerResolves
    MountsCovered
    AccessSound
