SPECIFICATION FairSpec
CONSTANTS
    Upload = {"any", "full"}
    Download = {"down"}
    Sources <- MCSources
    MaxChunks = 2
    Old = "old"
    MaxDeaths = 1
INVARIANTS
    UploadInv
    CopyWhole
PROPERTIES
    CopiesAreAtomic
    UploadEnds
CHECK_DEADLOCK FALSE
