CONSTANTS
    NumFiles = 5
    PrefetchDepth = 2
    GroupFiles = 2
    MaxInFlight = 1
    CanFail = {}
SPECIFICATION FairSpec
INVARIANTS
    ReturnsEveryFile
