CONSTANTS
    NumFiles = 8
    PrefetchDepth = 2
    GroupFiles = 2
    MaxInFlight = 1
    CanFail = {"plan", "submit"}
SPECIFICATION FairSpec
INVARIANTS
    StagingBound
    FilesInOrder
PROPERTIES
    Terminates
