CONSTANTS
    w1 = w1
    w2 = w2
    Workers = {w1, w2}
    NoWorker = NoWorker
    NumBatches = 4
    BatchFiles <- TwoFilesThenNone
    Reads = {1, 2}
    QueueDepth = 1
    CanFail = {"open", "submit", "read", "plan", "decode"}
SPECIFICATION FairSpec
INVARIANTS
    ReadsOwned
    BatchesComplete
    BackPressure
PROPERTIES
    ImplementsDelivery
    Terminates
