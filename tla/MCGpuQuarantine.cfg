CONSTANTS
    c1 = c1
    c2 = c2
    Callers = {c1, c2}
    Readers = {c2}
    MaxSubmits = 2
    MaxCalls = 2
    MaxInFlight = 2
    CanStick = {c2}
    InterruptAt <- HandledPoints
CHECK_DEADLOCK FALSE
SPECIFICATION FairSpec
INVARIANTS
    OwnersRetained
    ReturnedIsFinished
PROPERTIES
    FailsClosed
    CallsEnd
