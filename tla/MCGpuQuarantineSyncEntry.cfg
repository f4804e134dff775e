CONSTANTS
    c1 = c1
    c2 = c2
    Callers = {c1, c2}
    Readers = {}
    MaxSubmits = 2
    MaxCalls = 2
    MaxInFlight = 2
    CanStick = {}
    InterruptAt <- SyncEntry
CHECK_DEADLOCK FALSE
SPECIFICATION Spec
PROPERTIES
    FailsClosed
