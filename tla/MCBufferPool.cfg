CONSTANTS
    t1 = t1
    t2 = t2
    a1 = a1
    a2 = a2
    a3 = a3
    a4 = a4
    Threads = {t1, t2}
    NoThread = NoThread
    Devices = {0}
    Addrs = {a1, a2, a3, a4}
    Sizes = {1, 2}
    MaxIdle = 2
    MaxAcquires = 3
SPECIFICATION FairSpec
CHECK_DEADLOCK FALSE
INVARIANTS
    TypeOK
    ExclusiveMemory
    ByteAccounting
    IdleWithinBudget
    HandleConservation
PROPERTIES
    CallsReturn
