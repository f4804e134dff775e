CONSTANTS
    w1 = w1
    w2 = w2
    Workers = {w1, w2}
    NumRounds = 2
    Faults <- AllFaults
SPECIFICATION FairSpec
INVARIANTS
    CommandsInStep
    VerdictExact
PROPERTIES
    ImplementsBulkRun
    Terminates
