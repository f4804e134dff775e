CONSTANTS
    l1 = l1
    l2 = l2
    a1 = a1
    a2 = a2
    None = None
    Launches = {l1, l2}
    Attempts = {a1, a2}
    Ranks = {0, 1}
    Root = 0
    Copies = {1, 2}
    Scenarios <- ScenariosDef
CHECK_DEADLOCK FALSE
SPECIFICATION FairSpec
INVARIANTS
    OneOwner
    SummaryTruthful
PROPERTIES
    EvidenceImmutable
    UntroubledSucceeds
    CallsEnd
