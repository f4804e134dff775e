CONSTANTS
    r0 = r0
    r1 = r1
    r2 = r2
    Ranks = {r0, r1, r2}
    Root = r0
    MaxRounds = 2
    CanFail <- Stages
SPECIFICATION FairSpec
INVARIANTS
    CollectivesMatch
    OutcomeExact
PROPERTIES
    RoundsAreBarriers
    Terminates
