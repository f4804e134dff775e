CONSTANTS
    q1 = q1
    q2 = q2
    q3 = q3
    s1 = s1
    Samples = {s1}
    Questions = {q1, q2, q3}
    MaxRevision = 2
    Limit = 3
    MaxReports = 4
    MaxConcurrent = 1
    Burst = 1
    MaxSessions = 2
CHECK_DEADLOCK FALSE
SPECIFICATION FairSpec
INVARIANTS
    JobsAccounted
    StaleIsMarked
    AutomaticOnce
    NotOvertaken
PROPERTY
    JobsEnd
