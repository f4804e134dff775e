SPECIFICATION UploadSpec
CHECK_DEADLOCK FALSE
CONSTANTS
    w1 = w1
    w2 = w2
    Workers = {w1, w2}
    Jobs <- MCJobs
INVARIANT UploadedBeforeUse
INVARIANT VerdictExact
PROPERTY BuffersOutliveKernels
PROPERTY RunEnds
