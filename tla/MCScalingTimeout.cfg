\* A job that never ends, and the count that starts anew.
CONSTANTS
    NoJob = NoJob
    w1 = w1
    w2 = w2
    w3 = w3
    Workers = {w1, w2, w3}
    Masters = 0
    MinSize = 1
    MaxSize = 2
    MaxAutoJobs = 1
    MaxFailures = 1
    MayLapse = FALSE
    CountLimit = 2
    MaxCalls = 1
SPECIFICATION CallerFairSpec
CHECK_DEADLOCK FALSE
PROPERTIES
    WaitTimesOut
