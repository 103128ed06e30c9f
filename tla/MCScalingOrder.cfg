\* Nobody else uses the portal, and no job fails: only a request is refused.
CONSTANTS
    NoJob = NoJob
    w1 = w1
    w2 = w2
    w3 = w3
    Workers = {w1, w2, w3}
    Masters = 0
    MinSize = 1
    MaxSize = 2
    MaxAutoJobs = 0
    MaxFailures = 0
    MayLapse = FALSE
    CountLimit = 2
    MaxCalls = 1
SPECIFICATION Spec
CHECK_DEADLOCK FALSE
PROPERTIES
    RemoveAfterCreate
