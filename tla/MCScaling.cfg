\* Three worker names, no master, limits 1 and 2: both orders are chosen.
CONSTANTS
    NoJob = NoJob
    w1 = w1
    w2 = w2
    w3 = w3
    Workers = {w1, w2, w3}
    Masters = 0
    MinSize = 1
    MaxSize = 2
    MaxAutoJobs = 1
    MaxFailures = 2
    MayLapse = TRUE
    CountLimit = 2
    MaxCalls = 2
SPECIFICATION FairSpec
\* Without workers there is nothing to replace, and the bounds run out.
CHECK_DEADLOCK FALSE
INVARIANTS
    JobsAwaited
    WithinLimits
PROPERTIES
    ReplacementSpec
    QuietCallReplaces
    OnlyErrorBlocks
