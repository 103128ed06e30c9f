\* A maximum that can be passed and one node less than it; a job that takes
\* longer than the wait for it.
CONSTANTS
    NoJob = NoJob
    w1 = w1
    w2 = w2
    w3 = w3
    Workers = {w1, w2, w3}
    Masters = {}
    MaxSize = 2
    UpTurns = 1
    DownTurns = 1
    MaxAutoJobs = 1
    MaxFailures = 1
    MaxRuns = 1
SPECIFICATION FairSpec
\* With all nodes gone, or the bounds used up, nothing happens any more.
CHECK_DEADLOCK FALSE
INVARIANTS
    ReadyAtALookIsSpared
    WithinMax
PROPERTIES
    QuietRepairReplaces
    BatchSpec
    RunOnceReturns
