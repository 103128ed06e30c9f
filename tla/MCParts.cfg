\* Three results, so that one node can be deleted again, handed out twice.
CONSTANTS
    d1 = d1
    d2 = d2
    g1 = g1
    g2 = g2
    n1 = n1
    n2 = n2
    a = a
    b = b
    Gone = Gone
    Empty = Empty
    Deleters = {d1, d2}
    Groups = {g1, g2}
    Names = {n1, n2}
    Reporter = Reporter
    NoOne = NoOne
    MaxAdds = 3
    MaxTakes = 2
    Threads = {"t1", "t2"}
    maxItems = 2
    itemLifetime = 2
    MaxLogs = 4
    MaxTime = 4
    OkTotalUnreadyCount = 0
    MaxTotalUnreadyPercentage = 50
    MaxNodes = 2
    MaxStatusTime = 2
    MaxStatuses = 3
    KnownGroups = {g1}
    MaxUpdates = 4
    Sites = {a, b}
    Sizes = {1, 2}
    MaxEdits = 2
    Pods = {"quick", "slow"}
    Grace <- GraceOfPods
    MaxGracefulTermination = 2
    EvictionTime = 3
    WaitBetweenRetries = 1
SPECIFICATION MCSpec
INVARIANTS
    TypesOK
    CountsDeletions
    TransitionStartsTheRun
    SinceIsFirstSeen
    ReadyGroupsAreHealthy
    RequestNamesOneSite
    ResultIsTrue
PROPERTIES
    HandedOutIsFrozen
    DeletionsSpec
    GetsTheRecent
\* Every part comes to its bounds.
CHECK_DEADLOCK FALSE
