\* Two nodes that do not change, so that a node that stays not ready is offered
\* as the same object again and again.
CONSTANTS
    None = None
    n1 = n1
    n2 = n2
    Nodes = {n1, n2}
    Stable = {n2}
    MaxRev = 1
    MaxPending = 1
    RebootRetries = 1
    PollTries = 1
    MaxKills = 0
SPECIFICATION FairSpec
CHECK_DEADLOCK FALSE
PROPERTIES
    ReprocessedAfterUnmark
