\* The worker deletes from enqueueMap while the handler is at it.
CONSTANTS
    None = None
    n1 = n1
    n2 = n2
    Nodes = {n1, n2}
    Stable = {n2}
    MaxRev = 2
    MaxPending = 1
    RebootRetries = 1
    PollTries = 1
    MaxKills = 0
SPECIFICATION Spec
CHECK_DEADLOCK FALSE
INVARIANTS
    LockOrdersMapAccess
