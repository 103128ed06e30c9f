\* Two nodes: one that can recover and fail again, and one whose notifications
\* and repair get in its way.
CONSTANTS
    None = None
    n1 = n1
    n2 = n2
    Nodes = {n1, n2}
    Stable = {n2}
    MaxRev = 3
    MaxPending = 1
    RebootRetries = 1
    PollTries = 1
    MaxKills = 0
SPECIFICATION Spec
\* Once all nodes are gone and their versions used up, nothing happens.
CHECK_DEADLOCK FALSE
INVARIANTS
    TypeOK
    UnmarkJustified
    FirstEntryStaysMarked
    MarkWasOffered
PROPERTIES
    DeliverySpec
