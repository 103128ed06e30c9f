\* One node that fails, recovers and fails again, another in its way until then,
\* and one restart.
CONSTANTS
    None = None
    n1 = n1
    n2 = n2
    Nodes = {n1, n2}
    Stable = {n2}
    MaxRev = 3
    MaxPending = 1
    RebootRetries = 1
    PollTries = 1
    MaxKills = 1
SPECIFICATION LiveSpec
CHECK_DEADLOCK FALSE
PROPERTIES
    NotReadyIsHandedOver
    DeliveryFair
