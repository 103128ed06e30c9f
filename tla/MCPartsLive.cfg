\* Two edits and two failed requests fall into any two calls; a condition, a
\* taint and its removal are written after the registration of the node.
CONSTANTS
    Writers = {"w1", "w2"}
    MaxEdits = 2
    MaxFaults = 2
    MaxVersions = 4
    Pods = {"a", "b", "daemon", "bare"}
    Kind <- KindOfPods
SPECIFICATION MCSpec
INVARIANTS
    ReadinessOfSets
    NothingSlipsIn
PROPERTIES
    EditsSurvive
    WriterGetsThrough
    NotReadyIsListed
    NothingStays
\* Every part comes to an end or to its bounds.
CHECK_DEADLOCK FALSE
