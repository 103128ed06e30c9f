\* Nothing is bounded: any number of calls, tasks and failures.
CONSTANT NoTask = NoTask
SPECIFICATION FairSpec
INVARIANTS
    NilMeansOn
PROPERTIES
    PowerCycleSpec
    CallReturns
