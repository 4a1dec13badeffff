SPECIFICATION Spec
CONSTANTS
    NumFragments = 2
    First = 0
    End = 2
    TotalSteps = 3
    QueueCap = 1
INVARIANTS
    TargetsCovered
    NeverBackwards
PROPERTIES
    CatchUpEnds
    EveryVersionArrives
    TailAfterOwed
CHECK_DEADLOCK FALSE
