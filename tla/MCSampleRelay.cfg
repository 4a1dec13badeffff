SPECIFICATION Spec
CONSTANTS
    Procs = {1, 2}
    PerProc = 3
    MaxItems = 2
    Prefetch = 2
    Required = 2
    Unfit <- MCUnfit
    Scenarios <- MCScenarios
INVARIANTS
    IndexInOrder
    WrittenIsKept
    CursorSkipsNothing
    TrainedOnce
PROPERTIES
    WrittenIsRead
