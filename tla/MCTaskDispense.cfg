SPECIFICATION Spec
CONSTANTS
    Islands = {1, 2}
    MaxIncarnation = 2
    Streams = {1, 2}
    Rows <- MCRows
    Weight <- MCWeight
    Passes = 1
    StreamPositions = 4
    Accept <- MCAccept
    MaxRedo = 1
    MaxBlock = 2
    PickFresh <- PickByDeadline
    Block <- MCBlock
    Prefetch = 1
    Unsteady = {1}
    Reports <- MCReports
    Scenarios <- MCScenarios
INVARIANTS
    Accounted
    TrainedOnce
    LiveIsTracked
    HoldingsAgree
    RefusedOnlyOrphans
    EndMeansDone
    CloseGivesBack
CHECK_DEADLOCK FALSE
