SPECIFICATION Spec
CONSTANTS
    Cells <- MCCells
    Engines <- MCEngines
    Startup = "medium"
    Requests = {r1, r2}
    MaxRecovery = 1
    MaxPasses = 1
    Scenarios <- MCScenarios
INVARIANTS
    ServesCommitted
    NoneCordoned
    RequiredSticks
PROPERTIES
    CommitsWhatServes
    AnswersAgree
    RequestsEnd
