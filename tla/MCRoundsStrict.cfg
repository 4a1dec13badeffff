SPECIFICATION Spec
CONSTANTS
    a = a
    b = b
    Learners <- MCLearners
    NumFragments = 1
    First = 0
    End = 1
    Quorum = 2
    Pipeline = 1
    TotalSteps = 2
    MaxBaseLag = 0
    Grace = FALSE
    EqualWeights = TRUE
    CheckpointEvery = 1
    PolicySweep = TRUE
    AsyncCheckpoint = TRUE
    StrictLearners = TRUE
    DrainTimeout = FALSE
    LateHello = 2
    MaxBreaks = 1
    MaxCrashes = 1
    MaxAttempts = 1
PROPERTIES
    Terminates
