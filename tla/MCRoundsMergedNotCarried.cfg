SPECIFICATION Safety
CONSTANTS
    a = a
    b = b
    Learners <- MCLearners
    NumFragments = 1
    First = 0
    End = 1
    Quorum = 2
    Pipeline = 1
    TotalSteps = 2
    MaxBaseLag = 1
    Grace = TRUE
    EqualWeights = FALSE
    CheckpointEvery = 0
    PolicySweep = FALSE
    AsyncCheckpoint = FALSE
    StrictLearners = FALSE
    DrainTimeout = FALSE
    LateHello = 0
    MaxBreaks = 0
    MaxCrashes = 0
    MaxAttempts = 2
SYMMETRY LearnerSymmetry
INVARIANTS
    MergedNotCarried
