SPECIFICATION Safety
CONSTANTS
    a = a
    b = b
    Learners <- MCLearners
    NumFragments = 2
    First = 0
    End = 2
    Quorum = 2
    Pipeline = 2
    TotalSteps = 4
    MaxBaseLag = 0
    Grace = FALSE
    EqualWeights = TRUE
    CheckpointEvery = 1
    PolicySweep = TRUE
    AsyncCheckpoint = TRUE
    StrictLearners = TRUE
    DrainTimeout = FALSE
    LateHello = 1
    MaxBreaks = 0
    MaxCrashes = 1
    MaxAttempts = 1
SYMMETRY LearnerSymmetry
INVARIANTS
    TypeOK
    NeverFails
    CommitsFit
    CommittedCut
    DurableBeforeVisible
PROPERTIES
    ImplementsSequential
