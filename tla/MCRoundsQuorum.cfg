SPECIFICATION Safety
CONSTANTS
    a = a
    b = b
    Learners <- MCLearners
    NumFragments = 1
    First = 0
    End = 1
    Quorum = 2
    Pipeline = 1
    TotalSteps = 1
    MaxBaseLag <- Unlimited
    Grace = TRUE
    EqualWeights = TRUE
    CheckpointEvery = 0
    PolicySweep = FALSE
    AsyncCheckpoint = FALSE
    StrictLearners = FALSE
    DrainTimeout = FALSE
    LateHello = 0
    MaxBreaks = 2
    MaxCrashes = 0
    MaxAttempts = 2
SYMMETRY LearnerSymmetry
INVARIANTS
    OneVotePerLearner
    AttemptIsolation
PROPERTIES
    SlotMovesAfterDrain
