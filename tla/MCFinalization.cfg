SPECIFICATION Spec
CONSTANTS
    Learners <- MCLearners
    NumFragments = 1
    Scenarios <- MCScenarios
    MaxGen = 3
    Restless = {1}
INVARIANTS
    AckedIsFinal
    NoneOverlooked
PROPERTIES
    FinalizationEnds
