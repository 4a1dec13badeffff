SPECIFICATION Spec
CONSTANTS
    NumFragments = 7
    ShardCount = 3
    TotalSteps = 17
INVARIANTS
    CutIsRoundRobin
    UnionIsUnsharded
