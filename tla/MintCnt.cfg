\* A fault-free store: the counts are the production counts.
CONSTANTS
    Validators <- MCValidators3
    EpochInterval = 3
    BlockInterval = 1
    MaxTime = 7
    MaxLost = 0
SPECIFICATION Spec
INVARIANTS
    TypeOK
    MintCntCounts
CONSTRAINT TimeBound
