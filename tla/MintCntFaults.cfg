\* Up to two lost nodes of the mintCnt trie.
CONSTANTS
    Validators <- MCValidators2
    EpochInterval = 3
    BlockInterval = 1
    MaxTime = 7
    MaxLost = 2
SPECIFICATION Spec
INVARIANT MintCntNeverOvercounts
CONSTRAINT TimeBound
