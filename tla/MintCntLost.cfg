\* One lost node of the mintCnt trie.
CONSTANTS
    Validators <- MCValidators2
    EpochInterval = 3
    BlockInterval = 1
    MaxTime = 5
    MaxLost = 1
SPECIFICATION Spec
INVARIANT MintCntFaultsConfined
CONSTRAINT TimeBound
