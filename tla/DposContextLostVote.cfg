\* A store that may lose one trie node: KickoutCandidate keeps a vote row.
CONSTANTS
    Addr <- MCAddr
    None = None
    MaxLost = 1
SPECIFICATION Spec
INVARIANT VotesForCandidates
