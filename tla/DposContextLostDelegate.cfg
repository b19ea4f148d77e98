\* A store that may lose one trie node: Delegate keeps the old delegate row.
CONSTANTS
    Addr <- MCAddr
    None = None
    MaxLost = 1
SPECIFICATION Spec
INVARIANT NoDoubleDelegation
