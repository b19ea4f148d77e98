\* A store that may lose up to two trie nodes (none lost is one of the cases).
CONSTANTS
    Addr <- MCAddr
    None = None
    MaxLost = 2
SPECIFICATION Spec
INVARIANTS
    TypeOK
    DamageConfined
