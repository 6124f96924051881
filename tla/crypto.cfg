SPECIFICATION Spec

CONSTANTS
    BLOCK_SIZE = 2
    KEY_SIZE = 3
    HASH_SIZE = 2
    BITS = 4
    MaxLen = 4
    Keys <- MCKeys
    Bytes = {0, 1, 9, 14}
    Stale = {0, 5}

INVARIANTS
    TypeOK
    MessageRestored
    HashExact

\* crypto_example returns.
CHECK_DEADLOCK FALSE
