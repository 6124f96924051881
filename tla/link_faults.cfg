SPECIFICATION Spec

CONSTANTS
    BLOCK_SIZE = 2
    Scripts <- FaultyConversations
    StrayLens = {2}
    MaxResets = 2

CONSTRAINT StillLogs

INVARIANT InOrder

\* Without timeouts, an end whose partner was reset waits forever.
CHECK_DEADLOCK FALSE
