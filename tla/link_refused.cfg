SPECIFICATION Spec

CONSTANTS
    BLOCK_SIZE = 2
    Scripts <- RefusingConversations
    StrayLens = {}
    MaxResets = 0

INVARIANTS
    RefusedNotSent
    KeepsPlace

\* A refused packet is not answered, so that its writer may wait forever.
CHECK_DEADLOCK FALSE
