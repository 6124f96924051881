SPECIFICATION FairSpec

CONSTANTS
    BLOCK_SIZE = 2
    Scripts <- Conversations
    StrayLens = {}
    MaxResets = 0

INVARIANTS
    TypeOK
    NothingLeftOver
    Solicited

PROPERTIES
    Completes
    HandoverSpec
