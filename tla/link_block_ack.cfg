SPECIFICATION Spec

CONSTANTS
    BLOCK_SIZE = 2
    Scripts <- RefusingConversations
    StrayLens = {}
    MaxResets = 1

PROPERTY BlockAckHonoured

CHECK_DEADLOCK FALSE
