SPECIFICATION Spec

CONSTANTS
    MAX_PERMS = 2
    UINT16_RANGE = 2
    GroupIds = {0, 1}
    Numbers = {0, 1, 2}
    MaxEntries = 3

INVARIANTS
    BuiltAsListed
    NothingGained

\* The build ends.
CHECK_DEADLOCK FALSE
