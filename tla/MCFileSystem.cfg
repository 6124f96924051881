SPECIFICATION MCSpec

CONSTANTS
    PAGE_WORDS = 4
    Erased = Erased
    MAX_FILE_COUNT = 2
    FILE_PAGE_COUNT = 2
    FILES_START_ADDR = 4
    FLASH_FAT_START = 20
    UUID_WORDS = 1
    HEADER_SIZE = 16
    MAX_CONTENTS_SIZE = 48
    INT_MAX = 100
    short = short
    long = long
    other = other
    Files = {short, long, other}
    ContentsLen <- MCContentsLen
    Uuids = {u1, u2}
    NoCall = NoCall
    Empty = Empty
    Damaged = Damaged
    MaxCalls = 3
    MaxFaults = 1

SYMMETRY UuidSymmetry

INVARIANTS
    TypeOK
    FatCoherent
    Durable
    NoBlend
    ProgramsErased

PROPERTIES
    SlotIsolation
    StoreSpec
