SPECIFICATION LayoutSpec

CONSTANTS
    PAGE_WORDS = 128
    Erased = Erased
    MAX_FILE_COUNT = 8
    FILE_PAGE_COUNT = 9
    FILES_START_ADDR = 8192
    FLASH_FAT_START = 29696
    UUID_WORDS = 2
    HEADER_SIZE = 40
    MAX_CONTENTS_SIZE = 8192
    INT_MAX = 2147483647
    Files <- MCFiles
    ContentsLen <- MCContentsLen
    Uuids = {u1}
    NoCall = NoCall
    Empty = Empty
    Damaged = Damaged
    MAX_NAME_SIZE = 32
    MAX_PERMS = 8

INVARIANTS
    PagesExact
    RefusedByListen

\* write_file goes on as in FileSystem.
CHECK_DEADLOCK FALSE
