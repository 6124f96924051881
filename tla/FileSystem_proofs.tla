------------------------- MODULE FileSystem_proofs -------------------------
(***************************************************************************)
(* Theorems about FileSystem, for every geometry its assumptions allow,    *)
(* every set of files and uuids, and any number of calls, resets and flash *)
(* errors.                                                                 *)
(***************************************************************************)
EXTENDS FileSystem, TLAPS

-----------------------------------------------------------------------------
(***************************************************************************)
(* Geometry: the entries of two slots do not overlap, nor do their file    *)
(* regions, and none of these overlaps the page of the table.              *)
(***************************************************************************)

(* Multiplication by a natural number is monotonic.                        *)
LEMMA MultiplyMonotonic ==
    ASSUME NEW a \in Nat, NEW b \in Nat, NEW c \in Nat, a <= b
    PROVE  c * a \in Nat /\ c * a <= c * b
<1>1. b - a \in Nat
    OBVIOUS
<1>2. c * (b - a) \in Nat
    BY <1>1
<1>3. c * (b - a) = c * b - c * a
    OBVIOUS
<1> QED
    BY <1>2, <1>3

(* The sizes the geometry is made of are natural numbers.                  *)
LEMMA SizesAreNats ==
    /\ ENTRY_WORDS \in Nat \ {0}
    /\ FAT_WORDS \in Nat \ {0}
    /\ STORED_FILE_WORDS \in Nat \ {0}
    /\ FLASH_PAGE_SIZE \in Nat \ {0}
    /\ PAGE_WORDS \in Nat \ {0}
    /\ MAX_FILE_COUNT \in Nat \ {0}
    /\ UUID_WORDS \in Nat \ {0}
    /\ FLASH_FAT_START \in Nat
    /\ FILES_START_ADDR \in Nat \ {0}
    /\ FAT_WORDS <= PAGE_WORDS
BY GeometryAssumption
   DEF ENTRY_WORDS, FAT_WORDS, STORED_FILE_WORDS, FLASH_PAGE_SIZE

(* A slot's entry lies inside the table, and before those of later slots.  *)
LEMMA EntryBounds ==
    ASSUME NEW s \in Slots
    PROVE  /\ EntryBase(s) \in Nat
           /\ EntryBase(s) + UUID_WORDS < FAT_WORDS
           /\ \A t \in Slots : s < t => EntryBase(s) + UUID_WORDS < EntryBase(t)
<1>1. s \in Nat /\ s + 1 <= MAX_FILE_COUNT /\ s + 1 \in Nat
    BY SizesAreNats DEF Slots
<1>2. ENTRY_WORDS \in Nat /\ ENTRY_WORDS = UUID_WORDS + 1
    BY SizesAreNats DEF ENTRY_WORDS
<1>3. ENTRY_WORDS * (s + 1) = EntryBase(s) + ENTRY_WORDS
    BY <1>1, <1>2 DEF EntryBase
<1>4. EntryBase(s) \in Nat
    BY <1>1, <1>2 DEF EntryBase
<1>5. ENTRY_WORDS * (s + 1) <= ENTRY_WORDS * MAX_FILE_COUNT
    BY <1>1, <1>2, MultiplyMonotonic, SizesAreNats
<1>6. EntryBase(s) + ENTRY_WORDS <= FAT_WORDS
    BY <1>1, <1>2, <1>3, <1>5, SizesAreNats DEF FAT_WORDS
<1>7. ASSUME NEW t \in Slots, s < t
      PROVE  EntryBase(s) + UUID_WORDS < EntryBase(t)
    <2>1. t \in Nat /\ s + 1 <= t
        BY <1>1, <1>7, SizesAreNats DEF Slots
    <2>2. ENTRY_WORDS * (s + 1) <= ENTRY_WORDS * t
        BY <2>1, <1>1, <1>2, MultiplyMonotonic
    <2>3. ENTRY_WORDS * t = EntryBase(t) /\ EntryBase(t) \in Nat
        BY <2>1, <1>2 DEF EntryBase
    <2> QED
        BY <2>2, <2>3, <1>2, <1>3, <1>4, SizesAreNats
<1> QED
    BY <1>2, <1>4, <1>6, <1>7, SizesAreNats

(* A slot's file region lies before the table, and before those of later   *)
(* slots.                                                                  *)
LEMMA RegionBounds ==
    ASSUME NEW s \in Slots
    PROVE  /\ FileStart(s) \in Nat \ {0}
           /\ FileStart(s) + STORED_FILE_WORDS <= FLASH_FAT_START
           /\ Region(s) \subseteq Regions
           /\ \A t \in Slots :
                s < t => FileStart(s) + STORED_FILE_WORDS <= FileStart(t)
<1>1. s \in Nat /\ s + 1 <= MAX_FILE_COUNT /\ s + 1 \in Nat
    BY SizesAreNats DEF Slots
<1>2. STORED_FILE_WORDS * (s + 1) = STORED_FILE_WORDS * s + STORED_FILE_WORDS
    BY <1>1, SizesAreNats
<1>3. STORED_FILE_WORDS * s \in Nat
    BY <1>1, SizesAreNats
<1>4. STORED_FILE_WORDS * (s + 1) <= STORED_FILE_WORDS * MAX_FILE_COUNT
    BY <1>1, MultiplyMonotonic, SizesAreNats
<1>5. STORED_FILE_WORDS * MAX_FILE_COUNT \in Nat
    BY SizesAreNats
<1>6. FileStart(s) \in Nat \ {0}
    BY <1>3, SizesAreNats DEF FileStart
<1>7. FileStart(s) + STORED_FILE_WORDS
        <= FILES_START_ADDR + STORED_FILE_WORDS * MAX_FILE_COUNT
    BY <1>2, <1>3, <1>4, <1>5, SizesAreNats DEF FileStart
<1>8. FileStart(s) + STORED_FILE_WORDS <= FLASH_FAT_START
    BY <1>5, <1>6, <1>7, SizesAreNats, GeometryAssumption
<1>9. Region(s) \subseteq Regions
    BY <1>3, <1>5, <1>6, <1>7, SizesAreNats DEF Region, Regions, FileStart
<1>10. ASSUME NEW t \in Slots, s < t
       PROVE  FileStart(s) + STORED_FILE_WORDS <= FileStart(t)
    <2>1. t \in Nat /\ s + 1 <= t
        BY <1>1, <1>10, SizesAreNats DEF Slots
    <2>2. STORED_FILE_WORDS * (s + 1) <= STORED_FILE_WORDS * t
        BY <2>1, <1>1, MultiplyMonotonic, SizesAreNats
    <2>3. STORED_FILE_WORDS * t \in Nat
        BY <2>1, SizesAreNats
    <2> QED
        BY <2>2, <2>3, <1>2, <1>3, SizesAreNats DEF FileStart
<1> QED
    BY <1>6, <1>8, <1>9, <1>10

(* The words of the table are words of flash.                              *)
LEMMA TableInFlash ==
    ASSUME NEW n \in 0 .. (FAT_WORDS - 1)
    PROVE  /\ FLASH_FAT_START + n \in FlashWords
           /\ FLASH_FAT_START + n \in Page(FLASH_FAT_START)
BY SizesAreNats DEF FlashWords, Page

(* The pages write_file erases hold the whole file, and stay in the slot's *)
(* region; the header lies in the first of them.                           *)
LEMMA FileSizes ==
    ASSUME NEW f \in Files
    PROVE  /\ FileLength(f) \in Nat \ {0}
           /\ FileLength(f) <= INT_MAX
           /\ FileWords(f) \in Nat \ {0}
           /\ PagesNeeded(f) \in Nat \ {0}
           /\ PAGE_WORDS * PagesNeeded(f) \in Nat
           /\ FileWords(f) <= PAGE_WORDS * PagesNeeded(f)
           /\ PAGE_WORDS * PagesNeeded(f) <= STORED_FILE_WORDS
           /\ HEADER_WORDS \in Nat \ {0}
           /\ HEADER_WORDS <= FileWords(f)
           /\ HEADER_WORDS <= PAGE_WORDS
<1> DEFINE len == FileLength(f)
           size == FLASH_PAGE_SIZE
           pages == (len + size - 1) \div size
<1>1. /\ len \in Nat \ {0}
      /\ HEADER_SIZE <= len
      /\ len <= HEADER_SIZE + MAX_CONTENTS_SIZE
      /\ len <= INT_MAX
    BY SizeAssumption, IntAssumption DEF FileLength
<1>2. size \in Nat \ {0} /\ size = 8 * PAGE_WORDS
    BY SizesAreNats DEF FLASH_PAGE_SIZE
<1> HIDE DEF len, size
<1>3. pages \in Nat \ {0} /\ len <= size * pages /\ size * (pages - 1) < len
    BY <1>1, <1>2
<1> HIDE DEF pages
<1>4. FILE_PAGE_COUNT \in Nat \ {0} /\ len <= FILE_PAGE_COUNT * size
    BY <1>1, <1>2, SizeAssumption, GeometryAssumption DEF size
<1>5. pages <= FILE_PAGE_COUNT
    <2>1. SUFFICES ASSUME FILE_PAGE_COUNT <= pages - 1
                   PROVE  FALSE
        BY <1>3, <1>4
    <2>2. size * FILE_PAGE_COUNT <= size * (pages - 1)
        BY <2>1, <1>2, <1>3, <1>4, MultiplyMonotonic
    <2>3. size * FILE_PAGE_COUNT = FILE_PAGE_COUNT * size
        BY <1>2, <1>4
    <2> QED
        BY <2>2, <2>3, <1>1, <1>2, <1>3, <1>4
<1>6. PagesNeeded(f) = pages
    BY <1>3, <1>4, <1>5 DEF PagesNeeded, pages, len, size
<1>7. PAGE_WORDS * pages \in Nat /\ size * pages = 8 * (PAGE_WORDS * pages)
    BY <1>2, <1>3, SizesAreNats
<1>8. PAGE_WORDS * pages <= STORED_FILE_WORDS
    BY <1>3, <1>4, <1>5, MultiplyMonotonic, SizesAreNats DEF STORED_FILE_WORDS
<1>9. ASSUME NEW m \in Nat \ {0}
      PROVE  /\ ProgramWords(m) \in Nat \ {0}
             /\ m <= 8 * ProgramWords(m)
             /\ 8 * ProgramWords(m) < m + 8
    BY DEF ProgramWords, EvenSize32, Size32
<1>10. FileWords(f) \in Nat \ {0} /\ 8 * FileWords(f) < len + 8
    BY <1>1, <1>9 DEF FileWords, len
<1>11. FileWords(f) <= PAGE_WORDS * pages
    BY <1>1, <1>3, <1>7, <1>10
<1>12. /\ HEADER_WORDS \in Nat \ {0}
       /\ 8 * HEADER_WORDS < HEADER_SIZE + 8
    BY <1>9, SizeAssumption DEF HEADER_WORDS
<1>13. HEADER_WORDS <= FileWords(f)
    BY <1>1, <1>9, <1>10, <1>12, SizeAssumption DEF FileWords, len
<1>14. HEADER_WORDS <= PAGE_WORDS
    BY <1>2, <1>12, SizeAssumption, SizesAreNats DEF size
<1>15. /\ PagesNeeded(f) \in Nat \ {0}
       /\ PAGE_WORDS * PagesNeeded(f) \in Nat
       /\ FileWords(f) <= PAGE_WORDS * PagesNeeded(f)
       /\ PAGE_WORDS * PagesNeeded(f) <= STORED_FILE_WORDS
    BY <1>3, <1>6, <1>7, <1>8, <1>11
<1> QED
    BY <1>1, <1>10, <1>12, <1>13, <1>14, <1>15 DEF len

-----------------------------------------------------------------------------
(***************************************************************************)
(* Type correctness                                                        *)
(***************************************************************************)

(* What write_file puts into the table and into the file are cells.        *)
LEMMA WrittenCells ==
    /\ \A c \in Calls, k \in 0 .. UUID_WORDS : Entry(c)[k] \in Cells
    /\ \A f \in Files, k \in Nat : FileWord(f, k) \in Cells
    /\ Erased \in Cells
<1>1. ASSUME NEW c \in Calls, NEW k \in 0 .. UUID_WORDS
      PROVE  Entry(c)[k] \in Cells
    <2>1. c.uuid \in Uuids /\ c.slot \in Slots /\ c.file \in Files
        BY DEF Calls
    <2>2. CASE k < UUID_WORDS
        <3>1. Entry(c)[k] = UuidWord(c.uuid, k) /\ k \in 0 .. (UUID_WORDS - 1)
            BY <2>2, SizesAreNats DEF Entry
        <3> QED
            BY <2>1, <3>1 DEF Cells, FatCells, UuidWord
    <2>3. CASE ~(k < UUID_WORDS)
        <3>1. Entry(c)[k] = LocWord(FileStart(c.slot), FileLength(c.file))
            BY <2>3 DEF Entry
        <3>2. FileStart(c.slot) \in Nat /\ FileLength(c.file) \in Nat
            BY <2>1, RegionBounds, FileSizes
        <3> QED
            BY <3>1, <3>2 DEF Cells, FatCells, LocWord
    <2> QED
        BY <2>2, <2>3
<1>2. \A f \in Files, k \in Nat : FileWord(f, k) \in Cells
    BY DEF FileWord, Cells
<1>3. Erased \in Cells
    BY DEF Cells, FatCells
<1> QED
    BY <1>1, <1>2, <1>3

(* What load_fat reads is a table.                                         *)
LEMMA LoadedTable ==
    ASSUME NEW mem \in [FlashWords -> Cells]
    PROVE  /\ LoadFat(mem) \in [0 .. (FAT_WORDS - 1) -> Cells]
           /\ \A n \in 0 .. (FAT_WORDS - 1) :
                LoadFat(mem)[n] = mem[FLASH_FAT_START + n]
BY TableInFlash DEF LoadFat, ReadWords

(* Erasing or programming keeps the type of flash, and changes only the    *)
(* page or the word it is about.                                           *)
LEMMA FlashOperations ==
    ASSUME NEW mem \in [FlashWords -> Cells], NEW a \in Int
    PROVE  /\ ErasePage(mem, a) \in [FlashWords -> Cells]
           /\ \A w \in FlashWords :
                ErasePage(mem, a)[w] = IF w \in Page(a) THEN Erased ELSE mem[w]
           /\ \A v \in Cells :
                /\ ProgramWord(mem, a, v) \in [FlashWords -> Cells]
                /\ \A w \in FlashWords :
                     ProgramWord(mem, a, v)[w] = IF w = a THEN v ELSE mem[w]
BY WrittenCells DEF ErasePage, ProgramWord

LEMMA TypeInit == Init => TypeOK
<1> SUFFICES ASSUME Init PROVE TypeOK
    OBVIOUS
<1>1. flash \in [FlashWords -> Cells]
    BY WrittenCells DEF Init
<1>2. fat \in [0 .. (FAT_WORDS - 1) -> Cells]
    BY <1>1, LoadedTable DEF Init
<1> QED
    BY <1>1, <1>2 DEF Init, TypeOK

LEMMA TypeNext == TypeOK /\ [Next]_vars => TypeOK'
<1> SUFFICES ASSUME TypeOK, [Next]_vars
             PROVE  TypeOK'
    OBVIOUS
<1> USE DEF TypeOK
<1>0. call # NoCall => /\ call \in Calls
                       /\ call.slot \in Slots
                       /\ call.file \in Files
    BY DEF Calls
<1>1. ASSUME NEW c \in Calls, WriteFileBegin(c)
      PROVE  TypeOK'
    <2>1. c # NoCall /\ c.slot \in Slots
        BY ValueAssumption DEF Calls
    <2>2. fat' \in [0 .. (FAT_WORDS - 1) -> Cells]
        BY <1>1, WrittenCells DEF WriteFileBegin
    <2> QED
        BY <1>1, <2>1, <2>2 DEF WriteFileBegin
<1>2. CASE EraseFatPage
    <2>1. flash' \in [FlashWords -> Cells]
        BY <1>2, FlashOperations, SizesAreNats DEF EraseFatPage
    <2>2. faulted' \in BOOLEAN
        BY <1>2, Zenon DEF EraseFatPage
    <2> QED
        BY <1>2, <2>1, <2>2 DEF EraseFatPage
<1>3. CASE ProgramFatWord
    <2>1. idx \in 0 .. (FAT_WORDS - 1) /\ FLASH_FAT_START + idx \in Int
        BY <1>3, SizesAreNats DEF ProgramFatWord
    <2>2. flash' \in [FlashWords -> Cells]
        BY <1>3, <2>1, FlashOperations DEF ProgramFatWord
    <2> QED
        BY <1>3, <2>2 DEF ProgramFatWord, ghostVars
<1>4. CASE ProgramFatFails
    BY <1>4 DEF ProgramFatFails
<1>5. CASE StoreFatDone
    BY <1>5 DEF StoreFatDone
<1>6. CASE EraseFilePage
    <2>1. call # NoCall
        BY <1>6 DEF EraseFilePage
    <2>2. FileStart(call.slot) + PAGE_WORDS * idx \in Int
        BY <1>0, <2>1, RegionBounds, SizesAreNats
    <2>3. flash' \in [FlashWords -> Cells]
        BY <1>6, <2>2, FlashOperations DEF EraseFilePage
    <2>4. faulted' \in BOOLEAN /\ eraseFailed' \in BOOLEAN
        BY <1>6, Zenon DEF EraseFilePage
    <2> QED
        BY <1>6, <2>3, <2>4 DEF EraseFilePage
<1>7. CASE EraseFileDone
    BY <1>7 DEF EraseFileDone, ghostVars
<1>8. CASE ProgramFileWord
    <2>1. call # NoCall
        BY <1>8 DEF ProgramFileWord
    <2>2. FileWord(call.file, idx) \in Cells
        BY <1>0, <2>1, WrittenCells
    <2>3. flash' \in [FlashWords -> Cells]
        BY <1>8, <2>2 DEF ProgramFileWord, ProgramWord
    <2> QED
        BY <1>8, <2>3 DEF ProgramFileWord, ghostVars
<1>9. CASE ProgramFileFails
    BY <1>9 DEF ProgramFileFails
<1>10. CASE WriteFileDone
    <2>1. call \in Calls
        BY <1>0, <1>10 DEF WriteFileDone
    <2>2. stored' \in [Slots -> Calls \cup {NoCall}]
        BY <1>10, <2>1 DEF WriteFileDone
    <2> QED
        BY <1>10, <2>2 DEF WriteFileDone
<1>11. CASE Reboot
    BY <1>11, LoadedTable DEF Reboot
<1>12. CASE UNCHANGED vars
    BY <1>12 DEF vars
<1> QED
    BY <1>1, <1>2, <1>3, <1>4, <1>5, <1>6, <1>7, <1>8, <1>9, <1>10, <1>11,
       <1>12 DEF Next

(* In every reachable state every variable has its type.                  *)
THEOREM TypeCorrect == Spec => []TypeOK
BY TypeInit, TypeNext, PTL DEF Spec

-----------------------------------------------------------------------------
(***************************************************************************)
(* What a step of write_file leaves alone                                  *)
(***************************************************************************)

(* The words of a slot's region are words of flash, not of the table's     *)
(* page and not of another slot's region.                                  *)
LEMMA RegionWords ==
    ASSUME NEW s \in Slots, NEW k \in 0 .. (STORED_FILE_WORDS - 1)
    PROVE  /\ FileStart(s) + k \in FlashWords
           /\ FileStart(s) + k \in Region(s)
           /\ FileStart(s) + k \notin Page(FLASH_FAT_START)
           /\ \A t \in Slots \ {s} : FileStart(s) + k \notin Region(t)
<1>1. FileStart(s) \in Nat /\ FileStart(s) + k \in Region(s)
    BY RegionBounds, SizesAreNats DEF Region
<1>2. FileStart(s) + k \in FlashWords
    BY <1>1, RegionBounds DEF FlashWords
<1>3. FileStart(s) + k \notin Page(FLASH_FAT_START)
    BY <1>1, RegionBounds, SizesAreNats DEF Page
<1>4. ASSUME NEW t \in Slots \ {s}
      PROVE  FileStart(s) + k \notin Region(t)
    <2>1. /\ FileStart(t) \in Nat
          /\ \/ FileStart(s) + STORED_FILE_WORDS <= FileStart(t)
             \/ FileStart(t) + STORED_FILE_WORDS <= FileStart(s)
        <3>1. s \in Nat /\ t \in Nat /\ (s < t \/ t < s)
            BY SizesAreNats DEF Slots
        <3> QED
            BY <3>1, RegionBounds
    <2> QED
        BY <2>1, <1>1, SizesAreNats DEF Region
<1> QED
    BY <1>1, <1>2, <1>3, <1>4

(* The words of the entries of two slots differ.                           *)
LEMMA EntryWords ==
    ASSUME NEW s \in Slots, NEW k \in 0 .. UUID_WORDS
    PROVE  /\ EntryBase(s) \in Nat
           /\ EntryBase(s) + k \in 0 .. (FAT_WORDS - 1)
           /\ FLASH_FAT_START + EntryBase(s) + k
                = FLASH_FAT_START + (EntryBase(s) + k)
           /\ \A t \in Slots \ {s} :
                (EntryBase(s) + k) - EntryBase(t) \notin 0 .. UUID_WORDS
<1>1. /\ EntryBase(s) \in Nat
      /\ EntryBase(s) + k \in 0 .. (FAT_WORDS - 1)
    BY EntryBounds, SizesAreNats
<1>2. ASSUME NEW t \in Slots \ {s}
      PROVE  (EntryBase(s) + k) - EntryBase(t) \notin 0 .. UUID_WORDS
    <2>1. /\ EntryBase(t) \in Nat
          /\ \/ EntryBase(s) + UUID_WORDS < EntryBase(t)
             \/ EntryBase(t) + UUID_WORDS < EntryBase(s)
        <3>1. s \in Nat /\ t \in Nat /\ (s < t \/ t < s)
            BY SizesAreNats DEF Slots
        <3> QED
            BY <3>1, EntryBounds
    <2> QED
        BY <2>1, <1>1, SizesAreNats
<1> QED
    BY <1>1, <1>2, SizesAreNats

(* A call that runs has well-typed arguments.                              *)
LEMMA RunningCall ==
    ASSUME TypeOK, pc # "idle"
    PROVE  /\ call # NoCall
           /\ call \in Calls
           /\ call.slot \in Slots
           /\ call.file \in Files
BY DEF TypeOK, Calls

(* The address flash_simple_write gets from the table is the slot's own.   *)
LEMMA CallLocation ==
    ASSUME TypeOK, CallInv, pc # "idle"
    PROVE  Location(call.slot).addr = FileStart(call.slot)
<1>1. /\ FileStart(call.slot) \in Nat
      /\ FileLength(call.file) \in Nat
    BY RunningCall, RegionBounds, FileSizes
<1>2. fat[EntryBase(call.slot) + UUID_WORDS]
        = LocWord(FileStart(call.slot), FileLength(call.file))
    BY SizesAreNats DEF CallInv, Entry
<1>3. LocWord(FileStart(call.slot), FileLength(call.file)) # Erased
    BY <1>1, ValueAssumption DEF LocWord
<1> QED
    BY <1>2, <1>3 DEF Location, LocWord

(* What programming a word of the table does to flash.                     *)
LEMMA FatWordProgrammed ==
    ASSUME TypeOK, ProgramFatWord
    PROVE  /\ idx \in 0 .. (FAT_WORDS - 1)
           /\ \A w \in FlashWords \ Page(FLASH_FAT_START) : flash'[w] = flash[w]
           /\ \A n \in 0 .. (FAT_WORDS - 1) :
                flash'[FLASH_FAT_START + n]
                  = IF n = idx THEN fat[idx] ELSE flash[FLASH_FAT_START + n]
<1> DEFINE a == FLASH_FAT_START + idx
           v == fat[idx]
<1>1. idx \in 0 .. (FAT_WORDS - 1)
    BY SizesAreNats DEF TypeOK, ProgramFatWord
<1>2. a \in Int /\ a \in Page(FLASH_FAT_START) /\ v \in Cells
    BY <1>1, TableInFlash, SizesAreNats DEF TypeOK
<1>3. flash \in [FlashWords -> Cells] /\ flash' = ProgramWord(flash, a, v)
    BY DEF TypeOK, ProgramFatWord
<1> HIDE DEF a, v
<1>4. \A w \in FlashWords : flash'[w] = IF w = a THEN v ELSE flash[w]
    BY <1>3 DEF ProgramWord
<1>5. ASSUME NEW n \in 0 .. (FAT_WORDS - 1)
      PROVE  FLASH_FAT_START + n = a <=> n = idx
    BY <1>1, SizesAreNats DEF a
<1>6. \A n \in 0 .. (FAT_WORDS - 1) :
         flash'[FLASH_FAT_START + n]
           = IF n = idx THEN fat[idx] ELSE flash[FLASH_FAT_START + n]
    <2> SUFFICES ASSUME NEW n \in 0 .. (FAT_WORDS - 1)
                 PROVE  flash'[FLASH_FAT_START + n]
                          = IF n = idx THEN fat[idx]
                            ELSE flash[FLASH_FAT_START + n]
        OBVIOUS
    <2>1. FLASH_FAT_START + n \in FlashWords
        BY TableInFlash
    <2>2. flash'[FLASH_FAT_START + n]
            = IF n = idx THEN v ELSE flash[FLASH_FAT_START + n]
        BY <1>4, <1>5, <2>1
    <2> QED
        BY <2>2 DEF v
<1> QED
    BY <1>1, <1>2, <1>4, <1>6

(* store_fat changes the table's page only.                                *)
LEMMA FatSteps ==
    ASSUME TypeOK, EraseFatPage \/ ProgramFatWord
    PROVE  \A w \in FlashWords \ Page(FLASH_FAT_START) : flash'[w] = flash[w]
<1>1. CASE EraseFatPage
    <2>1. flash \in [FlashWords -> Cells] /\ FLASH_FAT_START \in Int
        BY SizesAreNats DEF TypeOK
    <2>2. \A w \in FlashWords :
             ErasePage(flash, FLASH_FAT_START)[w]
               = IF w \in Page(FLASH_FAT_START) THEN Erased ELSE flash[w]
        BY <2>1, FlashOperations
    <2>3. flash' = flash \/ flash' = ErasePage(flash, FLASH_FAT_START)
        BY <1>1 DEF EraseFatPage
    <2> QED
        BY <2>2, <2>3
<1>2. CASE ProgramFatWord
    BY <1>2, FatWordProgrammed
<1> QED
    BY <1>1, <1>2

(* Erasing and programming the file changes the slot's region only.        *)
LEMMA FileSteps ==
    ASSUME TypeOK, CallInv, FileInv, EraseFilePage \/ ProgramFileWord
    PROVE  \A w \in FlashWords \ Region(call.slot) : flash'[w] = flash[w]
<1>1. pc # "idle"
    BY DEF EraseFilePage, ProgramFileWord
<1>2. /\ FileStart(call.slot) \in Nat
      /\ FileWords(call.file) <= STORED_FILE_WORDS
      /\ FileWords(call.file) \in Nat
      /\ PagesNeeded(call.file) \in Nat
      /\ PAGE_WORDS * PagesNeeded(call.file) <= STORED_FILE_WORDS
      /\ PAGE_WORDS * PagesNeeded(call.file) \in Nat
    BY <1>1, RunningCall, RegionBounds, FileSizes, SizesAreNats
<1>3. CASE EraseFilePage
    <2>1. idx \in Nat /\ idx + 1 \in Nat /\ idx + 1 <= PagesNeeded(call.file)
        BY <1>2, <1>3 DEF EraseFilePage, TypeOK
    <2>2. PAGE_WORDS * (idx + 1) <= PAGE_WORDS * PagesNeeded(call.file)
        BY <1>2, <2>1, MultiplyMonotonic, SizesAreNats
    <2>3. PAGE_WORDS * (idx + 1) = PAGE_WORDS * idx + PAGE_WORDS
        BY <2>1, SizesAreNats
    <2>4. PAGE_WORDS * idx \in Nat
        BY <2>1, SizesAreNats
    <2>5. Page(FileStart(call.slot) + PAGE_WORDS * idx) \subseteq Region(call.slot)
        BY <1>2, <2>2, <2>3, <2>4, SizesAreNats DEF Page, Region
    <2>6. FileStart(call.slot) + PAGE_WORDS * idx \in Int
        BY <1>2, <2>4
    <2>7. flash \in [FlashWords -> Cells]
        BY DEF TypeOK
    <2> DEFINE a == FileStart(call.slot) + PAGE_WORDS * idx
    <2>8. \A w \in FlashWords :
             ErasePage(flash, a)[w] = IF w \in Page(a) THEN Erased ELSE flash[w]
        BY <2>6, <2>7, FlashOperations
    <2>9. flash' = flash \/ flash' = ErasePage(flash, a)
        BY <1>3 DEF EraseFilePage
    <2> HIDE DEF a
    <2> QED
        BY <2>5, <2>8, <2>9 DEF a
<1>4. CASE ProgramFileWord
    <2>1. idx \in 0 .. (STORED_FILE_WORDS - 1)
        BY <1>2, <1>4, SizesAreNats DEF ProgramFileWord, TypeOK
    <2>2. FileWord(call.file, idx) \in Cells
        BY <1>1, <2>1, RunningCall, WrittenCells
    <2>3. flash' = ProgramWord(flash, FileStart(call.slot) + idx,
                               FileWord(call.file, idx))
        BY <1>1, <1>4, CallLocation DEF ProgramFileWord
    <2>4. FileStart(call.slot) + idx \in Int /\ flash \in [FlashWords -> Cells]
        BY <1>2, <2>1 DEF TypeOK
    <2>5. FileStart(call.slot) + idx \in Region(call.slot)
        BY <1>1, <2>1, RunningCall, RegionWords
    <2> DEFINE a == FileStart(call.slot) + idx
               v == FileWord(call.file, idx)
    <2> HIDE DEF a, v
    <2>6. a \in Int /\ v \in Cells
        BY <2>2, <2>4 DEF a, v
    <2>7. \A w \in FlashWords :
             ProgramWord(flash, a, v)[w] = IF w = a THEN v ELSE flash[w]
        BY <2>4, <2>6, FlashOperations
    <2>8. flash' = ProgramWord(flash, a, v) /\ a \in Region(call.slot)
        BY <2>3, <2>5 DEF a, v
    <2> QED
        BY <2>7, <2>8
<1> QED
    BY <1>3, <1>4

-----------------------------------------------------------------------------
(***************************************************************************)
(* The inductive invariant                                                 *)
(***************************************************************************)

LEMMA InvInit == Init => IInv
<1> SUFFICES ASSUME Init PROVE IInv
    OBVIOUS
<1>1. TypeOK
    BY TypeInit
<1>2. \A n \in 0 .. (FAT_WORDS - 1) :
         /\ flash[FLASH_FAT_START + n] = fat[n]
         /\ fat[n] = Erased
    BY LoadedTable, WrittenCells, TableInFlash DEF Init
<1>3. CallInv /\ FatInv /\ FileInv
    BY <1>2 DEF Init, CallInv, FatInv, FileInv
<1>4. ASSUME NEW s \in Slots
      PROVE  /\ stored[s] = NoCall
             /\ fat[EntryBase(s) + UUID_WORDS] = Erased
             /\ FlashEntryWord(s, UUID_WORDS) = Erased
    <2>1. UUID_WORDS \in 0 .. UUID_WORDS
        BY SizesAreNats
    <2> QED
        BY <1>2, <2>1, EntryWords DEF Init, FlashEntryWord
<1> QED
    BY <1>1, <1>3, <1>4 DEF IInv, CleanInv, FileClean,
       RamEntryClean, FlashEntryClean

(* The call that runs and its entry in RAM.                                *)
LEMMA CallNext == IInv /\ [Next]_vars => CallInv'
<1> SUFFICES ASSUME IInv, [Next]_vars
             PROVE  CallInv'
    OBVIOUS
<1>1. ASSUME NEW c \in Calls, WriteFileBegin(c)
      PROVE  CallInv'
    <2>1. c.slot \in Slots
        BY DEF Calls
    <2>2. DOMAIN fat = 0 .. (FAT_WORDS - 1)
        BY DEF IInv, TypeOK
    <2>3. ASSUME NEW k \in 0 .. UUID_WORDS
          PROVE  fat'[EntryBase(c.slot) + k] = Entry(c)[k]
        <3>1. /\ EntryBase(c.slot) + k \in 0 .. (FAT_WORDS - 1)
              /\ (EntryBase(c.slot) + k) - EntryBase(c.slot) = k
            BY <2>1, EntryWords, SizesAreNats
        <3> QED
            BY <1>1, <2>2, <3>1 DEF WriteFileBegin
    <2> QED
        BY <1>1, <2>3 DEF WriteFileBegin, CallInv
<1>2. CASE EraseFatPage
    BY <1>2 DEF EraseFatPage, IInv, CallInv
<1>3. CASE ProgramFatWord
    BY <1>3 DEF ProgramFatWord, ghostVars, IInv, CallInv
<1>4. CASE ProgramFatFails
    BY <1>4 DEF ProgramFatFails, IInv, CallInv
<1>5. CASE StoreFatDone
    BY <1>5 DEF StoreFatDone, IInv, CallInv
<1>6. CASE EraseFilePage
    BY <1>6 DEF EraseFilePage, IInv, CallInv
<1>7. CASE EraseFileDone
    BY <1>7 DEF EraseFileDone, ghostVars, IInv, CallInv
<1>8. CASE ProgramFileWord
    BY <1>8 DEF ProgramFileWord, ghostVars, IInv, CallInv
<1>9. CASE ProgramFileFails
    BY <1>9 DEF ProgramFileFails, CallInv
<1>10. CASE WriteFileDone
    BY <1>10 DEF WriteFileDone, CallInv
<1>11. CASE Reboot
    BY <1>11 DEF Reboot, CallInv
<1>12. CASE UNCHANGED vars
    BY <1>12 DEF vars, IInv, CallInv
<1> QED
    BY <1>1, <1>2, <1>3, <1>4, <1>5, <1>6, <1>7, <1>8, <1>9, <1>10, <1>11,
       <1>12 DEF Next

(* How far store_fat is.                                                   *)
LEMMA FatNext == IInv /\ [Next]_vars => FatInv'
<1> SUFFICES ASSUME IInv, [Next]_vars
             PROVE  FatInv'
    OBVIOUS
<1>0. /\ flash \in [FlashWords -> Cells]
      /\ fat \in [0 .. (FAT_WORDS - 1) -> Cells]
      /\ idx \in Nat
      /\ fatDirty \in BOOLEAN /\ faulted \in BOOLEAN
    BY DEF IInv, TypeOK
<1>1. ASSUME NEW c \in Calls, WriteFileBegin(c)
      PROVE  FatInv'
    <2>1. c.slot \in Slots
        BY DEF Calls
    <2>2. ASSUME ~fatDirty, NEW s \in Slots \ {c.slot}
          PROVE  EntryInFlash(s)'
        <3>1. ASSUME NEW k \in 0 .. UUID_WORDS
              PROVE  FlashEntryWord(s, k)' = fat'[EntryBase(s) + k]
            <4>1. fat'[EntryBase(s) + k] = fat[EntryBase(s) + k]
                BY <1>0, <1>1, <2>1, EntryWords DEF WriteFileBegin
            <4>2. flash[FLASH_FAT_START + (EntryBase(s) + k)] = fat[EntryBase(s) + k]
                BY <1>1, <2>2, EntryWords DEF WriteFileBegin, IInv, FatInv
            <4>3. FlashEntryWord(s, k)' = flash[FLASH_FAT_START + (EntryBase(s) + k)]
                BY <1>1, EntryWords DEF FlashEntryWord, WriteFileBegin
            <4> QED
                BY <4>1, <4>2, <4>3
        <3> QED
            BY <3>1 DEF EntryInFlash
    <2> QED
        BY <1>1, <2>2 DEF WriteFileBegin, IInv, FatInv
<1>2. CASE EraseFatPage
    <2>1. idx = 0
        BY <1>2 DEF EraseFatPage, IInv, FatInv
    <2>2. ASSUME ~faulted', NEW n \in idx .. (FAT_WORDS - 1)
          PROVE  flash'[FLASH_FAT_START + n] = Erased
        <3>1. flash' = ErasePage(flash, FLASH_FAT_START)
            BY <1>2, <2>2 DEF EraseFatPage
        <3> QED
            BY <1>0, <2>1, <3>1, TableInFlash, FlashOperations, SizesAreNats
    <2> QED
        BY <1>2, <2>1, <2>2, SizesAreNats DEF EraseFatPage, FatInv
<1>3. CASE ProgramFatWord
    <2>1. idx \in 0 .. (FAT_WORDS - 1)
        BY <1>3, FatWordProgrammed DEF IInv
    <2>3. \A n \in 0 .. (FAT_WORDS - 1) :
             flash'[FLASH_FAT_START + n]
               = IF n = idx THEN fat[idx] ELSE flash[FLASH_FAT_START + n]
        BY <1>3, FatWordProgrammed DEF IInv
    <2>4. /\ fatDirty
          /\ \A n \in 0 .. (idx - 1) : flash[FLASH_FAT_START + n] = fat[n]
          /\ ~faulted => \A n \in idx .. (FAT_WORDS - 1) :
                            flash[FLASH_FAT_START + n] = Erased
        BY <1>3 DEF ProgramFatWord, IInv, FatInv
    <2>5. /\ idx' = idx + 1
          /\ UNCHANGED <<fat, pc, faulted, fatDirty>>
          /\ pc = "programFat"
        BY <1>3 DEF ProgramFatWord, ghostVars
    <2>6. ASSUME NEW n \in 0 .. (idx' - 1)
          PROVE  flash'[FLASH_FAT_START + n] = fat'[n]
        <3>1. n \in 0 .. (FAT_WORDS - 1) /\ (n = idx \/ n \in 0 .. (idx - 1))
            BY <2>1, <2>5, SizesAreNats
        <3> QED
            BY <2>3, <2>4, <2>5, <3>1
    <2>7. ~faulted' => \A n \in idx' .. (FAT_WORDS - 1) :
                         flash'[FLASH_FAT_START + n] = Erased
        BY <2>1, <2>3, <2>4, <2>5
    <2> QED
        BY <2>1, <2>4, <2>5, <2>6, <2>7, SizesAreNats DEF FatInv
<1>4. CASE ProgramFatFails
    BY <1>4 DEF ProgramFatFails, IInv, FatInv
<1>5. CASE StoreFatDone
    BY <1>5 DEF StoreFatDone, IInv, FatInv
<1>6. ASSUME EraseFilePage \/ ProgramFileWord
      PROVE  FatInv'
    <2>1. call.slot \in Slots
        BY <1>6, RunningCall DEF EraseFilePage, ProgramFileWord, IInv
    <2>2. ASSUME NEW n \in 0 .. (FAT_WORDS - 1)
          PROVE  flash'[FLASH_FAT_START + n] = flash[FLASH_FAT_START + n]
        <3>1. FLASH_FAT_START + n \notin Region(call.slot)
            BY <2>1, RegionBounds, SizesAreNats DEF Region
        <3> QED
            BY <1>6, <3>1, TableInFlash, FileSteps DEF IInv
    <2> QED
        BY <1>6, <2>2
           DEF EraseFilePage, ProgramFileWord, ghostVars, IInv, FatInv
<1>7. CASE EraseFileDone
    BY <1>7 DEF EraseFileDone, ghostVars, IInv, FatInv
<1>8. CASE ProgramFileFails
    BY <1>8 DEF ProgramFileFails, IInv, FatInv
<1>9. CASE WriteFileDone
    BY <1>9 DEF WriteFileDone, IInv, FatInv
<1>10. CASE Reboot
    BY <1>0, <1>10, LoadedTable DEF Reboot, FatInv
<1>11. CASE UNCHANGED vars
    BY <1>11 DEF vars, IInv, FatInv, EntryInFlash, FlashEntryWord
<1> QED
    BY <1>1, <1>2, <1>3, <1>4, <1>5, <1>6, <1>7, <1>8, <1>9, <1>10, <1>11
       DEF Next

(* How far the file is.                                                    *)
LEMMA FileNext == IInv /\ [Next]_vars => FileInv'
<1> SUFFICES ASSUME IInv, [Next]_vars
             PROVE  FileInv'
    OBVIOUS
<1>0. /\ flash \in [FlashWords -> Cells]
      /\ idx \in Nat
      /\ faulted \in BOOLEAN /\ eraseFailed \in BOOLEAN
    BY DEF IInv, TypeOK
<1>a. pc # "idle" =>
         /\ call.slot \in Slots
         /\ FileStart(call.slot) \in Nat
         /\ call.file \in Files
         /\ FileWords(call.file) \in Nat
         /\ FileWords(call.file) <= STORED_FILE_WORDS
         /\ PagesNeeded(call.file) \in Nat
         /\ FileWords(call.file) <= PAGE_WORDS * PagesNeeded(call.file)
         /\ PAGE_WORDS * PagesNeeded(call.file) \in Nat
         /\ PAGE_WORDS * PagesNeeded(call.file) <= STORED_FILE_WORDS
    BY RunningCall, RegionBounds, FileSizes, SizesAreNats DEF IInv
<1>1. ASSUME NEW c \in Calls, WriteFileBegin(c)
      PROVE  FileInv'
    BY <1>1 DEF WriteFileBegin, FileInv
<1>2. CASE EraseFatPage
    BY <1>2 DEF EraseFatPage, FileInv
<1>3. CASE ProgramFatWord
    BY <1>3 DEF ProgramFatWord, FileInv
<1>4. CASE ProgramFatFails \/ StoreFatDone
    <2>1. /\ pc' = "eraseFile" /\ idx' = 0 /\ call' = call
          /\ pc # "idle"
        BY <1>4 DEF ProgramFatFails, StoreFatDone
    <2> QED
        BY <2>1, <1>a, SizesAreNats DEF FileInv
<1>5. CASE EraseFilePage
    <2>1. /\ pc = "eraseFile" /\ pc' = "eraseFile" /\ call' = call
          /\ idx < PagesNeeded(call.file) /\ idx' = idx + 1
        BY <1>5 DEF EraseFilePage
    <2>2. idx' <= PagesNeeded(call.file)
        BY <2>1, <1>0, <1>a
    <2>3. ASSUME ~(faulted' /\ eraseFailed'),
                 NEW k \in 0 .. (PAGE_WORDS * idx' - 1)
          PROVE  flash'[FileStart(call.slot) + k] = Erased
        <3>1. /\ flash' = ErasePage(flash, FileStart(call.slot) + PAGE_WORDS * idx)
              /\ ~(faulted /\ eraseFailed)
            BY <1>5, <2>3 DEF EraseFilePage
        <3>2. PAGE_WORDS * (idx + 1) = PAGE_WORDS * idx + PAGE_WORDS
            BY <1>0, SizesAreNats
        <3>3. PAGE_WORDS * idx \in Nat
            BY <1>0, SizesAreNats
        <3>4. PAGE_WORDS * idx' <= PAGE_WORDS * PagesNeeded(call.file)
            BY <2>1, <2>2, <1>0, <1>a, MultiplyMonotonic, SizesAreNats
        <3>5. k \in 0 .. (STORED_FILE_WORDS - 1)
            BY <2>1, <3>2, <3>3, <3>4, <1>a, SizesAreNats
        <3>6. FileStart(call.slot) + k \in FlashWords
            BY <2>1, <3>5, <1>a, RegionWords
        <3>7. \/ FileStart(call.slot) + k
                   \in Page(FileStart(call.slot) + PAGE_WORDS * idx)
              \/ k \in 0 .. (PAGE_WORDS * idx - 1)
            BY <2>1, <3>2, <3>3, <1>a, SizesAreNats DEF Page
        <3>8. k \in 0 .. (PAGE_WORDS * idx - 1)
                => flash[FileStart(call.slot) + k] = Erased
            BY <2>1, <3>1 DEF IInv, FileInv
        <3>9. FileStart(call.slot) + PAGE_WORDS * idx \in Int
            BY <2>1, <3>3, <1>a
        <3> QED
            BY <3>1, <3>6, <3>7, <3>8, <3>9, <1>0, FlashOperations
    <2> QED
        BY <2>1, <2>2, <2>3 DEF FileInv
<1>6. CASE EraseFileDone
    <2>1. /\ pc = "eraseFile" /\ idx = PagesNeeded(call.file)
          /\ pc' = "programFile" /\ idx' = 0
          /\ UNCHANGED <<flash, call, faulted, eraseFailed>>
        BY <1>6 DEF EraseFileDone, ghostVars
    <2>2. ASSUME ~(faulted /\ eraseFailed),
                 NEW k \in 0 .. (FileWords(call.file) - 1)
          PROVE  flash[FileStart(call.slot) + k] = Erased
        <3>1. k \in 0 .. (PAGE_WORDS * idx - 1)
            BY <2>1, <1>a
        <3> QED
            BY <2>1, <2>2, <3>1 DEF IInv, FileInv
    <2> QED
        BY <2>1, <2>2, <1>a DEF FileInv
<1>7. CASE ProgramFileWord
    <2>1. /\ pc = "programFile" /\ idx < FileWords(call.file)
          /\ pc' = "programFile" /\ idx' = idx + 1
          /\ UNCHANGED <<call, faulted, eraseFailed>>
        BY <1>7 DEF ProgramFileWord, ghostVars
    <2>2. flash' = ProgramWord(flash, FileStart(call.slot) + idx,
                               FileWord(call.file, idx))
        BY <1>7, <2>1, CallLocation DEF ProgramFileWord, IInv
    <2>3. FileWord(call.file, idx) \in Cells
        BY <2>1, <1>0, <1>a, WrittenCells
    <2>4. \A w \in FlashWords :
             flash'[w] = IF w = FileStart(call.slot) + idx
                         THEN FileWord(call.file, idx) ELSE flash[w]
        <3>1. FileStart(call.slot) + idx \in Int
            BY <2>1, <1>0, <1>a
        <3> QED
            BY <2>2, <2>3, <3>1, <1>0, FlashOperations
    <2>5. \A k \in 0 .. (FileWords(call.file) - 1) :
             FileStart(call.slot) + k \in FlashWords
        BY <2>1, <1>a, RegionWords, SizesAreNats
    <2>6. \A k \in 0 .. (FileWords(call.file) - 1) :
             flash'[FileStart(call.slot) + k]
               = IF k = idx THEN FileWord(call.file, idx)
                 ELSE flash[FileStart(call.slot) + k]
        <3>1. /\ FileStart(call.slot) \in Nat /\ FileWords(call.file) \in Nat
            BY <2>1, <1>a
        <3>2. ASSUME NEW k \in 0 .. (FileWords(call.file) - 1)
              PROVE  /\ FileStart(call.slot) + k \in FlashWords
                     /\ FileStart(call.slot) + k = FileStart(call.slot) + idx
                           <=> k = idx
            BY <2>5, <3>1, <1>0
        <3> QED
            BY <2>4, <3>2
    <2>7. /\ \A k \in 0 .. (idx - 1) :
                flash[FileStart(call.slot) + k] = FileWord(call.file, k)
          /\ ~(faulted /\ eraseFailed) =>
                \A k \in idx .. (FileWords(call.file) - 1) :
                   flash[FileStart(call.slot) + k] = Erased
        BY <2>1 DEF IInv, FileInv
    <2>8. ASSUME NEW k \in 0 .. (idx' - 1)
          PROVE  flash'[FileStart(call.slot) + k] = FileWord(call.file, k)
        <3>1. /\ k \in 0 .. (FileWords(call.file) - 1)
              /\ k = idx \/ k \in 0 .. (idx - 1)
            BY <2>1, <1>0, <1>a
        <3> QED
            BY <3>1, <2>6, <2>7
    <2>9. ASSUME ~(faulted /\ eraseFailed),
                 NEW k \in idx' .. (FileWords(call.file) - 1)
          PROVE  flash'[FileStart(call.slot) + k] = Erased
        <3>1. /\ k \in 0 .. (FileWords(call.file) - 1)
              /\ k # idx /\ k \in idx .. (FileWords(call.file) - 1)
            BY <2>1, <1>0, <1>a
        <3> QED
            BY <3>1, <2>6, <2>7, <2>9
    <2>10. idx' <= FileWords(call.file)
        BY <2>1, <1>0, <1>a
    <2> QED
        BY <2>1, <2>8, <2>9, <2>10 DEF FileInv
<1>8. CASE ProgramFileFails
    BY <1>8 DEF ProgramFileFails, FileInv
<1>9. CASE WriteFileDone
    BY <1>9 DEF WriteFileDone, FileInv
<1>10. CASE Reboot
    BY <1>10 DEF Reboot, FileInv
<1>11. CASE UNCHANGED vars
    BY <1>11 DEF vars, IInv, FileInv
<1> QED
    BY <1>1, <1>2, <1>3, <1>4, <1>5, <1>6, <1>7, <1>8, <1>9, <1>10, <1>11
       DEF Next

(* A slot that is not suspect is not the one being written, and a step     *)
(* that leaves its words alone leaves it clean.                            *)
LEMMA CleanFrame ==
    ASSUME IInv, NEW s \in Slots \ suspect,
           UNCHANGED <<fat, stored>>, s \in lost => s \in lost',
           \A w \in FlashWords \ Page(FLASH_FAT_START) :
              w \in Region(s) => flash'[w] = flash[w],
           FlashEntryClean(s)'
    PROVE  FileClean(s)' /\ RamEntryClean(s)' /\ FlashEntryClean(s)'
<1>1. FileClean(s) /\ RamEntryClean(s)
    BY DEF IInv, CleanInv
<1>2. ASSUME stored[s] # NoCall,
             NEW k \in 0 .. (FileWords(stored[s].file) - 1)
      PROVE  flash'[FileStart(s) + k] = flash[FileStart(s) + k]
    <2>1. stored[s].file \in Files
        BY <1>2 DEF IInv, TypeOK, Calls
    <2>2. k \in 0 .. (STORED_FILE_WORDS - 1)
        BY <2>1, FileSizes, SizesAreNats
    <2> QED
        BY <2>2, RegionWords
<1>3. FileClean(s)'
    BY <1>1, <1>2 DEF FileClean
<1>4. RamEntryClean(s)'
    BY <1>1 DEF RamEntryClean
<1> QED
    BY <1>3, <1>4

(* The same for a step that leaves flash alone.                            *)
LEMMA CleanStutter ==
    ASSUME IInv, NEW s \in Slots \ suspect,
           UNCHANGED <<flash, fat, stored>>, s \in lost => s \in lost'
    PROVE  FileClean(s)' /\ RamEntryClean(s)' /\ FlashEntryClean(s)'
<1>1. FlashEntryClean(s)'
    BY DEF IInv, CleanInv, FlashEntryClean, EntryInFlash, FlashEntryWord
<1> QED
    BY <1>1, CleanFrame

(* The address of a word of a slot's entry in flash.                       *)
LEMMA FlashEntryAddress ==
    ASSUME NEW s \in Slots, NEW k \in 0 .. UUID_WORDS
    PROVE  /\ FlashEntryWord(s, k) = flash[FLASH_FAT_START + (EntryBase(s) + k)]
           /\ FlashEntryWord(s, k)' = flash'[FLASH_FAT_START + (EntryBase(s) + k)]
           /\ EntryBase(s) + k \in 0 .. (FAT_WORDS - 1)
           /\ FLASH_FAT_START + (EntryBase(s) + k) \in FlashWords
           /\ FLASH_FAT_START + (EntryBase(s) + k) \in Page(FLASH_FAT_START)
BY EntryWords, TableInFlash DEF FlashEntryWord

(* A reset drops the entry of a slot only while the table is not           *)
(* completely programmed.                                                  *)
LEMMA RebootKeepsClean ==
    ASSUME IInv, Reboot, NEW s \in Slots \ suspect
    PROVE  FileClean(s)' /\ RamEntryClean(s)' /\ FlashEntryClean(s)'
<1>0. /\ flash \in [FlashWords -> Cells]
      /\ stored \in [Slots -> Calls \cup {NoCall}]
      /\ fatDirty \in BOOLEAN
      /\ pc \in {"idle", "eraseFat", "programFat", "eraseFile", "programFile"}
    BY DEF IInv, TypeOK
<1>1. FileClean(s) /\ RamEntryClean(s) /\ FlashEntryClean(s)
    BY DEF IInv, CleanInv
<1>2. UUID_WORDS \in 0 .. UUID_WORDS
    BY SizesAreNats
<1>3. \A k \in 0 .. UUID_WORDS :
         fat'[EntryBase(s) + k] = FlashEntryWord(s, k)
    BY <1>0, FlashEntryAddress, LoadedTable DEF Reboot
<1>4. FileClean(s)'
    BY <1>1 DEF FileClean, Reboot
<1>5. EntryInFlash(s)'
    BY <1>3, FlashEntryAddress DEF EntryInFlash, Reboot
<1>6. CASE EntryInFlash(s)
    <2>1. \A k \in 0 .. UUID_WORDS :
             fat'[EntryBase(s) + k] = fat[EntryBase(s) + k]
        BY <1>3, <1>6 DEF EntryInFlash
    <2>2. s \in lost => s \in lost'
        BY DEF Reboot
    <2>3. RamEntryClean(s)'
        BY <1>1, <1>2, <2>1, <2>2 DEF RamEntryClean, Reboot
    <2> QED
        BY <1>4, <1>5, <2>3 DEF FlashEntryClean
<1>7. CASE ~EntryInFlash(s)
    <2>1. fat'[EntryBase(s) + UUID_WORDS] = Erased
        BY <1>1, <1>2, <1>3, <1>7 DEF FlashEntryClean
    <2>2. fatDirty
        <3>1. pc # "idle" => s # call.slot
            BY DEF IInv, CallInv
        <3>2. ASSUME ~fatDirty, pc \in {"idle", "eraseFile", "programFile"}
              PROVE  EntryInFlash(s)
            BY <3>2, FlashEntryAddress DEF IInv, FatInv, EntryInFlash
        <3> QED
            BY <1>0, <1>7, <3>1, <3>2 DEF IInv, FatInv
    <2>3. s \in lost'
        BY <2>2 DEF Reboot
    <2>4. RamEntryClean(s)'
        BY <2>1, <2>3 DEF RamEntryClean
    <2> QED
        BY <1>4, <1>5, <2>4 DEF FlashEntryClean
<1> QED
    BY <1>6, <1>7

LEMMA CleanNext == IInv /\ [Next]_vars => CleanInv'
<1> SUFFICES ASSUME IInv, [Next]_vars, NEW s \in Slots \ suspect'
             PROVE  FileClean(s)' /\ RamEntryClean(s)' /\ FlashEntryClean(s)'
    BY DEF CleanInv
<1>0. /\ flash \in [FlashWords -> Cells]
      /\ fat \in [0 .. (FAT_WORDS - 1) -> Cells]
      /\ idx \in Nat
      /\ stored \in [Slots -> Calls \cup {NoCall}]
    BY DEF IInv, TypeOK
<1>a. UUID_WORDS \in 0 .. UUID_WORDS
    BY SizesAreNats
<1>1. ASSUME NEW c \in Calls, WriteFileBegin(c)
      PROVE  FileClean(s)' /\ RamEntryClean(s)' /\ FlashEntryClean(s)'
    <2>1. c.slot \in Slots /\ s \in Slots \ {c.slot} /\ s \notin suspect
        BY <1>1 DEF WriteFileBegin, Calls
    <2>2. \A k \in 0 .. UUID_WORDS :
             fat'[EntryBase(s) + k] = fat[EntryBase(s) + k]
        BY <1>0, <1>1, <2>1, EntryWords DEF WriteFileBegin
    <2>3. FileClean(s) /\ RamEntryClean(s) /\ FlashEntryClean(s)
        BY <2>1 DEF IInv, CleanInv
    <2>4. UNCHANGED <<flash, stored, lost>>
        BY <1>1 DEF WriteFileBegin
    <2>5. FileClean(s)'
        BY <2>3, <2>4 DEF FileClean
    <2>6. RamEntryClean(s)'
        BY <2>2, <2>3, <2>4, <1>a DEF RamEntryClean
    <2>7. FlashEntryClean(s)'
        BY <2>2, <2>3, <2>4
           DEF FlashEntryClean, EntryInFlash, FlashEntryWord
    <2> QED
        BY <2>5, <2>6, <2>7
<1>2. CASE EraseFatPage
    <2>1. s \in Slots \ suspect /\ UNCHANGED <<fat, stored, lost>>
        BY <1>2 DEF EraseFatPage
    <2>2. FlashEntryClean(s)
        BY <2>1 DEF IInv, CleanInv
    <2>3. CASE flash' = flash
        BY <2>1, <2>3, CleanStutter
    <2>4. CASE flash' = ErasePage(flash, FLASH_FAT_START)
        <3>1. FlashEntryWord(s, UUID_WORDS)' = Erased
            BY <2>1, <2>4, <1>0, <1>a, FlashEntryAddress, FlashOperations,
               SizesAreNats
        <3>2. \A w \in FlashWords \ Page(FLASH_FAT_START) : flash'[w] = flash[w]
            BY <1>2, FatSteps DEF IInv
        <3> QED
            BY <2>1, <3>1, <3>2, CleanFrame DEF FlashEntryClean
    <2> QED
        BY <1>2, <2>3, <2>4 DEF EraseFatPage
<1>3. CASE ProgramFatWord
    <2>1. /\ s \in Slots \ suspect
          /\ UNCHANGED <<fat, stored, lost>>
          /\ idx < FAT_WORDS /\ idx' = idx + 1 /\ pc' = "programFat"
        BY <1>3 DEF ProgramFatWord, ghostVars
    <2>2. \A w \in FlashWords \ Page(FLASH_FAT_START) : flash'[w] = flash[w]
        BY <1>3, FatSteps DEF IInv
    <2>3. \A n \in 0 .. (FAT_WORDS - 1) :
             flash'[FLASH_FAT_START + n]
               = IF n = idx THEN fat[idx] ELSE flash[FLASH_FAT_START + n]
        BY <1>3, FatWordProgrammed DEF IInv
    <2>4. CASE idx = EntryBase(s) + UUID_WORDS
        <3>1. \A n \in 0 .. (idx' - 1) : flash'[FLASH_FAT_START + n] = fat'[n]
            BY <2>1, FatNext DEF FatInv
        <3>2. ASSUME NEW k \in 0 .. UUID_WORDS
              PROVE  EntryBase(s) + k \in 0 .. (idx' - 1)
            BY <2>1, <2>4, EntryWords, SizesAreNats
        <3>3. EntryInFlash(s)'
            BY <2>1, <3>1, <3>2, FlashEntryAddress DEF EntryInFlash
        <3> QED
            BY <2>1, <2>2, <3>3, CleanFrame DEF FlashEntryClean
    <2>5. CASE idx # EntryBase(s) + UUID_WORDS
        <3>1. FlashEntryWord(s, UUID_WORDS)' = FlashEntryWord(s, UUID_WORDS)
            BY <2>1, <2>3, <2>5, <1>a, FlashEntryAddress
        <3>2. EntryInFlash(s) => EntryInFlash(s)'
            BY <2>1, <2>3, FlashEntryAddress DEF EntryInFlash
        <3>3. FlashEntryClean(s)'
            BY <2>1, <3>1, <3>2 DEF IInv, CleanInv, FlashEntryClean
        <3> QED
            BY <2>1, <2>2, <3>3, CleanFrame
    <2> QED
        BY <2>4, <2>5
<1>4. CASE ProgramFatFails \/ StoreFatDone \/ EraseFileDone \/ ProgramFileFails
    <2>1. s \in Slots \ suspect /\ UNCHANGED <<flash, fat, stored, lost>>
        BY <1>4 DEF ProgramFatFails, StoreFatDone, EraseFileDone,
                    ProgramFileFails, ghostVars
    <2> QED
        BY <2>1, CleanStutter
<1>5. CASE EraseFilePage \/ ProgramFileWord
    <2>1. /\ s \in Slots \ suspect
          /\ UNCHANGED <<fat, stored, lost>>
          /\ pc # "idle"
        BY <1>5 DEF EraseFilePage, ProgramFileWord, ghostVars
    <2>2. call.slot \in Slots /\ s # call.slot
        BY <2>1, RunningCall DEF IInv, CallInv
    <2>3. \A w \in FlashWords \ Region(call.slot) : flash'[w] = flash[w]
        BY <1>5, FileSteps DEF IInv
    <2>4. ASSUME NEW k \in 0 .. UUID_WORDS
          PROVE  FlashEntryWord(s, k)' = FlashEntryWord(s, k)
        <3>1. FLASH_FAT_START + (EntryBase(s) + k) \notin Region(call.slot)
            BY <2>2, EntryWords, RegionBounds, SizesAreNats DEF Region
        <3> QED
            BY <2>1, <2>3, <3>1, FlashEntryAddress
    <2>5. FlashEntryClean(s)'
        BY <2>1, <2>4, <1>a DEF IInv, CleanInv, FlashEntryClean, EntryInFlash
    <2>6. ASSUME NEW w \in FlashWords \ Page(FLASH_FAT_START), w \in Region(s)
          PROVE  flash'[w] = flash[w]
        <3>1. FileStart(s) \in Nat /\ w - FileStart(s) \in 0 .. (STORED_FILE_WORDS - 1)
            BY <2>6, <2>1, RegionBounds, SizesAreNats DEF Region
        <3>2. w = FileStart(s) + (w - FileStart(s))
            BY <2>6, <2>1, RegionBounds, SizesAreNats DEF Region
        <3>3. w \notin Region(call.slot)
            BY <2>2, <3>1, <3>2, RegionWords
        <3> QED
            BY <2>3, <3>3
    <2> QED
        BY <2>1, <2>5, <2>6, CleanFrame
<1>6. CASE WriteFileDone
    <2>1. /\ pc = "programFile" /\ idx = FileWords(call.file)
          /\ UNCHANGED <<flash, fat>>
          /\ stored' = [stored EXCEPT ![call.slot] = call]
          /\ lost' = lost \ {call.slot}
        BY <1>6 DEF WriteFileDone
    <2>2. /\ call # NoCall /\ call \in Calls /\ call.slot \in Slots
          /\ FileWords(call.file) \in Nat
        BY <2>1, RunningCall, FileSizes DEF IInv
    <2>3. CASE s = call.slot
        <3>1. ~faulted /\ ~fatDirty
            BY <1>6, <2>1, <2>3 DEF WriteFileDone, IInv, FatInv, CallInv
        <3>2. stored'[s] = call
            BY <1>0, <2>1, <2>3
        <3>3. FileClean(s)'
            <4>1. \A k \in 0 .. (FileWords(call.file) - 1) :
                     flash'[FileStart(s) + k] = FileWord(call.file, k)
                BY <2>1, <2>3 DEF IInv, FileInv
            <4> QED
                BY <2>3, <3>2, <4>1 DEF FileClean
        <3>4. RamEntryClean(s)'
            BY <2>1, <2>2, <2>3, <3>2 DEF RamEntryClean, IInv, CallInv
        <3>5. EntryInFlash(s)'
            BY <2>1, <3>1, FlashEntryAddress DEF EntryInFlash, IInv, FatInv
        <3> QED
            BY <3>3, <3>4, <3>5 DEF FlashEntryClean
    <2>4. CASE s # call.slot
        <3>1. /\ s \in Slots \ suspect
              /\ stored'[s] = stored[s]
              /\ s \in lost => s \in lost'
            BY <1>0, <1>6, <2>1, <2>4 DEF WriteFileDone
        <3>2. FileClean(s) /\ RamEntryClean(s) /\ FlashEntryClean(s)
            BY <3>1 DEF IInv, CleanInv
        <3> QED
            BY <2>1, <3>1, <3>2
               DEF FileClean, RamEntryClean, FlashEntryClean, EntryInFlash,
                   FlashEntryWord
    <2> QED
        BY <2>3, <2>4
<1>7. CASE Reboot
    <2>1. s \in Slots \ suspect
        BY <1>7 DEF Reboot
    <2> QED
        BY <1>7, <2>1, RebootKeepsClean
<1>8. CASE UNCHANGED vars
    BY <1>8, CleanStutter DEF vars
<1> QED
    BY <1>1, <1>2, <1>3, <1>4, <1>5, <1>6, <1>7, <1>8 DEF Next

(* The invariant the theorems below follow from.                           *)
THEOREM Inductive == Spec => []IInv
<1>1. IInv /\ [Next]_vars => IInv'
    BY TypeNext, CallNext, FatNext, FileNext, CleanNext DEF IInv
<1> QED
    BY <1>1, InvInit, PTL DEF Spec

-----------------------------------------------------------------------------
(***************************************************************************)
(* The properties                                                          *)
(***************************************************************************)

(* Outside store_fat, unless one failed, flash holds the table of RAM:     *)
(* load_fat after a reset finds what was there before it.                  *)
THEOREM TableCoherent == Spec => []FatCoherent
<1>1. IInv => FatCoherent
    <2> SUFFICES ASSUME IInv, pc \in {"idle", "eraseFile", "programFile"}, ~fatDirty
                 PROVE  LoadFat(flash) = fat
        BY DEF FatCoherent
    <2>1. /\ flash \in [FlashWords -> Cells]
          /\ fat \in [0 .. (FAT_WORDS - 1) -> Cells]
        BY DEF IInv, TypeOK
    <2>2. \A n \in 0 .. (FAT_WORDS - 1) : flash[FLASH_FAT_START + n] = fat[n]
        BY DEF IInv, FatInv
    <2>3. LoadFat(flash) = [n \in 0 .. (FAT_WORDS - 1) |-> fat[n]]
        BY <2>2 DEF LoadFat, ReadWords
    <2> QED
        BY <2>1, <2>3
<1> QED
    BY <1>1, Inductive, PTL

(* Unless an operation of the same write_file failed, no word is           *)
(* programmed that was not erased first.                                   *)
THEOREM OnlyErasedProgrammed == Spec => []ProgramsErased
<1>1. IInv => ProgramsErased
    BY DEF IInv, FatInv, FileInv, ProgramsErased
<1> QED
    BY <1>1, Inductive, PTL

(* A step changes the table's page and the region of the slot write_file   *)
(* was called for, and no step changes flash outside write_file.           *)
THEOREM SlotsIsolated == Spec => SlotIsolation
<1>1. IInv /\ [Next]_vars =>
         [\A w \in FlashWords : flash'[w] # flash[w] =>
            /\ call # NoCall
            /\ w \in Page(FLASH_FAT_START) \cup Region(call.slot)]_vars
    <2> SUFFICES ASSUME IInv, Next, NEW w \in FlashWords, flash'[w] # flash[w]
                 PROVE  /\ call # NoCall
                        /\ w \in Page(FLASH_FAT_START) \cup Region(call.slot)
        OBVIOUS
    <2>1. CASE EraseFatPage \/ ProgramFatWord
        BY <2>1, FatSteps, RunningCall DEF EraseFatPage, ProgramFatWord, IInv
    <2>2. CASE EraseFilePage \/ ProgramFileWord
        BY <2>2, FileSteps, RunningCall DEF EraseFilePage, ProgramFileWord, IInv
    <2>3. CASE /\ ~(EraseFatPage \/ ProgramFatWord)
               /\ ~(EraseFilePage \/ ProgramFileWord)
        BY <2>3 DEF Next, WriteFileBegin, ProgramFatFails, StoreFatDone,
                    EraseFileDone, ProgramFileFails, WriteFileDone, Reboot
    <2> QED
        BY <2>1, <2>2, <2>3
<1> QED
    BY <1>1, Inductive, PTL DEF Spec, SlotIsolation

(* An entry whose address and length were never programmed is refused:     *)
(* read_file takes the all-ones fields for negative numbers.               *)
LEMMA ErasedEntryRefused ==
    ASSUME NEW s \in Slots, fat[EntryBase(s) + UUID_WORDS] = Erased
    PROVE  ~CanReadFile(s)
<1>1. INT_MAX \in Nat
    BY IntAssumption
<1> QED
    BY <1>1 DEF CanReadFile, Location, LocWord, AsInt, UINT_MAX

(* An entry and a file that are in place are a readable file.              *)
LEMMA CleanIsWhole ==
    ASSUME TypeOK, NEW c \in Calls,
           \A k \in 0 .. UUID_WORDS : fat[EntryBase(c.slot) + k] = Entry(c)[k],
           \A k \in 0 .. (FileWords(c.file) - 1) :
              flash[FileStart(c.slot) + k] = FileWord(c.file, k)
    PROVE  Whole(c)
<1>1. c.slot \in Slots /\ c.file \in Files
    BY DEF Calls
<1>2. /\ FileStart(c.slot) \in Nat \ {0}
      /\ FileLength(c.file) \in Nat \ {0}
      /\ FileWords(c.file) \in Nat \ {0}
      /\ FileLength(c.file) <= INT_MAX
      /\ FileStart(c.slot) <= INT_MAX
      /\ INT_MAX \in Nat
    BY <1>1, RegionBounds, FileSizes, SizesAreNats, IntAssumption
<1>3. fat[EntryBase(c.slot) + UUID_WORDS]
        = LocWord(FileStart(c.slot), FileLength(c.file))
    BY SizesAreNats DEF Entry
<1>4. LocWord(FileStart(c.slot), FileLength(c.file)) # Erased
    BY <1>2, ValueAssumption DEF LocWord
<1>5. /\ Location(c.slot).addr = FileStart(c.slot)
      /\ Location(c.slot).len = FileLength(c.file)
    BY <1>3, <1>4 DEF Location, LocWord
<1>6. CanReadFile(c.slot)
    BY <1>2, <1>5 DEF CanReadFile, AsInt
<1>7. ReadFile(c.slot) = FileImage(c.file)
    BY <1>5 DEF ReadFile, ReadWords, FileImage, FileWords
<1>8. ReadFile(c.slot)[0] = FileWord(c.file, 0)
    BY <1>2, <1>7 DEF FileImage
<1>9. IsSlotInUse(c.slot)
    BY <1>1, <1>2, <1>5, <1>6, <1>8 DEF IsSlotInUse
<1>10. GetFileMetadata(c.slot) = Entry(c)
    <2>1. ENTRY_WORDS - 1 = UUID_WORDS
        BY SizesAreNats DEF ENTRY_WORDS
    <2>2. Entry(c) = [k \in 0 .. UUID_WORDS |-> Entry(c)[k]]
        BY DEF Entry
    <2> QED
        BY <2>1, <2>2 DEF GetFileMetadata, ReadWords
<1> QED
    BY <1>7, <1>9, <1>10 DEF Whole

(* What write_file stored without an error survives every later call,      *)
(* reset and flash error, or, after a reset during a store_fat, is refused *)
(* by read_file; it is never read back wrong.                              *)
THEOREM StoredFilesDurable == Spec => []Durable
<1>1. IInv => Durable
    <2> SUFFICES ASSUME IInv, NEW s \in Slots \ suspect
                 PROVE  IF stored[s] = NoCall THEN ~CanReadFile(s)
                        ELSE \/ Whole(stored[s])
                             \/ s \in lost /\ ~CanReadFile(s)
        BY DEF Durable
    <2>1. FileClean(s) /\ RamEntryClean(s) /\ TypeOK
        BY DEF IInv, CleanInv
    <2>2. CASE fat[EntryBase(s) + UUID_WORDS] = Erased /\ (stored[s] = NoCall \/ s \in lost)
        BY <2>2, ErasedEntryRefused
    <2>3. CASE /\ stored[s] # NoCall
               /\ \A k \in 0 .. UUID_WORDS :
                     fat[EntryBase(s) + k] = Entry(stored[s])[k]
        <3>1. stored[s] \in Calls /\ stored[s].slot = s
            BY <2>1, <2>3 DEF TypeOK, FileClean
        <3>2. \A k \in 0 .. (FileWords(stored[s].file) - 1) :
                 flash[FileStart(s) + k] = FileWord(stored[s].file, k)
            BY <2>1, <2>3 DEF FileClean
        <3>3. Whole(stored[s])
            BY <2>1, <2>3, <3>1, <3>2, CleanIsWhole
        <3> QED
            BY <2>3, <3>3
    <2> QED
        BY <2>1, <2>2, <2>3 DEF RamEntryClean
<1> QED
    BY <1>1, Inductive, PTL

(* One step keeps the words of a header over words of the same file.       *)
LEMMA NoBlendNext == IInv /\ NoBlend /\ [Next]_vars => NoBlend'
<1> SUFFICES ASSUME IInv, NoBlend, [Next]_vars, ~eraseFailed',
                    NEW s \in Slots, NEW f \in Files,
                    \A k \in 0 .. (HEADER_WORDS - 1) :
                       flash'[FileStart(s) + k] = FileWord(f, k),
                    NEW j \in 0 .. (FileWords(f) - 1)
             PROVE  flash'[FileStart(s) + j] \in {Erased, FileWord(f, j)}
    BY DEF NoBlend
<1>0. /\ flash \in [FlashWords -> Cells]
      /\ idx \in Nat
      /\ HEADER_WORDS \in Nat \ {0}
      /\ HEADER_WORDS <= FileWords(f)
      /\ FileWords(f) \in Nat
      /\ FileWords(f) <= STORED_FILE_WORDS
      /\ FileStart(s) \in Nat
    BY FileSizes, RegionBounds, SizesAreNats DEF IInv, TypeOK
<1>1. \A k \in 0 .. (FileWords(f) - 1) :
         k \in 0 .. (STORED_FILE_WORDS - 1)
    BY <1>0, SizesAreNats
<1>2. ~eraseFailed
    BY DEF Next, vars, WriteFileBegin, EraseFatPage, ProgramFatWord, ghostVars,
           ProgramFatFails, StoreFatDone, EraseFilePage, EraseFileDone,
           ProgramFileWord, ProgramFileFails, WriteFileDone, Reboot
(* A step that leaves the words of s's file alone.                         *)
<1>3. ASSUME \A k \in 0 .. (STORED_FILE_WORDS - 1) :
                flash'[FileStart(s) + k] = flash[FileStart(s) + k]
      PROVE  flash'[FileStart(s) + j] \in {Erased, FileWord(f, j)}
    <2>1. \A k \in 0 .. (HEADER_WORDS - 1) : k \in 0 .. (FileWords(f) - 1)
        BY <1>0
    <2>2. \A k \in 0 .. (HEADER_WORDS - 1) :
             flash[FileStart(s) + k] = FileWord(f, k)
        BY <1>1, <1>3, <2>1
    <2>3. flash[FileStart(s) + j] \in {Erased, FileWord(f, j)}
        BY <1>2, <2>2 DEF NoBlend
    <2> QED
        BY <1>1, <1>3, <2>3
<1>4. CASE EraseFatPage \/ ProgramFatWord
    <2>1. \A w \in FlashWords \ Page(FLASH_FAT_START) : flash'[w] = flash[w]
        BY <1>4, FatSteps DEF IInv
    <2> QED
        BY <2>1, <1>3, RegionWords
<1>5. ASSUME EraseFilePage \/ ProgramFileWord, s # call.slot
      PROVE  flash'[FileStart(s) + j] \in {Erased, FileWord(f, j)}
    <2>1. \A w \in FlashWords \ Region(call.slot) : flash'[w] = flash[w]
        BY <1>5, FileSteps DEF IInv
    <2>2. call.slot \in Slots \ {s}
        BY <1>5, RunningCall DEF EraseFilePage, ProgramFileWord, IInv
    <2> QED
        BY <2>1, <2>2, <1>3, RegionWords
<1>6. ASSUME EraseFilePage, s = call.slot
      PROVE  FALSE
    <2>1. FileInv'
        BY FileNext
    <2>2. pc' = "eraseFile" /\ idx' = idx + 1 /\ call' = call
        BY <1>6 DEF EraseFilePage
    <2>3. PAGE_WORDS * idx' \in Nat /\ PAGE_WORDS * idx' = PAGE_WORDS * idx + PAGE_WORDS
        BY <1>0, <2>2, SizesAreNats
    <2>4. PAGE_WORDS * idx \in Nat
        BY <1>0, SizesAreNats
    <2>5. 0 \in 0 .. (PAGE_WORDS * idx' - 1)
        BY <2>3, <2>4, SizesAreNats
    <2>6. flash'[FileStart(s) + 0] = Erased
        BY <1>6, <2>1, <2>2, <2>5 DEF FileInv
    <2>7. flash'[FileStart(s) + 0] = FileWord(f, 0)
        BY <1>0
    <2> QED
        BY <2>6, <2>7, ValueAssumption DEF FileWord
<1>7. ASSUME ProgramFileWord, s = call.slot
      PROVE  flash'[FileStart(s) + j] \in {Erased, FileWord(f, j)}
    <2>1. /\ pc' = "programFile" /\ idx' = idx + 1 /\ call' = call
        BY <1>7 DEF ProgramFileWord, ghostVars
    <2>2. /\ \A k \in 0 .. (idx' - 1) :
                flash'[FileStart(s) + k] = FileWord(call.file, k)
          /\ \A k \in idx' .. (FileWords(call.file) - 1) :
                flash'[FileStart(s) + k] = Erased
        BY <1>7, <2>1, FileNext DEF FileInv
    <2>3. FileWord(f, 0) = FileWord(call.file, 0)
        <3>1. 0 \in 0 .. (HEADER_WORDS - 1) /\ 0 \in 0 .. (idx' - 1)
            BY <1>0, <2>1
        <3> QED
            BY <2>2, <3>1
    <2>4. f = call.file
        BY <2>3 DEF FileWord
    <2>5. j \in 0 .. (idx' - 1) \/ j \in idx' .. (FileWords(call.file) - 1)
        BY <1>0, <2>1, <2>4
    <2> QED
        BY <2>2, <2>4, <2>5
<1>8. CASE flash' = flash
    BY <1>3, <1>8
<1> QED
    BY <1>4, <1>5, <1>6, <1>7, <1>8
       DEF Next, vars, WriteFileBegin, ProgramFatFails, StoreFatDone,
           EraseFileDone, ProgramFileFails, WriteFileDone, Reboot

(* As long as the controller erases what it is told to erase, no cut-short *)
(* write_file leaves the header of one file over words of another.         *)
THEOREM FilesNeverBlended == Spec => []NoBlend
<1>1. Init => NoBlend
    <2> SUFFICES ASSUME Init, NEW s \in Slots, NEW f \in Files,
                        NEW k \in 0 .. (FileWords(f) - 1)
                 PROVE  flash[FileStart(s) + k] \in {Erased, FileWord(f, k)}
        BY DEF NoBlend
    <2>1. k \in 0 .. (STORED_FILE_WORDS - 1)
        BY FileSizes, SizesAreNats
    <2> QED
        BY <2>1, RegionWords DEF Init
<1> QED
    BY <1>1, NoBlendNext, Inductive, PTL DEF Spec

-----------------------------------------------------------------------------
(***************************************************************************)
(* FileSystem implements FileStore, for every geometry its assumptions     *)
(* allow, every set of files and uuids, and any number of calls, resets    *)
(* and flash errors.                                                       *)
(***************************************************************************)

(* What a slot shows depends on the last word of its entry in RAM only.    *)
Shows(s) ==
    IF s \in suspect THEN Damaged
    ELSE IF fat[EntryBase(s) + UUID_WORDS] = Erased THEN Empty
    ELSE stored[s]

AllShown == [s \in Slots |-> Shown(s)]

-----------------------------------------------------------------------------
LEMMA ShownIsShows == IInv => \A s \in Slots : Shown(s) = Shows(s)
<1> SUFFICES ASSUME IInv, NEW s \in Slots
             PROVE  Shown(s) = Shows(s)
    OBVIOUS
<1>1. CASE s \in suspect
    BY <1>1 DEF Shown, Shows
<1>2. CASE s \notin suspect /\ fat[EntryBase(s) + UUID_WORDS] = Erased
    <2>1. ~CanReadFile(s)
        BY <1>2, ErasedEntryRefused
    <2> QED
        BY <1>2, <2>1 DEF Shown, Shows
<1>3. CASE s \notin suspect /\ fat[EntryBase(s) + UUID_WORDS] # Erased
    <2>1. FileClean(s) /\ RamEntryClean(s) /\ TypeOK
        BY <1>3 DEF IInv, CleanInv
    <2>2. /\ stored[s] # NoCall
          /\ \A k \in 0 .. UUID_WORDS : fat[EntryBase(s) + k] = Entry(stored[s])[k]
        BY <1>3, <2>1 DEF RamEntryClean
    <2>3. stored[s] \in Calls /\ stored[s].slot = s
        BY <2>1, <2>2 DEF TypeOK, FileClean
    <2>4. \A k \in 0 .. (FileWords(stored[s].file) - 1) :
             flash[FileStart(s) + k] = FileWord(stored[s].file, k)
        BY <2>1, <2>2 DEF FileClean
    <2>5. Whole(stored[s])
        BY <2>1, <2>2, <2>3, <2>4, CleanIsWhole
    <2>6. CanReadFile(s)
        BY <2>3, <2>5 DEF Whole, IsSlotInUse
    <2> QED
        BY <1>3, <2>2, <2>5, <2>6 DEF Shown, Shows
<1> QED
    BY <1>1, <1>2, <1>3

(* The same, before and after a step.                                      *)
LEMMA ShownNext ==
    IInv /\ IInv' =>
        /\ AllShown = [s \in Slots |-> Shows(s)]
        /\ AllShown' = [s \in Slots |-> Shows(s)']
<1>1. IInv' => (\A s \in Slots : Shown(s) = Shows(s))'
    BY ShownIsShows, PTL
<1>2. IInv' => \A s \in Slots : Shown(s)' = Shows(s)'
    BY <1>1
<1> QED
    BY <1>2, ShownIsShows DEF AllShown

(* A step that leaves the table in RAM alone, and what is known of the     *)
(* slots, leaves alone what they show.                                     *)
LEMMA ShownUnchanged ==
    IInv /\ IInv' /\ UNCHANGED <<fat, stored, suspect>> => AllShown' = AllShown
<1> SUFFICES ASSUME IInv, IInv', UNCHANGED <<fat, stored, suspect>>
             PROVE  AllShown' = AllShown
    OBVIOUS
<1>1. \A s \in Slots : Shows(s)' = Shows(s)
    BY DEF Shows
<1> QED
    BY <1>1, ShownNext

-----------------------------------------------------------------------------
(***************************************************************************)
(* The steps                                                               *)
(***************************************************************************)
LEMMA InitialStore == Init => Store!Init
<1> SUFFICES ASSUME Init
             PROVE  Store!Init
    OBVIOUS
<1>1. ASSUME NEW s \in Slots
      PROVE  Shown(s) = Empty
    <2>1. Shown(s) = Shows(s)
        BY InvInit, ShownIsShows
    <2>2. fat[EntryBase(s) + UUID_WORDS] = Erased
        <3>1. UUID_WORDS \in 0 .. UUID_WORDS
            BY SizesAreNats
        <3>2. EntryBase(s) + UUID_WORDS \in 0 .. (FAT_WORDS - 1)
            BY <3>1, EntryWords
        <3>3. FLASH_FAT_START + (EntryBase(s) + UUID_WORDS) \in FlashWords
            BY <3>1, FlashEntryAddress
        <3> QED
            BY <3>2, <3>3 DEF Init, LoadFat, ReadWords
    <2> QED
        BY <2>1, <2>2 DEF Shows, Init
<1> QED
    BY <1>1 DEF Init, Store!Init

LEMMA BeginStep ==
    ASSUME IInv, IInv', NEW c \in Calls, WriteFileBegin(c)
    PROVE  Store!Begin(c)
<1>1. c.slot \in Slots
    BY DEF Calls
<1>2. UUID_WORDS \in 0 .. UUID_WORDS
    BY SizesAreNats
<1>3. fat \in [0 .. (FAT_WORDS - 1) -> Cells] /\ call = NoCall
    BY DEF IInv, TypeOK, WriteFileBegin
<1>4. Shows(c.slot)' = Damaged
    BY DEF Shows, WriteFileBegin
<1>5. ASSUME NEW s \in Slots \ {c.slot}
      PROVE  Shows(s)' = Shows(s)
    <2>1. /\ EntryBase(s) + UUID_WORDS \in DOMAIN fat
          /\ (EntryBase(s) + UUID_WORDS) - EntryBase(c.slot) \notin 0 .. UUID_WORDS
        BY <1>1, <1>2, <1>3, EntryWords
    <2>2. fat'[EntryBase(s) + UUID_WORDS] = fat[EntryBase(s) + UUID_WORDS]
        BY <2>1 DEF WriteFileBegin
    <2>3. s \in suspect' <=> s \in suspect
        BY DEF WriteFileBegin
    <2>4. stored' = stored
        BY DEF WriteFileBegin
    <2> QED
        BY <2>2, <2>3, <2>4 DEF Shows
<1>6. AllShown' = [AllShown EXCEPT ![c.slot] = Damaged]
    BY <1>1, <1>4, <1>5, ShownNext
<1> QED
    BY <1>3, <1>6 DEF Store!Begin, WriteFileBegin, AllShown

(* The steps within write_file, up to its return.                          *)
LEMMA WithinStep ==
    ASSUME IInv, IInv',
           \/ EraseFatPage \/ ProgramFatWord \/ ProgramFatFails \/ StoreFatDone
           \/ EraseFilePage \/ EraseFileDone \/ ProgramFileWord
    PROVE  Store!StoreTable
<1>1. /\ pc # "idle"
      /\ UNCHANGED <<fat, stored, suspect, call>>
    BY DEF EraseFatPage, ProgramFatWord, ProgramFatFails, StoreFatDone,
           EraseFilePage, EraseFileDone, ProgramFileWord, ghostVars
<1>2. call # NoCall
    BY <1>1, RunningCall DEF IInv
<1>3. fatDirty' \in BOOLEAN
    BY DEF IInv, TypeOK
<1> QED
    BY <1>1, <1>2, <1>3, ShownUnchanged DEF Store!StoreTable, AllShown

LEMMA FailStep ==
    ASSUME IInv, IInv', ProgramFileFails
    PROVE  Store!Fail
<1>1. call # NoCall
    BY RunningCall DEF IInv, ProgramFileFails
<1>2. fatDirty' \in BOOLEAN
    BY DEF IInv, TypeOK
<1> QED
    BY <1>1, <1>2, ShownUnchanged DEF Store!Fail, AllShown, ProgramFileFails

(* A write_file that returns 0 has ended well, unless an operation failed  *)
(* unnoticed.                                                              *)
LEMMA DoneStep ==
    ASSUME IInv, IInv', WriteFileDone
    PROVE  Store!Finish \/ Store!Fail
<1>1. /\ call # NoCall /\ call \in Calls
      /\ call.slot \in Slots /\ call.file \in Files
      /\ call.slot \in suspect
    BY RunningCall DEF IInv, CallInv, WriteFileDone
<1>2. /\ stored \in [Slots -> Calls \cup {NoCall}]
      /\ fatDirty' \in BOOLEAN
    BY DEF IInv, TypeOK
<1>3. PICK slot \in Slots : slot = call.slot
    BY <1>1
<1>4. ASSUME NEW s \in Slots \ {slot}
      PROVE  Shows(s)' = Shows(s)
    <2>1. stored'[s] = stored[s] /\ fat' = fat
        BY <1>2, <1>3 DEF WriteFileDone
    <2>2. s \in suspect' <=> s \in suspect
        BY <1>3 DEF WriteFileDone
    <2> QED
        BY <2>1, <2>2 DEF Shows
<1>5. CASE faulted
    <2>1. Shows(slot)' = Shows(slot)
        BY <1>1, <1>3, <1>5 DEF Shows, WriteFileDone
    <2>2. AllShown' = AllShown
        BY <1>4, <2>1, ShownNext
    <2> QED
        BY <1>1, <1>2, <2>2 DEF Store!Fail, AllShown, WriteFileDone
<1>6. CASE ~faulted
    <2>1. fat[EntryBase(slot) + UUID_WORDS]
            = LocWord(FileStart(slot), FileLength(call.file))
        BY <1>3, SizesAreNats DEF IInv, CallInv, Entry, WriteFileDone
    <2>2. LocWord(FileStart(slot), FileLength(call.file)) # Erased
        BY <1>1, <1>3, RegionBounds, FileSizes, ValueAssumption DEF LocWord
    <2>3. /\ slot \notin suspect'
          /\ stored'[slot] = call
          /\ fat' = fat
        BY <1>2, <1>3, <1>6 DEF WriteFileDone
    <2>4. Shows(slot)' = call
        BY <2>1, <2>2, <2>3 DEF Shows
    <2>5. AllShown' = [AllShown EXCEPT ![slot] = call]
        BY <1>4, <2>4, ShownNext
    <2>6. fatDirty' = FALSE
        BY <1>2, <1>6 DEF IInv, FatInv, TypeOK, WriteFileDone
    <2> QED
        BY <1>1, <1>3, <2>5, <2>6 DEF Store!Finish, AllShown, TheCall, WriteFileDone
<1> QED
    BY <1>5, <1>6

(* A reset drops whole files, and only if the table in flash was           *)
(* unreliable.                                                             *)
LEMMA ResetStep ==
    ASSUME IInv, IInv', Reboot
    PROVE  Store!Reset
<1> DEFINE Word(s) == fat[EntryBase(s) + UUID_WORDS]
           dropped == {s \in Slots \ suspect : Word(s)' = Erased /\ Word(s) # Erased}
<1>1. ASSUME NEW s \in Slots \ suspect
      PROVE  /\ Word(s)' = Erased \/ Word(s)' = Word(s)
             /\ ~fatDirty => Word(s)' = Word(s)
    <2>1. Word(s)' = FlashEntryWord(s, UUID_WORDS)
        <3>1. flash \in [FlashWords -> Cells] /\ UUID_WORDS \in 0 .. UUID_WORDS
            BY SizesAreNats DEF IInv, TypeOK
        <3> QED
            BY <3>1, FlashEntryAddress, LoadedTable DEF Reboot
    <2>2. FlashEntryClean(s) /\ UUID_WORDS \in 0 .. UUID_WORDS
        BY SizesAreNats DEF IInv, CleanInv
    <2>3. ASSUME ~fatDirty
          PROVE  EntryInFlash(s)
        <3>1. pc \in {"idle", "eraseFat", "programFat", "eraseFile", "programFile"}
            BY DEF IInv, TypeOK
        <3>2. pc # "idle" => s # call.slot
            BY DEF IInv, CallInv
        <3>3. ASSUME pc \in {"idle", "eraseFile", "programFile"}
              PROVE  EntryInFlash(s)
            BY <2>3, <3>3, FlashEntryAddress DEF IInv, FatInv, EntryInFlash
        <3> QED
            BY <2>3, <3>1, <3>2, <3>3 DEF IInv, FatInv
    <2> QED
        BY <2>1, <2>2, <2>3 DEF FlashEntryClean, EntryInFlash
<1>2. UNCHANGED <<stored, suspect>>
    BY DEF Reboot
<1>3. ASSUME NEW s \in Slots
      PROVE  Shows(s)' = IF s \in dropped THEN Empty ELSE Shows(s)
    BY <1>1, <1>2 DEF Shows
<1> HIDE DEF Word
<1>4. AllShown' = [s \in Slots |-> IF s \in dropped THEN Empty ELSE AllShown[s]]
    BY <1>3, ShownNext
<1>5. dropped \in IF fatDirty THEN SUBSET Slots ELSE {{}}
    <2>1. ~fatDirty => dropped = {}
        BY <1>1
    <2> QED
        BY <2>1
<1> HIDE DEF dropped
<1>6. AllShown' \in Store!AfterReset(AllShown, fatDirty)
    BY <1>4, <1>5 DEF Store!AfterReset
<1> QED
    BY <1>6 DEF Store!Reset, AllShown, Reboot

LEMMA StoreNext == IInv /\ IInv' /\ [Next]_vars => [Store!Next]_(Store!vars)
<1> SUFFICES ASSUME IInv, IInv', [Next]_vars
             PROVE  [Store!Next]_(Store!vars)
    OBVIOUS
<1>1. CASE \E c \in Calls : WriteFileBegin(c)
    BY <1>1, BeginStep DEF Store!Next
<1>2. CASE \/ EraseFatPage \/ ProgramFatWord \/ ProgramFatFails \/ StoreFatDone
           \/ EraseFilePage \/ EraseFileDone \/ ProgramFileWord
    BY <1>2, WithinStep DEF Store!Next
<1>3. CASE ProgramFileFails
    BY <1>3, FailStep DEF Store!Next
<1>4. CASE WriteFileDone
    BY <1>4, DoneStep DEF Store!Next
<1>5. CASE Reboot
    BY <1>5, ResetStep DEF Store!Next
<1>6. CASE UNCHANGED vars
    <2>1. AllShown' = AllShown
        BY <1>6, ShownUnchanged DEF vars
    <2> QED
        BY <1>6, <2>1 DEF Store!vars, AllShown, vars
<1> QED
    BY <1>1, <1>2, <1>3, <1>4, <1>5, <1>6 DEF Next

(* The file system implements the store of files that the command handlers *)
(* rely on: every step of write_file, and every reset, is a step of        *)
(* FileStore or changes nothing there.                                     *)
THEOREM FileSystemIsStore == Spec => StoreSpec
<1>1. Init => Store!Init
    BY InitialStore
<1>2. IInv /\ IInv' /\ [Next]_vars => [Store!Next]_(Store!vars)
    BY StoreNext
<1> QED
    BY <1>1, <1>2, Inductive, PTL DEF Spec, StoreSpec, Store!Spec
=============================================================================
