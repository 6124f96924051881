--------------------------- MODULE Layout_proofs ---------------------------
(***************************************************************************)
(* The pages write_file erases, for every size of pages, files and slots,  *)
(* and the packets listen refuses, for every file and every list.          *)
(***************************************************************************)
EXTENDS Layout, FileSystem_proofs

(* A multiple of a number leaves no remainder.                             *)
LEMMA MultipleHasNoRemainder ==
    ASSUME NEW size \in Nat \ {0}, NEW n \in Nat
    PROVE  (size * n) % size = 0
<1> DEFINE d == (size * n) \div size
           r == (size * n) % size
<1>1. size * n \in Nat
    OBVIOUS
<1>2. /\ d \in Nat /\ r \in Nat
      /\ r < size
      /\ size * n = size * d + r
    BY <1>1
<1> HIDE DEF d, r
<1>3. size * (n - d) = r
    BY <1>1, <1>2
<1>4. ~ (1 <= n - d)
    <2>1. SUFFICES ASSUME 1 <= n - d PROVE FALSE
        OBVIOUS
    <2>2. size * 1 <= size * (n - d)
        BY <1>2, <2>1, MultiplyMonotonic
    <2> QED
        BY <1>2, <1>3, <2>2
<1>5. ~ (1 <= d - n)
    <2>1. SUFFICES ASSUME 1 <= d - n PROVE FALSE
        OBVIOUS
    <2>2. size * 1 <= size * (d - n)
        BY <1>2, <2>1, MultiplyMonotonic
    <2>3. size * (d - n) = 0 - r
        BY <1>2, <1>3
    <2> QED
        BY <1>2, <2>2, <2>3
<1>6. n = d
    BY <1>2, <1>4, <1>5
<1>7. r = 0
    BY <1>2, <1>3, <1>6
<1> QED
    BY <1>7 DEF r

(* Pages of slots: the region of a slot begins with a page if the first of *)
(* them does.                                                              *)
LEMMA SlotsStartPages ==
    ASSUME FILES_START_ADDR % PAGE_WORDS = 0, NEW s \in Slots
    PROVE  FileStart(s) % PAGE_WORDS = 0
<1> DEFINE first == FILES_START_ADDR \div PAGE_WORDS
           pages == FILE_PAGE_COUNT * s
<1>1. s \in Nat /\ FILE_PAGE_COUNT \in Nat
    BY SizesAreNats, GeometryAssumption DEF Slots
<1>2. first \in Nat /\ FILES_START_ADDR = PAGE_WORDS * first
    BY SizesAreNats
<1>3. pages \in Nat
    BY <1>1
<1>4. STORED_FILE_WORDS * s = PAGE_WORDS * pages
    BY <1>1, SizesAreNats DEF STORED_FILE_WORDS
<1> HIDE DEF first, pages
<1>5. PAGE_WORDS * first + PAGE_WORDS * pages = PAGE_WORDS * (first + pages)
    BY <1>2, <1>3, SizesAreNats
<1>6. FileStart(s) = PAGE_WORDS * (first + pages)
    BY <1>2, <1>4, <1>5 DEF FileStart
<1>7. first + pages \in Nat
    BY <1>2, <1>3
<1> QED
    BY <1>6, <1>7, MultipleHasNoRemainder, SizesAreNats

(* No page is erased that write_file programs nothing of.                  *)
LEMMA LastPageUsed ==
    ASSUME NEW f \in Files
    PROVE  PAGE_WORDS * PagesNeeded(f) < FileWords(f) + PAGE_WORDS
<1> DEFINE len == FileLength(f)
           size == FLASH_PAGE_SIZE
           pages == (len + size - 1) \div size
<1>1. len \in Nat \ {0} /\ FileWords(f) \in Nat
    BY FileSizes
<1>2. size \in Nat \ {0} /\ size = 8 * PAGE_WORDS
    BY SizesAreNats DEF FLASH_PAGE_SIZE
<1>3. len <= 8 * FileWords(f)
    BY <1>1 DEF FileWords, ProgramWords, EvenSize32, Size32
<1>4. FILE_PAGE_COUNT \in Nat /\ PagesNeeded(f) \in Nat
    BY FileSizes, GeometryAssumption
<1> HIDE DEF len, size
<1>5. pages \in Nat \ {0} /\ size * (pages - 1) < len
    BY <1>1, <1>2
<1>6. PagesNeeded(f) <= pages
    BY <1>4, <1>5 DEF PagesNeeded, len, size
<1> HIDE DEF pages
<1>7. PAGE_WORDS * PagesNeeded(f) <= PAGE_WORDS * pages
    BY <1>4, <1>5, <1>6, MultiplyMonotonic, SizesAreNats
<1>8. /\ size * (pages - 1) = 8 * (PAGE_WORDS * pages) - 8 * PAGE_WORDS
      /\ PAGE_WORDS * pages \in Nat
    BY <1>2, <1>5, SizesAreNats
<1>9. PAGE_WORDS * PagesNeeded(f) \in Nat
    BY FileSizes
<1> QED
    BY <1>1, <1>3, <1>5, <1>7, <1>8, <1>9, SizesAreNats

(* A call is of a file.                                                    *)
LEMMA CalledFile ==
    ASSUME TypeOK, call # NoCall
    PROVE  /\ call.file \in Files
           /\ ContentsLen[call.file] \in Nat
           /\ ContentsLen[call.file] <= MAX_CONTENTS_SIZE
<1>1. call.file \in Files
    BY DEF TypeOK, Calls
<1> QED
    BY <1>1, SizeAssumption

LEMMA CallTyped == LayoutSpec => []TypeOK
<1>1. TypeOK /\ [FirstCall]_vars => TypeOK'
    BY TypeNext DEF FirstCall, Next
<1> QED
    BY <1>1, TypeInit, PTL DEF LayoutSpec

-----------------------------------------------------------------------------
(* What write_file erases is whole pages of its slot, before the table,    *)
(* that hold all it programs and no page more, whatever the length of the  *)
(* file, if the first file's region begins with a page.                    *)
THEOREM ErasesExactPages ==
    ASSUME RegionsAligned
    PROVE  LayoutSpec => []PagesExact
<1>1. ASSUME TypeOK
      PROVE  PagesExact
    <2>1. SUFFICES ASSUME call # NoCall PROVE PagesExact
        BY DEF PagesExact
    <2> DEFINE erased == PAGE_WORDS * PagesNeeded(call.file)
               programmed == FileWords(call.file)
               first == FileStart(call.slot)
    <2>2. call.slot \in Slots /\ call.file \in Files
        BY <1>1, <2>1 DEF TypeOK, Calls
    <2>3. /\ programmed <= erased
          /\ programmed \in Nat \ {0} /\ erased \in Nat
          /\ erased <= STORED_FILE_WORDS
        BY <2>2, FileSizes
    <2>4. erased < programmed + PAGE_WORDS
        BY <2>2, LastPageUsed
    <2>5. first % PAGE_WORDS = 0
        BY <2>2, SlotsStartPages DEF RegionsAligned
    <2>6. first \in Nat /\ first + STORED_FILE_WORDS <= FLASH_FAT_START
        BY <2>2, RegionBounds
    <2>7. Region(call.slot) = first .. (first + STORED_FILE_WORDS - 1)
        BY DEF Region
    <2> HIDE DEF erased, programmed, first
    <2>8. /\ first \in Region(call.slot)
          /\ first + erased - 1 \in Region(call.slot)
          /\ first + erased <= FLASH_FAT_START
        BY <2>3, <2>6, <2>7, SizesAreNats
    <2> QED
        BY <2>3, <2>4, <2>5, <2>8 DEF PagesExact, erased, programmed, first
<1> QED
    BY <1>1, CallTyped, PTL

(* listen's limit, the size of a request with 8 permissions, refuses the   *)
(* answer with a file of any length, and the list of any number of files   *)
(* but those of none and of one; and takes every error text.               *)
THEOREM RefusesAllButOne ==
    ASSUME FirmwareSizes
    PROVE  LayoutSpec => []RefusedByListen
<1>1. ASSUME TypeOK
      PROVE  RefusedByListen
    <2>1. SUFFICES ASSUME call # NoCall PROVE RefusedByListen
        BY DEF RefusedByListen
    <2>2. ContentsLen[call.file] \in Nat
        BY <1>1, <2>1, CalledFile
    <2>3. SizeofReceiveRequest = 49 /\ HEADER_SIZE = 40
        BY LayoutAssumption DEF FirmwareSizes, SizeofReceiveRequest, SizeofSlot,
           SizeofGroupPermission, SizeofGroupId, SizeofInt, SizeofLen
    <2>4. ReceiveLength(call.file) > SizeofReceiveRequest
        BY <2>2, <2>3 DEF FirmwareSizes, ReceiveLength, FileLength
    <2>5. ASSUME NEW n \in 0 .. MAX_FILE_COUNT
          PROVE  ListPktLen(n) > SizeofReceiveRequest <=> n > 1
        <3>1. n \in Nat
            BY SizesAreNats
        <3>2. ListPktLen(n) = 4 + 35 * n
            BY DEF FirmwareSizes, ListPktLen, SizeofInt, SizeofGroupId, SizeofSlot
        <3> QED
            BY <2>3, <3>1, <3>2
    <2>6. \A len \in ErrorLengths : len <= SizeofReceiveRequest
        BY <2>3 DEF ErrorLengths
    <2> QED
        BY <2>4, <2>5, <2>6 DEF RefusedByListen
<1> QED
    BY <1>1, CallTyped, PTL
=============================================================================
