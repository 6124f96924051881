----------------------------- MODULE FileSystem -----------------------------
(***************************************************************************)
(* firmware/src/filesystem.c and filesystem.h: the files an HSM keeps in   *)
(* flash, the file allocation table (FAT) that says where they are, and    *)
(* what survives a reset.                                                  *)
(*                                                                         *)
(* write_file is the only operation that changes anything.  It updates     *)
(* the table in RAM, erases and programs the table's flash page, erases    *)
(* the pages of the file and programs the file, one word after the other.  *)
(* The board may be reset between any two of these flash operations, and   *)
(* the flash controller may report a failure of any of them.               *)
(***************************************************************************)
EXTENDS SimpleFlash

CONSTANTS
    MAX_FILE_COUNT,     \* number of slots
    FILE_PAGE_COUNT,    \* pages reserved for the file of one slot
    FILES_START_ADDR,   \* address of the first slot's first page
    FLASH_FAT_START,    \* address of the page that holds the table
    UUID_WORDS,         \* words of a uuid: UUID_SIZE / 8
    HEADER_SIZE,        \* offsetof(file_t, contents), in bytes
    MAX_CONTENTS_SIZE,  \* in bytes
    INT_MAX,            \* the largest int
    Files,              \* the values of a file_t ...
    ContentsLen,        \* ... and the contents_len of each, in bytes
    Uuids,
    NoCall,             \* no write_file
    Empty,              \* what a slot shows that read_file refuses
    Damaged             \* what a slot shows of which nothing is promised

Slots == 0 .. (MAX_FILE_COUNT - 1)
Calls == [slot : Slots, file : Files, uuid : Uuids]

ENTRY_WORDS == UUID_WORDS + 1
FAT_WORDS == MAX_FILE_COUNT * ENTRY_WORDS
STORED_FILE_WORDS == PAGE_WORDS * FILE_PAGE_COUNT
HEADER_WORDS == ProgramWords(HEADER_SIZE)
UINT_MAX == 2 * INT_MAX + 1

EntryBase(slot) == slot * ENTRY_WORDS
FileStart(slot) == FILES_START_ADDR + STORED_FILE_WORDS * slot
Region(slot) == FileStart(slot) .. (FileStart(slot) + STORED_FILE_WORDS - 1)
Regions == FILES_START_ADDR ..
              (FILES_START_ADDR + STORED_FILE_WORDS * MAX_FILE_COUNT - 1)
FlashWords == Page(FLASH_FAT_START) \cup Regions

(* contents_len is unsigned: the minimum write_file asks for is a no-op.   *)
FileLength(f) == ContentsLen[f] + HEADER_SIZE
FileWords(f) == ProgramWords(FileLength(f))

\* Bugs PagesNeeded could have: dividing without rounding up, forgetting the
\* header, looping over one page too many.
PagesRoundedDown(f) == FileLength(f) \div FLASH_PAGE_SIZE
PagesOfContents(f) ==
    (ContentsLen[f] + FLASH_PAGE_SIZE - 1) \div FLASH_PAGE_SIZE
PagesOneTooMany(f) == FILE_PAGE_COUNT + 1

PagesNeeded(f) ==
    LET pages == (FileLength(f) + FLASH_PAGE_SIZE - 1) \div FLASH_PAGE_SIZE
    IN  IF pages > FILE_PAGE_COUNT THEN FILE_PAGE_COUNT ELSE pages

(***************************************************************************)
(* The contents of a word.  flash_addr and length share one.               *)
(***************************************************************************)
UuidWord(u, k) == [uuid |-> u, part |-> k]
LocWord(addr, len) == [addr |-> addr, len |-> len]
FileWord(f, k) == [file |-> f, word |-> k]

FatCells == [uuid : Uuids, part : 0 .. (UUID_WORDS - 1)]
              \cup [addr : Nat, len : Nat] \cup {Erased}
Cells == FatCells \cup [file : Files, word : Nat]

(***************************************************************************)
(* What write_file puts into a slot's entry, and into its file region.     *)
(***************************************************************************)
Entry(c) ==
    [k \in 0 .. UUID_WORDS |->
        IF k < UUID_WORDS THEN UuidWord(c.uuid, k)
        ELSE LocWord(FileStart(c.slot), FileLength(c.file))]

FileImage(f) == [k \in 0 .. (FileWords(f) - 1) |-> FileWord(f, k)]

ASSUME GeometryAssumption ==
    /\ PAGE_WORDS \in Nat \ {0}
    /\ MAX_FILE_COUNT \in Nat \ {0}
    /\ FILE_PAGE_COUNT \in Nat \ {0}
    /\ UUID_WORDS \in Nat \ {0}
    /\ FILES_START_ADDR \in Nat \ {0}
    /\ FLASH_FAT_START \in Nat
    /\ FAT_WORDS <= PAGE_WORDS
    /\ FILES_START_ADDR + STORED_FILE_WORDS * MAX_FILE_COUNT <= FLASH_FAT_START

ASSUME SizeAssumption ==
    /\ HEADER_SIZE \in Nat \ {0}
    /\ HEADER_SIZE <= FLASH_PAGE_SIZE
    /\ MAX_CONTENTS_SIZE \in Nat
    /\ HEADER_SIZE + MAX_CONTENTS_SIZE <= FILE_PAGE_COUNT * FLASH_PAGE_SIZE
    /\ ContentsLen \in [Files -> 0 .. MAX_CONTENTS_SIZE]

ASSUME IntAssumption ==
    /\ INT_MAX \in Nat
    /\ FLASH_FAT_START <= INT_MAX
    /\ HEADER_SIZE + MAX_CONTENTS_SIZE <= INT_MAX

ASSUME ValueAssumption ==
    /\ NoCall \notin Calls
    /\ Erased \notin [uuid : Uuids, part : Nat] \cup [addr : Nat, len : Nat]
                        \cup [file : Files, word : Nat]

VARIABLES
    flash,        \* the words of the file regions and of the table's page
    fat,          \* FILE_ALLOCATION_TABLE in RAM, word by word
    pc,           \* how far write_file is
    call,         \* its arguments
    idx,          \* the page or word it erases or programs next
    \* What the code does not record, but its correctness is about:
    stored,       \* per slot, the last write_file that returned 0
    suspect,      \* slots whose last write_file was cut short or met a fault
    lost,         \* slots whose entry a reset may have dropped
    fatDirty,     \* the table's page is not completely programmed
    faulted,      \* a flash operation of the current write_file failed
    eraseFailed   \* the controller once failed to erase a page of a file

codeVars == <<flash, fat, pc, call, idx>>
ghostVars == <<stored, suspect, lost, fatDirty, faulted, eraseFailed>>
vars == <<flash, fat, pc, call, idx,
          stored, suspect, lost, fatDirty, faulted, eraseFailed>>

(***************************************************************************)
(* load_fat copies the table's page to RAM, whatever it holds.             *)
(***************************************************************************)
\* A bug it could have: copying one entry, not the table.
LoadFirstEntry(mem) == ReadWords(mem, FLASH_FAT_START, ENTRY_WORDS)

LoadFat(mem) == ReadWords(mem, FLASH_FAT_START, FAT_WORDS)

Init ==
    /\ flash = [w \in FlashWords |-> Erased]
    /\ fat = LoadFat(flash)
    /\ pc = "idle"
    /\ call = NoCall
    /\ idx = 0
    /\ stored = [s \in Slots |-> NoCall]
    /\ suspect = {}
    /\ lost = {}
    /\ fatDirty = FALSE
    /\ faulted = FALSE
    /\ eraseFailed = FALSE

-----------------------------------------------------------------------------
(***************************************************************************)
(* Reading.  read_file keeps flash_addr and length in ints: the all-ones   *)
(* fields of an entry that was never programmed read as -1.                *)
(***************************************************************************)
\* A bug: unsigned variables.
AsUnsigned(u) == u

AsInt(u) == IF u > INT_MAX THEN u - (UINT_MAX + 1) ELSE u

Location(slot) ==
    LET loc == fat[EntryBase(slot) + UUID_WORDS]
    IN  IF loc = Erased THEN LocWord(UINT_MAX, UINT_MAX) ELSE loc

CanReadFile(slot) ==
    /\ ~ AsInt(Location(slot).addr) <= 0
    /\ ~ AsInt(Location(slot).len) <= 0

ReadFile(slot) ==
    ReadWords(flash, Location(slot).addr, ProgramWords(Location(slot).len))

(* contents_len, in the last word of the header: 65535 if it is erased.    *)
ContentsLenRead(slot) ==
    LET word == ReadFile(slot)[HEADER_WORDS - 1]
    IN  IF word = Erased THEN 65535 ELSE ContentsLen[word.file]

IsSlotInUse(slot) ==
    /\ Location(slot).addr # 0
    /\ Location(slot).len # 0
    /\ CanReadFile(slot)
    /\ \E f \in Files : ReadFile(slot)[0] = FileWord(f, 0)

GetFileMetadata(slot) == ReadWords(fat, EntryBase(slot), ENTRY_WORDS)

-----------------------------------------------------------------------------
(***************************************************************************)
(* write_file                                                              *)
(***************************************************************************)
\* A bug: the table is not stored.
WriteFileSkipsStoreFat(c) ==
    /\ pc = "idle"
    /\ fat' = [n \in DOMAIN fat |->
                  IF n - EntryBase(c.slot) \in 0 .. UUID_WORDS
                  THEN Entry(c)[n - EntryBase(c.slot)]
                  ELSE fat[n]]
    /\ pc' = "eraseFile"
    /\ call' = c
    /\ suspect' = suspect \cup {c.slot}
    /\ faulted' = FALSE
    /\ UNCHANGED <<flash, idx, stored, lost, fatDirty, eraseFailed>>

WriteFileBegin(c) ==
    /\ pc = "idle"
    /\ fat' = [n \in DOMAIN fat |->
                  IF n - EntryBase(c.slot) \in 0 .. UUID_WORDS
                  THEN Entry(c)[n - EntryBase(c.slot)]
                  ELSE fat[n]]
    /\ pc' = "eraseFat"
    /\ call' = c
    /\ suspect' = suspect \cup {c.slot}
    /\ faulted' = FALSE
    /\ UNCHANGED <<flash, idx, stored, lost, fatDirty, eraseFailed>>

(***************************************************************************)
(* store_fat: its two flash operations, whose failures nobody looks at.    *)
(***************************************************************************)
EraseFatPage ==
    /\ pc = "eraseFat"
    /\ \/ /\ flash' = ErasePage(flash, FLASH_FAT_START)
          /\ UNCHANGED faulted
       \/ /\ faulted' = TRUE
          /\ UNCHANGED flash
    /\ pc' = "programFat"
    /\ fatDirty' = TRUE
    /\ UNCHANGED <<fat, call, idx, stored, suspect, lost, eraseFailed>>

ProgramFatWord ==
    /\ pc = "programFat"
    /\ idx < FAT_WORDS
    /\ flash' = ProgramWord(flash, FLASH_FAT_START + idx, fat[idx])
    /\ idx' = idx + 1
    /\ UNCHANGED <<fat, pc, call, ghostVars>>

ProgramFatFails ==
    /\ pc = "programFat"
    /\ idx < FAT_WORDS
    /\ pc' = "eraseFile"
    /\ idx' = 0
    /\ faulted' = TRUE
    /\ UNCHANGED <<flash, fat, call, stored, suspect, lost, fatDirty,
                   eraseFailed>>

StoreFatDone ==
    /\ pc = "programFat"
    /\ idx = FAT_WORDS
    /\ pc' = "eraseFile"
    /\ idx' = 0
    /\ fatDirty' = FALSE
    /\ UNCHANGED <<flash, fat, call, stored, suspect, lost, faulted,
                   eraseFailed>>

\* A bug: the loop over the pages does not count them.
EraseFilePageAgain ==
    /\ pc = "eraseFile"
    /\ idx < PagesNeeded(call.file)
    /\ flash' = ErasePage(flash, FileStart(call.slot) + PAGE_WORDS * idx)
    /\ UNCHANGED <<fat, pc, call, idx, ghostVars>>

EraseFilePage ==
    /\ pc = "eraseFile"
    /\ idx < PagesNeeded(call.file)
    /\ \/ /\ flash' = ErasePage(flash, FileStart(call.slot) + PAGE_WORDS * idx)
          /\ UNCHANGED <<faulted, eraseFailed>>
       \/ /\ faulted' = TRUE
          /\ eraseFailed' = TRUE
          /\ UNCHANGED flash
    /\ idx' = idx + 1
    /\ UNCHANGED <<fat, pc, call, stored, suspect, lost, fatDirty>>

EraseFileDone ==
    /\ pc = "eraseFile"
    /\ idx = PagesNeeded(call.file)
    /\ pc' = "programFile"
    /\ idx' = 0
    /\ UNCHANGED <<flash, fat, call, ghostVars>>

ProgramFileWord ==
    /\ pc = "programFile"
    /\ idx < FileWords(call.file)
    /\ flash' = ProgramWord(flash, Location(call.slot).addr + idx,
                            FileWord(call.file, idx))
    /\ idx' = idx + 1
    /\ UNCHANGED <<fat, pc, call, ghostVars>>

(***************************************************************************)
(* write_file returns: -1 when the last flash_simple_write failed.         *)
(***************************************************************************)
ProgramFileFails ==
    /\ pc = "programFile"
    /\ idx < FileWords(call.file)
    /\ pc' = "idle"
    /\ call' = NoCall
    /\ idx' = 0
    /\ faulted' = FALSE
    /\ UNCHANGED <<flash, fat, stored, suspect, lost, fatDirty, eraseFailed>>

WriteFileDone ==
    /\ pc = "programFile"
    /\ idx = FileWords(call.file)
    /\ pc' = "idle"
    /\ call' = NoCall
    /\ idx' = 0
    /\ stored' = [stored EXCEPT ![call.slot] = call]
    /\ suspect' = IF faulted THEN suspect ELSE suspect \ {call.slot}
    /\ lost' = lost \ {call.slot}
    /\ faulted' = FALSE
    /\ UNCHANGED <<flash, fat, fatDirty, eraseFailed>>

(***************************************************************************)
(* A reset, at any point: main starts again, and init_fs loads the table.  *)
(* Flash keeps what it holds; a single erase or program operation is done  *)
(* completely or not at all.                                               *)
(***************************************************************************)
Reboot ==
    /\ fat' = LoadFat(flash)
    /\ pc' = "idle"
    /\ call' = NoCall
    /\ idx' = 0
    /\ lost' = IF fatDirty THEN Slots ELSE lost
    /\ fatDirty' = FALSE
    /\ faulted' = FALSE
    /\ UNCHANGED <<flash, stored, suspect, eraseFailed>>

Next ==
    \/ \E c \in Calls : WriteFileBegin(c)
    \/ EraseFatPage
    \/ ProgramFatWord
    \/ ProgramFatFails
    \/ StoreFatDone
    \/ EraseFilePage
    \/ EraseFileDone
    \/ ProgramFileWord
    \/ ProgramFileFails
    \/ WriteFileDone
    \/ Reboot

Spec == Init /\ [][Next]_vars

(* write_file is a loop over flash operations, each of which the driver    *)
(* waits for (DL_FlashCTL_waitForCmdDone): it goes on until it returns.    *)
(* Nobody need call it, and no reset need come.                            *)
WriteStep ==
    \/ EraseFatPage \/ ProgramFatWord \/ ProgramFatFails \/ StoreFatDone
    \/ EraseFilePage \/ EraseFileDone
    \/ ProgramFileWord \/ ProgramFileFails \/ WriteFileDone

FairSpec == Spec /\ WF_vars(WriteStep)

-----------------------------------------------------------------------------
(***************************************************************************)
(* Properties                                                              *)
(***************************************************************************)

(* The type of every variable.                                             *)
TypeOK ==
    /\ flash \in [FlashWords -> Cells]
    /\ fat \in [0 .. (FAT_WORDS - 1) -> Cells]
    /\ pc \in {"idle", "eraseFat", "programFat", "eraseFile", "programFile"}
    /\ call \in Calls \cup {NoCall}
    /\ (call = NoCall) <=> (pc = "idle")
    /\ idx \in Nat
    /\ stored \in [Slots -> Calls \cup {NoCall}]
    /\ suspect \subseteq Slots
    /\ lost \subseteq Slots
    /\ fatDirty \in BOOLEAN
    /\ faulted \in BOOLEAN
    /\ eraseFailed \in BOOLEAN

(* Outside store_fat the table in flash is the table in RAM, unless a      *)
(* store_fat failed: a reset between two commands changes nothing.         *)
FatCoherent ==
    pc \in {"idle", "eraseFile", "programFile"} /\ ~fatDirty
        => LoadFat(flash) = fat

(* The file c.file is listed for slot c.slot, with its uuid, and read_file *)
(* returns all of it.                                                      *)
Whole(c) ==
    /\ IsSlotInUse(c.slot)
    /\ GetFileMetadata(c.slot) = Entry(c)
    /\ ReadFile(c.slot) = FileImage(c.file)

(* What write_file reported as stored stays readable, complete, with the   *)
(* uuid it was stored with, through every later write to other slots, cut  *)
(* short by a reset or by a flash error or not.  The one exception is a    *)
(* reset while the table was being stored: it may drop the entries of any  *)
(* slot, and read_file then refuses the slot instead of returning wrong    *)
(* data.  A slot that was never written is never readable.                 *)
Durable ==
    \A s \in Slots \ suspect :
        IF stored[s] = NoCall THEN ~CanReadFile(s)
        ELSE \/ Whole(stored[s])
             \/ s \in lost /\ ~CanReadFile(s)

(* A slot never shows the header of one file over contents of another,     *)
(* whenever write_file was cut short: words of a file whose header is      *)
(* complete are its own or still erased.                                   *)
NoBlend ==
    ~eraseFailed =>
        \A s \in Slots, f \in Files :
            (\A k \in 0 .. (HEADER_WORDS - 1) :
                flash[FileStart(s) + k] = FileWord(f, k))
            => \A k \in 0 .. (FileWords(f) - 1) :
                  flash[FileStart(s) + k] \in {Erased, FileWord(f, k)}

(* simple_flash.c: "In order to be re-written the entire page must be      *)
(* erased."  Unless an operation of this write_file failed, every word it  *)
(* still has to program is erased, in the table's page and in the file's.  *)
ProgramsErased ==
    ~faulted =>
        /\ pc = "programFat" =>
              \A n \in idx .. (FAT_WORDS - 1) :
                  flash[FLASH_FAT_START + n] = Erased
        /\ pc = "programFile" =>
              \A k \in idx .. (FileWords(call.file) - 1) :
                  flash[FileStart(call.slot) + k] = Erased

(* write_file touches the table's page and the pages of its own slot, and  *)
(* nothing changes flash outside write_file.                               *)
SlotIsolation ==
    [][\A w \in FlashWords : flash'[w] # flash[w] =>
          /\ call # NoCall
          /\ w \in Page(FLASH_FAT_START) \cup Region(call.slot)]_vars

(* "Send actual size only": the size that read and listen send of a listed *)
(* file is taken from the file, the size that read_file has put into their *)
(* buffer is taken from the table, and the two are the same.               *)
ActualSizeSent ==
    \A s \in Slots :
        pc = "idle" /\ IsSlotInUse(s)
            => ContentsLenRead(s) + HEADER_SIZE = Location(s).len

(* Every write_file returns, unless a reset ends it.                       *)
WriteEnds == pc # "idle" ~> pc = "idle"

(* What a slot shows to the command handlers.                              *)
Shown(s) ==
    CASE s \notin suspect /\ ~CanReadFile(s) -> Empty
      [] s \notin suspect /\ CanReadFile(s) /\ stored[s] # NoCall
            /\ Whole(stored[s]) -> stored[s]
      [] OTHER -> Damaged

TheCall(c) == c

Store ==
    INSTANCE FileStore WITH
        Writes <- Calls, Content <- TheCall, Nothing <- NoCall,
        shown <- [s \in Slots |-> Shown(s)], writing <- call, dirty <- fatDirty

(* The file system implements the store of files the handlers rely on.     *)
StoreSpec == Store!Spec

-----------------------------------------------------------------------------
(***************************************************************************)
(* The inductive invariant behind them.                                    *)
(***************************************************************************)
FlashEntryWord(s, k) == flash[FLASH_FAT_START + EntryBase(s) + k]
EntryInFlash(s) ==
    \A k \in 0 .. UUID_WORDS : FlashEntryWord(s, k) = fat[EntryBase(s) + k]

(* While a write_file runs, its slot is suspect, and the table in RAM has  *)
(* its entry.                                                              *)
CallInv ==
    pc # "idle" =>
        /\ call.slot \in suspect
        /\ \A k \in 0 .. UUID_WORDS :
              fat[EntryBase(call.slot) + k] = Entry(call)[k]

(* How far store_fat is.                                                   *)
FatInv ==
    /\ pc \in {"idle", "eraseFat"} => idx = 0
    /\ pc = "eraseFat" /\ ~fatDirty =>
          \A s \in Slots \ {call.slot} : EntryInFlash(s)
    /\ pc = "programFat" =>
          /\ fatDirty
          /\ idx <= FAT_WORDS
          /\ \A n \in 0 .. (idx - 1) : flash[FLASH_FAT_START + n] = fat[n]
          /\ ~faulted => \A n \in idx .. (FAT_WORDS - 1) :
                            flash[FLASH_FAT_START + n] = Erased
    /\ pc \in {"eraseFile", "programFile"} /\ ~faulted => ~fatDirty
    /\ pc \in {"idle", "eraseFile", "programFile"} /\ ~fatDirty =>
          \A n \in 0 .. (FAT_WORDS - 1) : flash[FLASH_FAT_START + n] = fat[n]

(* How far the file is.                                                    *)
FileInv ==
    /\ pc = "eraseFile" =>
          /\ idx <= PagesNeeded(call.file)
          /\ ~(faulted /\ eraseFailed) =>
                \A k \in 0 .. (PAGE_WORDS * idx - 1) :
                   flash[FileStart(call.slot) + k] = Erased
    /\ pc = "programFile" =>
          /\ idx <= FileWords(call.file)
          /\ \A k \in 0 .. (idx - 1) :
                flash[FileStart(call.slot) + k] = FileWord(call.file, k)
          /\ ~(faulted /\ eraseFailed) =>
                \A k \in idx .. (FileWords(call.file) - 1) :
                   flash[FileStart(call.slot) + k] = Erased

(* A slot that is not suspect: its file is in flash; its entry in RAM is   *)
(* the one it was stored with, or lost; its entry in flash is the one in   *)
(* RAM, or does not have its last word, the one with address and length.   *)
FileClean(s) ==
    stored[s] # NoCall =>
        /\ stored[s].slot = s
        /\ \A k \in 0 .. (FileWords(stored[s].file) - 1) :
              flash[FileStart(s) + k] = FileWord(stored[s].file, k)
RamEntryClean(s) ==
    \/ /\ stored[s] = NoCall \/ s \in lost
       /\ fat[EntryBase(s) + UUID_WORDS] = Erased
    \/ /\ stored[s] # NoCall
       /\ \A k \in 0 .. UUID_WORDS :
             fat[EntryBase(s) + k] = Entry(stored[s])[k]
FlashEntryClean(s) ==
    FlashEntryWord(s, UUID_WORDS) = Erased \/ EntryInFlash(s)

CleanInv ==
    \A s \in Slots \ suspect :
        FileClean(s) /\ RamEntryClean(s) /\ FlashEntryClean(s)

IInv == TypeOK /\ CallInv /\ FatInv /\ FileInv /\ CleanInv
=============================================================================
