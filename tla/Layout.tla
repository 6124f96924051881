------------------------------- MODULE Layout -------------------------------
(***************************************************************************)
(* The sizes the other modules abstract from, with the firmware's numbers: *)
(* where files are in flash, and the packets whose length decides whether  *)
(* listen takes them.                                                      *)
(*                                                                         *)
(* The constants of FileSystem have the firmware's values here, a file is  *)
(* its contents_len, and write_file is called for every slot of the table  *)
(* and every contents_len there is.  All sizes are in bytes.               *)
(***************************************************************************)
EXTENDS FileSystem

CONSTANTS
    MAX_NAME_SIZE,
    MAX_PERMS

UUID_SIZE == 8 * UUID_WORDS

SizeofSlot == 1        \* slot_t
SizeofGroupId == 2     \* group_id_t
SizeofInt == 4         \* uint32_t in_use, n_files, flash_addr and length
SizeofLen == 2         \* uint16_t contents_len
SizeofFilesystemEntry == UUID_SIZE + 2 * SizeofInt

ASSUME LayoutAssumption ==
    /\ HEADER_SIZE = SizeofInt + SizeofGroupId + MAX_NAME_SIZE + SizeofLen
    /\ SizeofFilesystemEntry = 8 * ENTRY_WORDS
    /\ MAX_NAME_SIZE \in Nat /\ MAX_PERMS \in Nat

(* security.h does not pack group_permission_t: a byte of padding.         *)
SizeofGroupPermission == SizeofGroupId + 3 + 1

(* The buffer listen reads a packet into, and its limit.                   *)
SizeofReceiveRequest == SizeofSlot + MAX_PERMS * SizeofGroupPermission

(***************************************************************************)
(* The lengths the handlers give write_packet on TRANSFER_INTERFACE.       *)
(***************************************************************************)
ListPktLen(n) ==
    SizeofInt + (MAX_NAME_SIZE + SizeofGroupId + SizeofSlot) * n

\* A bug: the contents alone, without the header of the file.
ReceiveContentsLength(f) == UUID_SIZE + ContentsLen[f]

ReceiveLength(f) == UUID_SIZE + FileLength(f)
ErrorLengths == {22, 19, 21}

(***************************************************************************)
(* What the properties below ask of the firmware's numbers.                *)
(***************************************************************************)
RegionsAligned == FILES_START_ADDR % PAGE_WORDS = 0

FirmwareSizes == MAX_NAME_SIZE = 32 /\ MAX_PERMS = 8 /\ UUID_SIZE = 16

-----------------------------------------------------------------------------
(***************************************************************************)
(* write_file is called once.                                              *)
(***************************************************************************)
FirstCall == pc = "idle" /\ \E c \in Calls : WriteFileBegin(c)

LayoutSpec == Init /\ [][FirstCall]_vars

-----------------------------------------------------------------------------
(***************************************************************************)
(* Properties                                                              *)
(***************************************************************************)
(* The pages write_file erases are in the slot's region and hold every     *)
(* word it programs, and the last of them some: for every slot and every   *)
(* contents_len, up to the largest, with the firmware's addresses.         *)
PagesExact ==
    call # NoCall =>
        LET erased == PAGE_WORDS * PagesNeeded(call.file)
            programmed == FileWords(call.file)
            first == FileStart(call.slot)
        IN  /\ programmed <= erased /\ erased < programmed + PAGE_WORDS
            /\ first % PAGE_WORDS = 0
            /\ first \in Region(call.slot)
            /\ first + erased - 1 \in Region(call.slot)
            /\ first + erased <= FLASH_FAT_START

(* Commands' TooLongForListen: an HSM that listens while its answer comes  *)
(* to another question refuses every file and every list of several, and   *)
(* takes error texts and a list of at most one.  (The file is one whose    *)
(* header was written whole.)                                              *)
RefusedByListen ==
    call # NoCall =>
        /\ ReceiveLength(call.file) > SizeofReceiveRequest
        /\ \A n \in 0 .. MAX_FILE_COUNT :
              ListPktLen(n) > SizeofReceiveRequest <=> n > 1
        /\ \A len \in ErrorLengths : len <= SizeofReceiveRequest
=============================================================================
