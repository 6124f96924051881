------------------------------ MODULE MCLayout ------------------------------
(***************************************************************************)
(* Layout with the firmware's constants; addresses in words of 8 bytes.    *)
(***************************************************************************)
EXTENDS Layout

MCFiles == 0 .. MAX_CONTENTS_SIZE
MCContentsLen == [n \in MCFiles |-> n]

(* What the theorems about Layout assume holds of the firmware's numbers.  *)
ASSUME FirmwareAssumption ==
    RegionsAligned /\ FirmwareSizes
=============================================================================
