---------------------------- MODULE MCFileSystem ----------------------------
(***************************************************************************)
(* FileSystem on a small flash: two slots of two 4-word pages, a two-word  *)
(* header, one file that is a header only, and two that need both pages    *)
(* (the last word of one only partly), uuids of one word.                  *)
(*                                                                         *)
(* Resets are not bounded.  MaxCalls bounds the calls of write_file, and   *)
(* MaxFaults the calls in which a flash operation fails and write_file     *)
(* goes on all the same.                                                   *)
(***************************************************************************)
EXTENDS FileSystem, TLC

CONSTANTS short, long, other, MaxCalls, MaxFaults

VARIABLES calls, faults

MCContentsLen == (short :> 0) @@ (long :> 20) @@ (other :> 24)

UuidSymmetry == Permutations(Uuids)

MCInit == Init /\ calls = 0 /\ faults = 0

MCNext ==
    /\ Next
    /\ calls' = IF pc = "idle" /\ pc' # "idle" THEN calls + 1 ELSE calls
    /\ faults' = IF faulted' /\ ~faulted THEN faults + 1 ELSE faults
    /\ calls' <= MaxCalls
    /\ faults' <= MaxFaults

MCSpec == MCInit /\ [][MCNext]_<<vars, calls, faults>>

(* WriteStep stays possible within the bounds: an operation that may fail  *)
(* may succeed too.                                                        *)
MCFairSpec == MCSpec /\ WF_<<vars, calls, faults>>(WriteStep /\ MCNext)
=============================================================================
