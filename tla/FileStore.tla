----------------------------- MODULE FileStore ------------------------------
(***************************************************************************)
(* What filesystem.c promises to the command handlers.  A slot shows       *)
(* nothing, a file with its uuid, or something of which nothing is         *)
(* promised.  A write that ends well shows the file; one that is cut short *)
(* or meets a flash error leaves its slot Damaged, and only its own.  A    *)
(* reset may drop files only while the table in flash is unreliable: while *)
(* it is being stored, and after it could not be.                          *)
(***************************************************************************)
CONSTANTS
    Slots,
    Writes,     \* the writes: records with a slot ...
    Content(_), \* ... and what the slot shows after each
    Empty,      \* what a slot shows that read_file refuses
    Damaged,    \* what a slot shows of which nothing is promised
    Nothing     \* no write

VARIABLES
    shown,      \* what each slot shows
    writing,    \* the write that is going on, or Nothing
    dirty       \* the table in flash is unreliable

vars == <<shown, writing, dirty>>

(* What the slots may show after a reset.                                  *)
AfterReset(contents, unreliable) ==
    {[s \in Slots |-> IF s \in dropped THEN Empty ELSE contents[s]] :
        dropped \in IF unreliable THEN SUBSET Slots ELSE {{}}}

Init ==
    /\ shown = [s \in Slots |-> Empty]
    /\ writing = Nothing
    /\ dirty = FALSE

Begin(w) ==
    /\ writing = Nothing
    /\ writing' = w
    /\ shown' = [shown EXCEPT ![w.slot] = Damaged]
    /\ dirty' \in {dirty, TRUE}

StoreTable ==
    /\ writing # Nothing
    /\ dirty' \in BOOLEAN
    /\ UNCHANGED <<shown, writing>>

(* A write only ends well if the table is in flash.                        *)
Finish ==
    /\ writing # Nothing
    /\ shown' = [shown EXCEPT ![writing.slot] = Content(writing)]
    /\ writing' = Nothing
    /\ dirty' = FALSE

Fail ==
    /\ writing # Nothing
    /\ writing' = Nothing
    /\ dirty' \in BOOLEAN
    /\ UNCHANGED shown

Reset ==
    /\ shown' \in AfterReset(shown, dirty)
    /\ writing' = Nothing
    /\ dirty' = FALSE

Next ==
    \/ \E w \in Writes : Begin(w)
    \/ StoreTable
    \/ Finish
    \/ Fail
    \/ Reset

Spec == Init /\ [][Next]_vars
=============================================================================
