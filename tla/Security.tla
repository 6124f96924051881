------------------------------ MODULE Security ------------------------------
(***************************************************************************)
(* firmware/src/security.c and the table the build puts into secrets.h     *)
(* (firmware/secrets_to_c_header.py): what an HSM may do with the files of *)
(* a group.                                                                *)
(***************************************************************************)
EXTENDS Naturals, Sequences

CONSTANTS
    MAX_PERMS,  \* entries of a table of permissions
    GroupIds    \* the 16-bit group ids, 0 among them

Entries == [group_id : GroupIds, read : BOOLEAN, write : BOOLEAN,
            receive : BOOLEAN]
Tables == [1 .. MAX_PERMS -> Entries]

ASSUME SecurityAssumption == MAX_PERMS \in Nat \ {0} /\ 0 \in GroupIds

(***************************************************************************)
(* The initializer of global_permissions: C fills the entries the list     *)
(* does not have with zeros.                                               *)
(***************************************************************************)
ZeroEntry == [group_id |-> 0, read |-> FALSE, write |-> FALSE, receive |-> FALSE]

Table(permissions) ==
    [i \in 1 .. MAX_PERMS |->
        IF i <= Len(permissions) THEN permissions[i] ELSE ZeroEntry]

(***************************************************************************)
(* secure_compare looks at every byte, and says whether all are equal.     *)
(***************************************************************************)
SecureCompare(a, b, len) == \A i \in 1 .. len : a[i] = b[i]

(***************************************************************************)
(* validate_permission goes by the first entry of the group.               *)
(***************************************************************************)
ValidatePermission(table, group, perm) ==
    \E i \in 1 .. MAX_PERMS :
        /\ table[i].group_id = group
        /\ \A j \in 1 .. (i - 1) : table[j].group_id # group
        /\ table[i][perm]

(***************************************************************************)
(* listen goes by any entry of the requester's table (commands.c).         *)
(***************************************************************************)
RequesterMayReceive(table, group) ==
    \E i \in 1 .. MAX_PERMS :
        table[i].group_id = group /\ table[i].receive

(***************************************************************************)
(* No group has two entries in the list an HSM is built with.              *)
(***************************************************************************)
GroupsUnique(permissions) ==
    \A i, j \in 1 .. Len(permissions) :
        permissions[i].group_id = permissions[j].group_id => i = j
=============================================================================
