----------------------------- MODULE Permissions -----------------------------
(***************************************************************************)
(* firmware/secrets_to_c_header.py: how the list of permissions of an HSM  *)
(* becomes the table of Security.  The list is written as text (serialize),*)
(* the build parses the text, entry by entry (deserialize), and writes the *)
(* initializer of global_permissions, which the compiler fits into the     *)
(* MAX_PERMS entries of 16-bit group ids.                                  *)
(*                                                                         *)
(* The text of an entry is a record here: the number before the "=", and   *)
(* the three letters after it.                                             *)
(***************************************************************************)
EXTENDS Security

CONSTANTS
    UINT16_RANGE,  \* values of a uint16_t, 2^16
    Numbers,       \* the numbers a group may have in the text
    MaxEntries     \* bound on the entries of a list

Listable == [group_id : Numbers, read : BOOLEAN, write : BOOLEAN,
             receive : BOOLEAN]

ASSUME PermissionsAssumption ==
    /\ UINT16_RANGE \in Nat \ {0}
    /\ GroupIds = 0 .. (UINT16_RANGE - 1)
    /\ Numbers \subseteq Nat
    /\ MaxEntries \in Nat

VARIABLES
    list,         \* the permissions the HSM is to have
    text,         \* the argument of the build, split at the colons
    permissions,  \* what the build has parsed
    initializer,  \* what it has written
    pc

vars == <<list, text, permissions, initializer, pc>>

-----------------------------------------------------------------------------
Letter(perm, shorthand) == IF perm THEN shorthand ELSE "-"

Serialize(p) ==
    [number |-> p.group_id,
     letters |-> <<Letter(p.read, "R"), Letter(p.write, "W"), Letter(p.receive, "C")>>]

(* A list without entries is the empty text, which split(":") makes one    *)
(* empty string of.                                                        *)
EmptyText == [number |-> 0, letters |-> <<>>]

SerializeList(l) ==
    IF l = <<>> THEN <<EmptyText>> ELSE [n \in 1 .. Len(l) |-> Serialize(l[n])]

\* A bug: the letters taken in another order, and any letter for a permission.
DeserializeAnyLetter(t) ==
    [group_id |-> t.number, read |-> t.letters[1] # "-",
     write |-> t.letters[3] # "-", receive |-> t.letters[2] # "-"]

Deserialize(t) ==
    [group_id |-> t.number, read |-> t.letters[1] = "R",
     write |-> t.letters[2] = "W", receive |-> t.letters[3] = "C"]

Init ==
    /\ list \in UNION {[1 .. n -> Listable] : n \in 0 .. MaxEntries}
    /\ text = SerializeList(list)
    /\ permissions = <<>>
    /\ initializer = <<>>
    /\ pc = "parse"

ParseEntry ==
    /\ pc = "parse"
    /\ Len(permissions) < Len(text)
    /\ LET t == text[Len(permissions) + 1] IN
        /\ t # EmptyText
        /\ permissions' = Append(permissions, Deserialize(t))
    /\ UNCHANGED <<list, text, initializer, pc>>

(* split('=') of the empty string cannot be unpacked: the build fails.     *)
ParseFails ==
    /\ pc = "parse"
    /\ Len(permissions) < Len(text)
    /\ text[Len(permissions) + 1] = EmptyText
    /\ pc' = "failed"
    /\ UNCHANGED <<list, text, permissions, initializer>>

ParseDone ==
    /\ pc = "parse"
    /\ Len(permissions) = Len(text)
    /\ pc' = "write"
    /\ UNCHANGED <<list, text, permissions, initializer>>

(* An entry of the initializer, whose group id the compiler cuts to 16     *)
(* bits.                                                                   *)
WriteEntry ==
    /\ pc = "write"
    /\ Len(initializer) < Len(permissions)
    /\ LET p == permissions[Len(initializer) + 1] IN
          initializer' = Append(initializer,
                                [p EXCEPT !.group_id = @ % UINT16_RANGE])
    /\ UNCHANGED <<list, text, permissions, pc>>

WriteDone ==
    /\ pc = "write"
    /\ Len(initializer) = Len(permissions)
    /\ pc' = "built"
    /\ UNCHANGED <<list, text, permissions, initializer>>

Next ==
    \/ ParseEntry
    \/ ParseFails
    \/ ParseDone
    \/ WriteEntry
    \/ WriteDone

Spec == Init /\ [][Next]_vars

-----------------------------------------------------------------------------
(***************************************************************************)
(* Properties                                                              *)
(***************************************************************************)
Perms == {"read", "write", "receive"}

Listed(group, perm) == \E n \in 1 .. Len(list) : list[n].group_id = group /\ list[n][perm]

(* "The group ID shall be a 16-bit hexadecimal number".                    *)
Wide == \E n \in 1 .. Len(list) : list[n].group_id >= UINT16_RANGE

Allows(group, perm) == ValidatePermission(Table(initializer), group, perm)

(* The HSM that is built has the permissions of its list: if no group is   *)
(* twice in it and it is not too long, exactly those, for itself and for   *)
(* the HSM it asks for a file; and only an empty list is not built at all. *)
BuiltAsListed ==
    /\ pc = "failed" => list = <<>>
    /\ pc = "built" /\ ~Wide /\ GroupsUnique(list) /\ Len(list) <= MAX_PERMS =>
          \A group \in GroupIds :
              /\ \A perm \in Perms : Allows(group, perm) <=> Listed(group, perm)
              /\ RequesterMayReceive(Table(initializer), group)
                    <=> Listed(group, "receive")

(* Lists the build should have refused, with a group twice or with more    *)
(* entries than the table has, can only take permissions away: the HSM     *)
(* never has one that its list does not give.                              *)
NothingGained ==
    pc = "built" /\ ~Wide =>
        \A group \in GroupIds, perm \in Perms :
            Allows(group, perm) => Listed(group, perm)
=============================================================================
