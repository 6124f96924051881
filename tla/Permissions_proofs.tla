------------------------- MODULE Permissions_proofs -------------------------
(***************************************************************************)
(* The HSM that is built has the permissions of its list, for lists of any *)
(* length, group ids of any width, and tables of any size.                 *)
(***************************************************************************)
EXTENDS Permissions, TLAPS

(* What the build has parsed and written is what the list has, so far.     *)
Cut(p) == [p EXCEPT !.group_id = @ % UINT16_RANGE]

IInv ==
    /\ list \in Seq(Listable)
    /\ text = SerializeList(list)
    /\ pc \in {"parse", "failed", "write", "built"}
    /\ permissions \in Seq(Listable)
    /\ Len(permissions) <= Len(list)
    /\ \A n \in 1 .. Len(permissions) : permissions[n] = list[n]
    /\ initializer \in Seq([group_id : Nat, read : BOOLEAN, write : BOOLEAN,
                             receive : BOOLEAN])
    /\ Len(initializer) <= Len(permissions)
    /\ \A n \in 1 .. Len(initializer) : initializer[n] = Cut(list[n])
    /\ pc = "failed" => list = <<>>
    /\ pc \in {"write", "built"} => Len(permissions) = Len(list)
    /\ pc = "built" => Len(initializer) = Len(list)

-----------------------------------------------------------------------------
(***************************************************************************)
(* The text                                                                *)
(***************************************************************************)

(* Parsing an entry's text gives the entry back.                           *)
LEMMA TextRestored ==
    ASSUME NEW p \in Listable
    PROVE  Serialize(p) # EmptyText /\ Deserialize(Serialize(p)) = p
<1> DEFINE t == Serialize(p)
<1>1. /\ t.number = p.group_id
      /\ t.letters[1] = Letter(p.read, "R")
      /\ t.letters[2] = Letter(p.write, "W")
      /\ t.letters[3] = Letter(p.receive, "C")
      /\ Len(t.letters) = 3
    BY DEF Serialize
<1>2. t # EmptyText
    <2>1. Len(EmptyText.letters) = 0
        BY DEF EmptyText
    <2> QED
        BY <1>1, <2>1
<1>3. /\ p.read \in BOOLEAN /\ p.write \in BOOLEAN /\ p.receive \in BOOLEAN
      /\ p = [group_id |-> p.group_id, read |-> p.read, write |-> p.write,
              receive |-> p.receive]
    BY DEF Listable
<1> HIDE DEF t
<1>4. /\ (t.letters[1] = "R") = p.read
      /\ (t.letters[2] = "W") = p.write
      /\ (t.letters[3] = "C") = p.receive
    BY <1>1, <1>3 DEF Letter
<1>5. Deserialize(t) = p
    BY <1>1, <1>3, <1>4 DEF Deserialize
<1> QED
    BY <1>2, <1>5 DEF t

LEMMA TextOfList ==
    ASSUME NEW l \in Seq(Listable), l # <<>>
    PROVE  /\ Len(SerializeList(l)) = Len(l)
           /\ \A n \in 1 .. Len(l) : SerializeList(l)[n] = Serialize(l[n])
BY DEF SerializeList

(* The compiler cuts nothing off a 16-bit group id.                        *)
LEMMA NarrowKept ==
    ASSUME NEW p \in Listable, p.group_id < UINT16_RANGE
    PROVE  Cut(p) = p
<1>1. p.group_id \in Nat /\ UINT16_RANGE \in Nat \ {0}
    BY PermissionsAssumption DEF PermissionsAssumption, Listable
<1>2. p.group_id % UINT16_RANGE = p.group_id
    BY <1>1
<1> QED
    BY <1>2 DEF Cut, Listable

LEMMA CutType ==
    ASSUME NEW p \in Listable
    PROVE  Cut(p) \in [group_id : Nat, read : BOOLEAN, write : BOOLEAN, receive : BOOLEAN]
<1>1. p.group_id \in Nat /\ UINT16_RANGE \in Nat \ {0}
    BY PermissionsAssumption DEF PermissionsAssumption, Listable
<1>2. p.group_id % UINT16_RANGE \in Nat
    BY <1>1
<1> QED
    BY <1>2 DEF Cut, Listable

-----------------------------------------------------------------------------
LEMMA InitialInv == Init => IInv
<1> SUFFICES ASSUME Init PROVE IInv
    OBVIOUS
<1>1. list \in Seq(Listable)
    <2>1. PICK n \in 0 .. MaxEntries : list \in [1 .. n -> Listable]
        BY DEF Init
    <2>2. n \in Nat
        BY PermissionsAssumption DEF PermissionsAssumption
    <2> QED
        BY <2>1, <2>2
<1> QED
    BY <1>1 DEF Init, IInv

LEMMA ParseEntryKeeps == IInv /\ ParseEntry => IInv'
<1> SUFFICES ASSUME IInv, ParseEntry PROVE IInv'
    OBVIOUS
<1> DEFINE n == Len(permissions) + 1
<1>1. /\ list \in Seq(Listable) /\ permissions \in Seq(Listable)
      /\ text = SerializeList(list) /\ n - 1 < Len(text) /\ text[n] # EmptyText
      /\ permissions' = Append(permissions, Deserialize(text[n]))
      /\ n \in Nat \ {0} /\ pc = "parse" /\ UNCHANGED <<list, text, initializer, pc>>
    BY DEF IInv, ParseEntry
<1>2. list # <<>>
    <2>1. ASSUME list = <<>> PROVE FALSE
        <3>1. text = <<EmptyText>> /\ Len(text) = 1
            BY <1>1, <2>1 DEF SerializeList
        <3>2. n = 1
            BY <1>1, <3>1
        <3> QED
            BY <1>1, <3>1, <3>2
    <2> QED
        BY <2>1
<1>3. n <= Len(list) /\ text[n] = Serialize(list[n]) /\ list[n] \in Listable
    BY <1>1, <1>2, TextOfList
<1>4. permissions' = Append(permissions, list[n])
    BY <1>1, <1>3, TextRestored
<1> HIDE DEF n
<1>5. /\ permissions' \in Seq(Listable) /\ Len(permissions') = n
      /\ \A i \in 1 .. n : permissions'[i] = list[i]
    BY <1>1, <1>3, <1>4 DEF IInv, n
<1>6. Len(initializer) <= n
    BY <1>1 DEF IInv, n
<1> QED
    BY <1>1, <1>3, <1>5, <1>6 DEF IInv

LEMMA ParseEndKeeps == IInv /\ (ParseFails \/ ParseDone) => IInv'
<1> SUFFICES ASSUME IInv, ParseFails \/ ParseDone PROVE IInv'
    OBVIOUS
<1>0. list \in Seq(Listable) /\ text = SerializeList(list)
    BY DEF IInv
<1>1. CASE ParseFails
    <2>1. list = <<>>
        <3>1. SUFFICES ASSUME list # <<>> PROVE FALSE
            OBVIOUS
        <3> DEFINE n == Len(permissions) + 1
        <3>2. n \in 1 .. Len(list) /\ text[n] = EmptyText
            BY <1>0, <1>1, <3>1, TextOfList DEF IInv, ParseFails
        <3>3. text[n] = Serialize(list[n]) /\ list[n] \in Listable
            BY <1>0, <3>1, <3>2, TextOfList
        <3> QED
            BY <3>2, <3>3, TextRestored
    <2> QED
        BY <1>1, <2>1 DEF IInv, ParseFails
<1>2. CASE ParseDone
    <2>1. Len(permissions) = Len(list)
        <3>1. list # <<>>
            <4>1. ASSUME list = <<>> PROVE FALSE
                <5>1. text = <<EmptyText>> /\ Len(list) = 0
                    BY <1>0, <4>1 DEF SerializeList
                <5>2. Len(text) = 1
                    BY <5>1
                <5> QED
                    BY <1>2, <5>1, <5>2 DEF IInv, ParseDone
            <4> QED
                BY <4>1
        <3> QED
            BY <1>0, <1>2, <3>1, TextOfList DEF ParseDone
    <2> QED
        BY <1>2, <2>1 DEF IInv, ParseDone
<1> QED
    BY <1>1, <1>2

LEMMA WriteKeeps == IInv /\ (WriteEntry \/ WriteDone) => IInv'
<1> SUFFICES ASSUME IInv, WriteEntry \/ WriteDone PROVE IInv'
    OBVIOUS
<1>1. CASE WriteEntry
    <2> DEFINE n == Len(initializer) + 1
               Entry == [group_id : Nat, read : BOOLEAN, write : BOOLEAN, receive : BOOLEAN]
    <2>1. /\ initializer \in Seq(Entry) /\ n \in 1 .. Len(permissions)
          /\ permissions[n] = list[n] /\ permissions[n] \in Listable
        BY <1>1 DEF IInv, WriteEntry
    <2>2. initializer' = Append(initializer, Cut(list[n])) /\ Cut(list[n]) \in Entry
        BY <1>1, <2>1, CutType DEF WriteEntry, Cut
    <2> HIDE DEF n, Entry
    <2>3. /\ initializer' \in Seq(Entry) /\ Len(initializer') = n
          /\ \A i \in 1 .. n : initializer'[i] = Cut(list[i])
        BY <2>1, <2>2 DEF IInv, n
    <2>4. UNCHANGED <<list, text, permissions, pc>> /\ pc = "write"
        BY <1>1 DEF WriteEntry
    <2> QED
        BY <2>1, <2>3, <2>4 DEF IInv, Cut, Entry
<1>2. CASE WriteDone
    BY <1>2 DEF IInv, WriteDone, Cut
<1> QED
    BY <1>1, <1>2

(* The invariant holds in every reachable state.                           *)
THEOREM Inductive == Spec => []IInv
<1>1. IInv /\ [Next]_vars => IInv'
    <2>1. IInv /\ UNCHANGED vars => IInv'
        BY DEF vars, IInv, Cut
    <2> QED
        BY <2>1, ParseEntryKeeps, ParseEndKeeps, WriteKeeps DEF Next
<1> QED
    BY <1>1, InitialInv, PTL DEF Spec

-----------------------------------------------------------------------------
(***************************************************************************)
(* The table                                                               *)
(***************************************************************************)

(* The table has the entries of the list, as many as fit, and zeros.       *)
LEMMA TableOfList ==
    ASSUME IInv, pc = "built", ~Wide
    PROVE  /\ \A i \in 1 .. MAX_PERMS :
                 Table(initializer)[i] = IF i <= Len(list) THEN list[i] ELSE ZeroEntry
           /\ Len(list) \in Nat /\ MAX_PERMS \in Nat
<1>1. ASSUME NEW i \in 1 .. Len(list)
      PROVE  initializer[i] = list[i]
    <2>0. list[i] \in Listable
        BY DEF IInv
    <2>1. initializer[i] = Cut(list[i]) /\ list[i].group_id \in Nat
        BY <2>0, PermissionsAssumption DEF IInv, Listable, PermissionsAssumption
    <2>2. list[i].group_id < UINT16_RANGE
        BY <2>1, PermissionsAssumption DEF Wide, PermissionsAssumption
    <2> QED
        BY <2>0, <2>1, <2>2, NarrowKept
<1> QED
    BY <1>1, SecurityAssumption DEF IInv, Table, SecurityAssumption

LEMMA ZeroHasNone == \A perm \in Perms : ~ZeroEntry[perm]
BY DEF Perms, ZeroEntry

(* The HSM never has a permission its list does not give.                  *)
LEMMA AllowedListed ==
    ASSUME IInv, pc = "built", ~Wide, NEW group, NEW perm \in Perms, Allows(group, perm)
    PROVE  Listed(group, perm)
<1> DEFINE t == Table(initializer)
<1>1. PICK i \in 1 .. MAX_PERMS : t[i].group_id = group /\ t[i][perm]
    BY Zenon DEF Allows, ValidatePermission
<1> HIDE DEF t
<1>2. i <= Len(list)
    BY <1>1, TableOfList, ZeroHasNone DEF t
<1>3. t[i] = list[i] /\ i \in 1 .. Len(list)
    BY <1>2, TableOfList DEF t
<1> QED
    BY <1>1, <1>3, Zenon DEF Listed

(* It has every permission the list gives, if no group is twice in it.     *)
LEMMA ListedAllowed ==
    ASSUME IInv, pc = "built", ~Wide, GroupsUnique(list), Len(list) <= MAX_PERMS,
           NEW group, NEW perm \in Perms, Listed(group, perm)
    PROVE  Allows(group, perm)
<1> DEFINE t == Table(initializer)
<1>1. PICK n \in 1 .. Len(list) : list[n].group_id = group /\ list[n][perm]
    BY Zenon DEF Listed
<1> HIDE DEF t
<1>2. n \in 1 .. MAX_PERMS /\ t[n] = list[n]
    BY <1>1, TableOfList DEF t
<1>3. ASSUME NEW j \in 1 .. (n - 1)
      PROVE  t[j].group_id # group
    <2>1. j \in 1 .. Len(list) /\ j \in 1 .. MAX_PERMS /\ j # n
        BY <1>1, TableOfList
    <2>2. t[j] = list[j]
        BY <2>1, TableOfList DEF t
    <2> QED
        BY <1>1, <2>1, <2>2 DEF GroupsUnique
<1> QED
    BY <1>1, <1>2, <1>3, Zenon DEF t, Allows, ValidatePermission

(* The other HSM, too, sees the permission to receive that the list gives. *)
LEMMA ReceiveAsListed ==
    ASSUME IInv, pc = "built", ~Wide, Len(list) <= MAX_PERMS, NEW group
    PROVE  RequesterMayReceive(Table(initializer), group) <=> Listed(group, "receive")
<1> DEFINE t == Table(initializer)
<1> HIDE DEF t
<1>1. ASSUME RequesterMayReceive(t, group)
      PROVE  Listed(group, "receive")
    <2>1. PICK i \in 1 .. MAX_PERMS : t[i].group_id = group /\ t[i].receive
        BY <1>1, Zenon DEF RequesterMayReceive
    <2>2. i <= Len(list)
        BY <2>1, TableOfList DEF t, ZeroEntry
    <2>3. t[i] = list[i] /\ i \in 1 .. Len(list)
        BY <2>2, TableOfList DEF t
    <2> QED
        BY <2>1, <2>3, Zenon DEF Listed
<1>2. ASSUME Listed(group, "receive")
      PROVE  RequesterMayReceive(t, group)
    <2>1. PICK n \in 1 .. Len(list) : list[n].group_id = group /\ list[n].receive
        BY <1>2, Zenon DEF Listed
    <2>2. n \in 1 .. MAX_PERMS /\ t[n] = list[n]
        BY <2>1, TableOfList DEF t
    <2> QED
        BY <2>1, <2>2, Zenon DEF RequesterMayReceive
<1> QED
    BY <1>1, <1>2 DEF t

-----------------------------------------------------------------------------
(* The HSM that is built has exactly the permissions of its list, for      *)
(* itself and for the HSM it asks, if the list is one the build is meant   *)
(* for; and only an empty list is not built.                               *)
THEOREM BuiltRight == Spec => []BuiltAsListed
<1>1. IInv => BuiltAsListed
    <2> SUFFICES ASSUME IInv PROVE BuiltAsListed
        OBVIOUS
    <2>1. pc = "failed" => list = <<>>
        BY DEF IInv
    <2>2. ASSUME pc = "built", ~Wide, GroupsUnique(list), Len(list) <= MAX_PERMS,
                 NEW group \in GroupIds
          PROVE  /\ \A perm \in Perms : Allows(group, perm) <=> Listed(group, perm)
                 /\ RequesterMayReceive(Table(initializer), group)
                       <=> Listed(group, "receive")
        BY <2>2, AllowedListed, ListedAllowed, ReceiveAsListed
    <2> QED
        BY <2>1, <2>2 DEF BuiltAsListed
<1> QED
    BY <1>1, Inductive, PTL

(* A list that should have been refused, because a group is twice in it or *)
(* it is longer than the table, never gives a permission it does not have. *)
THEOREM NeverGained == Spec => []NothingGained
<1>1. IInv => NothingGained
    BY AllowedListed DEF NothingGained
<1> QED
    BY <1>1, Inductive, PTL
-----------------------------------------------------------------------------
(***************************************************************************)
(* The two ways the firmware looks up a permission agree.                  *)
(***************************************************************************)

(* commands.c searches the requester's table for any entry that lets it    *)
(* receive files of the group; validate_permission of security.c goes by   *)
(* the first entry of the group.  For a table built from a list in which   *)
(* no group has two entries both give the same answer: a listener grants   *)
(* what the requester's own validate_permission would grant.               *)
THEOREM ReceiveChecksAgree ==
    ASSUME NEW entries \in Seq(Entries), GroupsUnique(entries),
           NEW group \in GroupIds
    PROVE  ValidatePermission(Table(entries), group, "receive")
             <=> RequesterMayReceive(Table(entries), group)
<1> DEFINE t == Table(entries)
<1>1. \A i \in 1 .. MAX_PERMS :
         t[i] = IF i <= Len(entries) THEN entries[i] ELSE ZeroEntry
  BY DEF Table
<1>2. ASSUME ValidatePermission(t, group, "receive")
      PROVE  RequesterMayReceive(t, group)
  BY <1>2, Zenon DEF ValidatePermission, RequesterMayReceive
<1>3. ASSUME RequesterMayReceive(t, group)
      PROVE  ValidatePermission(t, group, "receive")
  <2>1. PICK i \in 1 .. MAX_PERMS : t[i].group_id = group /\ t[i].receive
    BY <1>3, Zenon DEF RequesterMayReceive
  <2>2. i <= Len(entries)
    <3>1. SUFFICES ASSUME ~(i <= Len(entries)) PROVE FALSE
      OBVIOUS
    <3>2. t[i] = ZeroEntry
      BY <1>1, <3>1
    <3>3. ZeroEntry.receive = FALSE
      BY DEF ZeroEntry
    <3>. QED BY <2>1, <3>2, <3>3
  <2>3. t[i].group_id = entries[i].group_id
    BY <1>1, <2>2
  <2>4. ASSUME NEW j \in 1 .. (i - 1)
        PROVE  t[j].group_id # group
    <3>1. j \in 1 .. MAX_PERMS /\ j <= Len(entries) /\ j # i
      BY <2>2, SecurityAssumption DEF SecurityAssumption
    <3>2. t[j].group_id = entries[j].group_id
      BY <1>1, <3>1
    <3>3. i \in 1 .. Len(entries) /\ j \in 1 .. Len(entries)
      BY <2>2, <3>1, SecurityAssumption DEF SecurityAssumption
    <3>. QED BY <2>1, <2>3, <3>1, <3>2, <3>3 DEF GroupsUnique
  <2>. QED
    BY <2>1, <2>4, Zenon DEF ValidatePermission
<1>. QED BY <1>2, <1>3
=============================================================================
