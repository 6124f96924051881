----------------------------- MODULE MCCommands -----------------------------
(***************************************************************************)
(* Two HSMs with different permissions, and a file of each of two groups.  *)
(* hsmA may not receive files of the group it writes, and may not write    *)
(* those it receives.  The tables have room for a third group, left zero.  *)
(***************************************************************************)
EXTENDS Commands, TLC

CONSTANTS hsmA, hsmB, plans, notes

MCGroupOf == (plans :> 1) @@ (notes :> 2)
MCGroupOfPlans == (plans :> 1)

P(group, read, write, receive) ==
    [group_id |-> group, read |-> read, write |-> write, receive |-> receive]

MCPermissions ==
    (hsmA :> <<P(1, TRUE, TRUE, FALSE), P(2, TRUE, FALSE, TRUE)>>)
      @@ (hsmB :> <<P(1, FALSE, TRUE, TRUE), P(2, TRUE, TRUE, FALSE)>>)

MCPins == {<<0, 0>>, <<0, 1>>}
MCPin == (hsmA :> <<0, 0>>) @@ (hsmB :> <<0, 1>>)

(* reply is written and never read, neither by an action nor by a property *)
(* of the uncoordinated run: states that differ in it only are the same to *)
(* that run.                                                               *)
AllButReply == <<store, dirty, pc, command, out, got, wire, astray, resets>>

(* Once astray, the two HSMs have no influence on each other.  So that run *)
(* lets one of them be busy while the other is idle, and hsmA go first if  *)
(* both were busy when they went astray; busy ones can always go on.       *)
Busy(h) == pc[h] \notin {"main", "undefined"}
Moves(h) == <<store[h], pc[h], command[h], out[h], got[h]>>'
               # <<store[h], pc[h], command[h], out[h], got[h]>>
OneAtATime ==
    \A h \in Hsms :
        astray /\ Moves(h) => ~Busy(Other(h)) \/ (h = hsmA /\ Busy(h))

(* A bound on the commands of that run: hsmA stores in slot 0 only.        *)
SomeCommands == Doing(hsmA, "WRITE") \/ Doing(hsmA, "RECEIVE") => Target(hsmA) = 0
=============================================================================
