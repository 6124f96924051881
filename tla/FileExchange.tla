---------------------------- MODULE FileExchange ----------------------------
(***************************************************************************)
(* What two HSMs promise together: a file comes to an HSM only by a write  *)
(* of its user, if the HSM may write files of the group, or because the    *)
(* other HSM offered it, which it does with a file it holds and the HSM    *)
(* may receive.  A file that was offered is stored at most once for each   *)
(* offer, exactly as it was.  A write that fails may leave its slot        *)
(* damaged, a reset may drop files, and nothing else changes what is       *)
(* stored.  If the two lose step, nothing is promised any more of a file   *)
(* that is received, and all the rest is.                                  *)
(***************************************************************************)
EXTENDS Naturals

CONSTANTS Hsms, Slots, Files, Empty, Damaged,
          MayWrite(_, _), MayReceive(_, _), Other(_)

VARIABLES
    store,   \* per HSM, what its slots hold
    offers,  \* per HSM and file, how many offers of it are on their way to it
    inStep   \* the two read what the other sends

vars == <<store, offers, inStep>>

Init ==
    /\ store = [h \in Hsms |-> [s \in Slots |-> Empty]]
    /\ offers = [h \in Hsms |-> [f \in Files |-> 0]]
    /\ inStep = TRUE

Keep(h, s, f) == store' = [store EXCEPT ![h] = [@ EXCEPT ![s] = f]]

Write(h, s, f) ==
    /\ MayWrite(h, f)
    /\ Keep(h, s, f)
    /\ UNCHANGED <<offers, inStep>>

Offer(h, s) ==
    LET f == store[Other(h)][s] IN
    /\ inStep
    /\ f \in Files /\ MayReceive(h, f)
    /\ offers' = [offers EXCEPT ![h][f] = @ + 1]
    /\ UNCHANGED <<store, inStep>>

(* Offers are lost, or refused, and the HSMs may lose step.                *)
Fewer ==
    /\ inStep' \in {inStep, FALSE}
    /\ offers' \in [Hsms -> [Files -> Nat]]
    /\ \A h \in Hsms, f \in Files : offers'[h][f] <= offers[h][f]

Withdraw == Fewer /\ UNCHANGED store

Receive(h, s, f) ==
    /\ Keep(h, s, f)
    /\ \/ ~inStep /\ UNCHANGED offers
       \/ offers[h][f] > 0 /\ offers' = [offers EXCEPT ![h][f] = @ - 1]
    /\ UNCHANGED inStep

Fail(h, s) ==
    /\ Keep(h, s, Damaged)
    /\ UNCHANGED <<offers, inStep>>

Reset(h) ==
    /\ \E dropped \in SUBSET Slots :
          store' = [store EXCEPT ![h] =
                       [s \in Slots |-> IF s \in dropped THEN Empty ELSE @[s]]]
    /\ Fewer

Next ==
    \/ Withdraw
    \/ \E h \in Hsms :
        \/ \E s \in Slots : Offer(h, s) \/ Fail(h, s)
        \/ \E s \in Slots, f \in Files : Write(h, s, f) \/ Receive(h, s, f)
        \/ Reset(h)

Spec == Init /\ [][Next]_vars
=============================================================================
