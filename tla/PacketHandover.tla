--------------------------- MODULE PacketHandover ---------------------------
(***************************************************************************)
(* What write_packet on one end of a UART and read_packet on the other     *)
(* promise together: the packets of a conversation are handed over whole,  *)
(* once, and in order, and write_packet returns MSG_OK for a packet only   *)
(* after it was handed over (DEBUG packets are not acknowledged).          *)
(***************************************************************************)
EXTENDS Naturals, Sequences

VARIABLES
    script,     \* the packets of the conversation, in order
    handed,     \* the packets read_packet returned
    confirmed   \* the numbers of those for which write_packet returned MSG_OK

vars == <<script, handed, confirmed>>

(***************************************************************************)
(* Byte number i of the contents of packet number n.                       *)
(***************************************************************************)
DataByte(n, i) == [kind |-> "byte", packet |-> n, at |-> i]

WholePacket(n) ==
    [cmd |-> script[n].type,
     bytes |-> [i \in 1 .. script[n].len |-> DataByte(n, i - 1)]]

Init ==
    /\ handed = <<>>
    /\ confirmed = {}

HandOver ==
    /\ Len(handed) < Len(script)
    /\ handed' = Append(handed, WholePacket(Len(handed) + 1))
    /\ UNCHANGED <<script, confirmed>>

Confirm(n) ==
    /\ n \notin confirmed
    /\ script[n].type # "DEBUG" => n <= Len(handed)
    /\ confirmed' = confirmed \cup {n}
    /\ UNCHANGED <<script, handed>>

Next == HandOver \/ \E n \in 1 .. Len(script) : Confirm(n)

Spec == Init /\ [][Next]_vars
=============================================================================
