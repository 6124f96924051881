---------------------------- MODULE MCPacketLink ----------------------------
(***************************************************************************)
(* Conversations for PacketLink, with blocks of two bytes: packets without *)
(* contents, shorter than a block, of exactly one and exactly two blocks,  *)
(* and one byte over.                                                      *)
(***************************************************************************)
EXTENDS PacketLink

P(from, type, len, limit) ==
    [from |-> from, hex |-> FALSE, type |-> type, len |-> len, limit |-> limit]
Hex(from, type, len) ==
    [from |-> from, hex |-> TRUE, type |-> type, len |-> len, limit |-> 0]

(* What the peer sends is read with no limit, as main reads a command, and *)
(* what the HSM sends with one that it just meets or stays below.          *)
Plain == {P("peer", "MSG", n, 0) : n \in 0 .. 5} \cup {P("hsm", "MSG", n, 5) : n \in 0 .. 5}
Debug == {P("hsm", "DEBUG", n, 0) : n \in {0, 1, 3, 4}}
           \cup {Hex("hsm", "DEBUG", n) : n \in {0, 2, 4}}

(* Every conversation of two packets, and of a request, a debug message    *)
(* and a response, as a list command has it.                               *)
Conversations ==
    {<<p, q>> : p \in Plain \cup Debug, q \in Plain \cup Debug}
      \cup {<<P("peer", "MSG", m, 0), d, P("hsm", "MSG", n, 0)>> :
               m \in {0, 2, 3}, d \in Debug, n \in {0, 2, 5}}

(* Every conversation of three packets in which the reader's buffer may be *)
(* too small, and then any end writes the next packet, as the HSM does     *)
(* with print_error after a command it refused.                            *)
Triples(S) == {<<p, q, r>> : p \in S, q \in S, r \in S}

Short ==
    {P(e, "MSG", n, l) : e \in Ends, n \in {0, 3}, l \in {0, 2}}
      \cup {P("hsm", "DEBUG", n, 0) : n \in {0, 3}}

RefusingConversations == Triples(Short)

(* The same with acknowledged packets of write_hex, and every packet of    *)
(* more than a block.                                                      *)
FaultyConversations ==
    LET a == P("hsm", "MSG", 3, 0)
        b == P("peer", "MSG", 3, 0)
        tooLong == P("peer", "MSG", 3, 2)
        debug == P("hsm", "DEBUG", 3, 0)
        hex == Hex("hsm", "MSG", 4)
    IN  {<<p, q, r>> : p \in {a, b, tooLong, hex}, q \in {a, b, tooLong, debug, hex},
                       r \in {a, b, debug}}

(* What is not looked at for InOrder: nothing more is logged when both     *)
(* ends are astray; and what else is on the wire to one that is makes no   *)
(* difference, as Stray may take it away.                                  *)
StillLogs ==
    /\ astray # Ends
    /\ \A e \in astray : Len(chan[e]) <= 1
=============================================================================
