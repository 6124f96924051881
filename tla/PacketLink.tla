----------------------------- MODULE PacketLink -----------------------------
(***************************************************************************)
(* firmware/src/host_messaging.c: packets over a UART.                     *)
(*                                                                         *)
(* Two ends hold a conversation: for each packet of the script one end     *)
(* calls write_packet and the other read_packet, each at its own pace.     *)
(* Both run the code of this file (on TRANSFER_INTERFACE both ends are     *)
(* HSMs; on CONTROL_INTERFACE one is the host's tool, which answers an HSM *)
(* the same way except that it does not acknowledge DEBUG packets).        *)
(*                                                                         *)
(* A header is one unit on the wire, as nobody waits within it; the        *)
(* contents go byte by byte, with an acknowledgement after every           *)
(* BLOCK_SIZE bytes and after the last.  There are no timeouts.            *)
(*                                                                         *)
(* An end that takes bytes of contents for a header, or of a header for    *)
(* contents, has lost its place in the stream and goes on: it is astray,   *)
(* and what it reads from then on may be anything (Stray).                 *)
(***************************************************************************)
EXTENDS Naturals, Sequences, FiniteSets

CONSTANTS
    BLOCK_SIZE,   \* 256
    Scripts,      \* the conversations
    StrayLens,    \* bound on the lengths in headers that an end astray reads
    MaxResets     \* bound on the resets of an end, 0 for a link without

Ends == {"hsm", "peer"}
Other(e) == IF e = "hsm" THEN "peer" ELSE "hsm"

(***************************************************************************)
(* A packet of a script: who writes it, with write_hex or write_packet,    *)
(* msg_type_t, length on the wire, and the *len read_packet is called with *)
(* (0: no limit).                                                          *)
(***************************************************************************)
Packets == [from : Ends, hex : BOOLEAN, type : {"MSG", "DEBUG"}, len : Nat,
            limit : Nat]

ASSUME LinkAssumption ==
    /\ BLOCK_SIZE \in Nat \ {0}
    /\ MaxResets \in Nat
    /\ StrayLens \subseteq Nat
    /\ \A sc \in Scripts : sc \in Seq(Packets)
    /\ \A sc \in Scripts : \A n \in 1 .. Len(sc) :
          /\ sc[n].type = "DEBUG" => sc[n].from = "hsm"
          /\ sc[n].hex => sc[n].len % 2 = 0
    /\ BLOCK_SIZE % 2 = 0

VARIABLES
    script,    \* the conversation
    turn,      \* per end, the number of the packet it is at
    st,        \* per end, where in write_packet or read_packet it is
    pos,       \* per end, i of write_bytes or read_bytes
    buf,       \* per end, what read_bytes stored so far
    hdr,       \* per end, the header read_packet got
    chan,      \* per end, the units on the wire to it
    astray,    \* the ends that lost their place in the stream
    \* What happened:
    log,       \* the packets read_packet returned with MSG_OK, but to an end astray
    outcome,   \* per packet, what write_packet returned
    refused,   \* numbers of the packets read_packet returned MSG_BAD_LEN for
    resets

vars == <<script, turn, st, pos, buf, hdr, chan, astray, log, outcome, refused,
          resets>>

DataByte(n, i) == [kind |-> "byte", packet |-> n, at |-> i]
(* Of which packet a header is shows nowhere on the wire (0: of none).     *)
Header(n, cmd, len) == [kind |-> "header", packet |-> n, cmd |-> cmd, len |-> len]
Ack == Header(0, "ACK", 0)

Packet(e) == script[turn[e]]
Engaged(e) == turn[e] <= Len(script)
Writer(e) == Engaged(e) /\ Packet(e).from = e
Reader(e) == Engaged(e) /\ Packet(e).from # e

(* The host does not acknowledge debug messages.                           *)
Acknowledges(cmd) == cmd # "DEBUG"

AwaitingAck == {"headerAck", "blockAck", "hexAck", "finalAck"}
(* The states in which an end is inside uart_readbyte.                     *)
Reading(e) == st[e] \in AwaitingAck \cup {"data"} \/ (Reader(e) /\ st[e] = "idle")

Init ==
    /\ script \in Scripts
    /\ turn = [e \in Ends |-> 1]
    /\ st = [e \in Ends |-> "idle"]
    /\ pos = [e \in Ends |-> 0]
    /\ buf = [e \in Ends |-> <<>>]
    /\ hdr = [e \in Ends |-> Ack]
    /\ chan = [e \in Ends |-> <<>>]
    /\ astray = {}
    /\ log = <<>>
    /\ outcome = [n \in 1 .. Len(script) |-> "none"]
    /\ refused = {}
    /\ resets = 0

-----------------------------------------------------------------------------
(***************************************************************************)
(* Pieces of the actions: an end takes a unit from its wire, sends units   *)
(* to the other end, or does both.                                         *)
(***************************************************************************)
Has(e, kind) == chan[e] # <<>> /\ Head(chan[e]).kind = kind
Take(e) == chan' = [chan EXCEPT ![e] = Tail(@)]
Send(e, unit) == chan' = [chan EXCEPT ![Other(e)] = Append(@, unit)]
TakeAndSend(e, unit) ==
    chan' = [chan EXCEPT ![e] = Tail(@), ![Other(e)] = Append(@, unit)]

(* The end's call returns, and it turns to the next packet.                *)
Return(e) ==
    /\ st' = [st EXCEPT ![e] = "idle"]
    /\ turn' = [turn EXCEPT ![e] = @ + 1]
    /\ pos' = [pos EXCEPT ![e] = 0]
    /\ buf' = [buf EXCEPT ![e] = <<>>]
    /\ hdr' = [hdr EXCEPT ![e] = Ack]

Goto(e, state) ==
    /\ st' = [st EXCEPT ![e] = state]
    /\ UNCHANGED turn

WriteReturns(e, result) ==
    /\ Return(e)
    /\ outcome' = [outcome EXCEPT ![turn[e]] = result]
    /\ UNCHANGED <<script, astray, log, refused, resets>>

StillWriting(e, state) ==
    /\ Goto(e, state)
    /\ UNCHANGED <<script, buf, hdr, astray, log, outcome, refused, resets>>

ReadReturns(e, cmd, bytes) ==
    /\ Return(e)
    /\ log' = IF e \in astray THEN log
              ELSE Append(log, [cmd |-> cmd, bytes |-> bytes])
    /\ UNCHANGED <<script, astray, outcome, refused, resets>>

-----------------------------------------------------------------------------
(***************************************************************************)
(* write_packet                                                            *)
(***************************************************************************)
\* A bug: the contents follow the header at once.
WriteHeaderNoAck(e) ==
    /\ st[e] = "idle"
    /\ Writer(e)
    /\ Packet(e).len > 0
    /\ Send(e, Header(turn[e], Packet(e).type, Packet(e).len))
    /\ StillWriting(e, "bytes")
    /\ UNCHANGED pos

WriteHeader(e) ==
    /\ st[e] = "idle"
    /\ Writer(e)
    /\ LET p == Packet(e) IN
        /\ Send(e, Header(turn[e], p.type, p.len))
        /\ \/ /\ p.type # "DEBUG"
              /\ StillWriting(e, "headerAck")
              /\ UNCHANGED pos
           \/ /\ p.type = "DEBUG"
              /\ p.len > 0
              /\ StillWriting(e, "bytes")
              /\ UNCHANGED pos
           \/ /\ p.type = "DEBUG"
              /\ p.len = 0
              /\ WriteReturns(e, "MSG_OK")

\* A bug: the result of read_ack tested as write_bytes tests it.
HeaderAckedByAny(e) ==
    /\ st[e] = "headerAck"
    /\ Has(e, "header")
    /\ Take(e)
    /\ \/ /\ Packet(e).len > 0
          /\ StillWriting(e, "bytes")
          /\ UNCHANGED pos
       \/ /\ Packet(e).len = 0
          /\ WriteReturns(e, "MSG_OK")

(* read_ack got a header that acknowledges the packet's header, or not.    *)
HeaderAcked(e) ==
    /\ st[e] = "headerAck"
    /\ Has(e, "header")
    /\ Take(e)
    /\ \/ /\ Head(chan[e]).cmd = "ACK"
          /\ Packet(e).len > 0
          /\ StillWriting(e, "bytes")
          /\ UNCHANGED pos
       \/ /\ Head(chan[e]).cmd = "ACK"
          /\ Packet(e).len = 0
          /\ WriteReturns(e, "MSG_OK")
       \/ /\ Head(chan[e]).cmd # "ACK"
          /\ WriteReturns(e, "MSG_NO_ACK")

\* Bugs WriteByte could have: a block acknowledgement expected after the last
\* byte too; none expected after the last byte; an index off by one.
WriteByteAckTwice(e) ==
    /\ st[e] = "bytes" /\ ~Packet(e).hex
    /\ Send(e, DataByte(turn[e], pos[e]))
    /\ pos' = [pos EXCEPT ![e] = @ + 1]
    /\ StillWriting(e, IF pos'[e] % BLOCK_SIZE = 0 THEN "blockAck"
                       ELSE IF pos'[e] = Packet(e).len THEN "finalAck" ELSE "bytes")

WriteByteNoFinalAck(e) ==
    /\ st[e] = "bytes" /\ ~Packet(e).hex
    /\ Send(e, DataByte(turn[e], pos[e]))
    /\ IF pos[e] + 1 = Packet(e).len
       THEN WriteReturns(e, "MSG_OK")
       ELSE /\ pos' = [pos EXCEPT ![e] = @ + 1]
            /\ StillWriting(e, IF pos'[e] % BLOCK_SIZE = 0 THEN "blockAck" ELSE "bytes")

WriteByteShifted(e) ==
    /\ st[e] = "bytes" /\ ~Packet(e).hex
    /\ Send(e, DataByte(turn[e], pos[e] + 1))
    /\ pos' = [pos EXCEPT ![e] = @ + 1]
    /\ StillWriting(e, IF pos'[e] = Packet(e).len THEN "finalAck"
                       ELSE IF pos'[e] % BLOCK_SIZE = 0 THEN "blockAck" ELSE "bytes")

(* One turn of the loop of write_bytes, and what follows the last byte.    *)
WriteByte(e) ==
    /\ st[e] = "bytes" /\ ~Packet(e).hex
    /\ Send(e, DataByte(turn[e], pos[e]))
    /\ LET next == pos[e] + 1
           last == next = Packet(e).len
           debug == Packet(e).type = "DEBUG"
           blockEnd == next % BLOCK_SIZE = 0
       IN
        \/ /\ ~last /\ (blockEnd => debug)
           /\ StillWriting(e, "bytes")
           /\ pos' = [pos EXCEPT ![e] = next]
        \/ /\ ~last /\ blockEnd /\ ~debug
           /\ StillWriting(e, "blockAck")
           /\ pos' = [pos EXCEPT ![e] = next]
        \/ /\ last /\ ~debug
           /\ StillWriting(e, "finalAck")
           /\ pos' = [pos EXCEPT ![e] = next]
        \/ /\ last /\ debug
           /\ WriteReturns(e, "MSG_OK")

(* One turn of the loop of write_hex, two digits for a byte.  It waits for *)
(* the acknowledgement of a block (but not for the last, as write_packet   *)
(* does), and goes on only if it is one.                                   *)
WriteHexByte(e) ==
    /\ st[e] = "bytes" /\ Packet(e).hex
    /\ chan' = [chan EXCEPT ![Other(e)] =
                   @ \o <<DataByte(turn[e], pos[e]), DataByte(turn[e], pos[e] + 1)>>]
    /\ LET next == pos[e] + 2
           awaits == next % BLOCK_SIZE = 0 /\ Packet(e).type # "DEBUG"
       IN
        \/ /\ next < Packet(e).len
           /\ StillWriting(e, IF awaits THEN "hexAck" ELSE "bytes")
           /\ pos' = [pos EXCEPT ![e] = next]
        \/ /\ next = Packet(e).len
           /\ WriteReturns(e, "MSG_OK")

HexBlockAcked(e) ==
    /\ st[e] = "hexAck"
    /\ Has(e, "header")
    /\ Take(e)
    /\ \/ /\ Head(chan[e]).cmd = "ACK"
          /\ StillWriting(e, "bytes")
          /\ UNCHANGED pos
       \/ /\ Head(chan[e]).cmd # "ACK"
          /\ WriteReturns(e, "MSG_NO_ACK")

(* write_bytes tests read_ack(...) < 0, and read_ack returns MSG_OK or     *)
(* MSG_NO_ACK, which is 2: any header lets it go on.                       *)
BlockAcked(e) ==
    /\ st[e] = "blockAck"
    /\ Has(e, "header")
    /\ Take(e)
    /\ StillWriting(e, "bytes")
    /\ UNCHANGED pos

\* A bug: the result of read_ack taken the wrong way round.
FinalNotAcked(e) ==
    /\ st[e] = "finalAck"
    /\ Has(e, "header")
    /\ Take(e)
    /\ WriteReturns(e, IF Head(chan[e]).cmd = "ACK" THEN "MSG_NO_ACK" ELSE "MSG_OK")

FinalAcked(e) ==
    /\ st[e] = "finalAck"
    /\ Has(e, "header")
    /\ Take(e)
    /\ WriteReturns(e, IF Head(chan[e]).cmd = "ACK" THEN "MSG_OK" ELSE "MSG_NO_ACK")

-----------------------------------------------------------------------------
(***************************************************************************)
(* read_packet                                                             *)
(***************************************************************************)
TooLong(e, header) == Packet(e).limit # 0 /\ header.len > Packet(e).limit

RejectLength(e) ==
    /\ st[e] = "idle"
    /\ Reader(e)
    /\ Has(e, "header")
    /\ TooLong(e, Head(chan[e]))
    /\ Take(e)
    /\ Return(e)
    /\ refused' = refused \cup {Head(chan[e]).packet}
    /\ UNCHANGED <<script, astray, log, outcome, resets>>

ReadHeader(e) ==
    /\ st[e] = "idle"
    /\ Reader(e)
    /\ Has(e, "header")
    /\ LET h == Head(chan[e]) IN
        /\ ~TooLong(e, h)
        /\ IF h.cmd # "ACK" /\ Acknowledges(h.cmd)
           THEN TakeAndSend(e, Ack)
           ELSE Take(e)
        /\ \/ /\ h.cmd # "ACK" /\ h.len > 0
              /\ Goto(e, "data")
              /\ hdr' = [hdr EXCEPT ![e] = h]
              /\ UNCHANGED <<script, pos, buf, astray, log, outcome, refused, resets>>
           \/ /\ h.cmd = "ACK" \/ h.len = 0
              /\ ReadReturns(e, h.cmd, <<>>)

(* One turn of the loop of read_bytes: it acknowledges a block when it     *)
(* turns to the first byte of the next, and read_packet the last one.      *)
ReadByte(e) ==
    /\ st[e] = "data"
    /\ Has(e, "byte")
    /\ LET next == pos[e] + 1
           bytes == Append(buf[e], Head(chan[e]))
           last == next = hdr[e].len
           acks == Acknowledges(hdr[e].cmd) /\ (last \/ next % BLOCK_SIZE = 0)
       IN
        /\ IF acks THEN TakeAndSend(e, Ack) ELSE Take(e)
        /\ \/ /\ ~last
              /\ Goto(e, "data")
              /\ pos' = [pos EXCEPT ![e] = next]
              /\ buf' = [buf EXCEPT ![e] = bytes]
              /\ UNCHANGED <<script, hdr, astray, log, outcome, refused, resets>>
           \/ /\ last
              /\ ReadReturns(e, hdr[e].cmd, bytes)

-----------------------------------------------------------------------------
(***************************************************************************)
(* Bytes that an end does not expect.                                      *)
(***************************************************************************)
GoesAstray(e) == astray' = astray \cup {e}

(* read_header ignores the bytes before a MSG_MAGIC.  But contents may     *)
(* hold that byte too, and the end then takes what follows for a header.   *)
Skip(e) ==
    /\ Reading(e) /\ st[e] # "data"
    /\ Has(e, "byte")
    /\ Take(e)
    /\ \/ UNCHANGED astray
       \/ GoesAstray(e)
    /\ UNCHANGED <<script, turn, st, pos, buf, hdr, log, outcome, refused, resets>>

(* read_bytes stores the bytes of a header as contents, and what follows.  *)
Garble(e) ==
    /\ st[e] = "data"
    /\ Has(e, "header")
    /\ e \notin astray
    /\ GoesAstray(e)
    /\ UNCHANGED <<script, turn, st, pos, buf, hdr, chan, log, outcome, refused, resets>>

(***************************************************************************)
(* What an end astray reads: the bytes on its wire, cut into headers and   *)
(* contents at other places than its partner did, as one of any header or  *)
(* a byte nothing is known of.  read_packet and write_packet go on with it *)
(* as with any other unit; nothing tells the end.                          *)
(***************************************************************************)
StrayUnits ==
    {DataByte(0, 0)} \cup
    {Header(0, cmd, len) : cmd \in {"MSG", "DEBUG", "ACK"}, len \in StrayLens}

Stray(e) ==
    /\ e \in astray
    /\ \E units \in {<<>>} \cup {<<unit>> : unit \in StrayUnits} :
          chan' = [chan EXCEPT ![e] = units]
    /\ UNCHANGED <<script, turn, st, pos, buf, hdr, astray, log, outcome, refused, resets>>

(***************************************************************************)
(* An end is reset within a call; what the wire brings in the meantime     *)
(* may be lost, and a unit that it was sending or getting be cut, so that  *)
(* whoever reads the rest is astray.  It turns to the next packet of the   *)
(* script.                                                                 *)
(***************************************************************************)
Reset(e) ==
    /\ resets < MaxResets
    /\ Engaged(e)
    /\ resets' = resets + 1
    /\ chan' \in {chan, [chan EXCEPT ![e] = <<>>]}
    /\ astray' \in {astray \cup cut : cut \in SUBSET Ends}
    /\ Return(e)
    /\ UNCHANGED <<script, log, outcome, refused>>

(* After a reset the ends are not in phase, and bytes come while nobody is *)
(* in uart_readbyte: without a FIFO they may be lost, the end is astray.   *)
Overrun(e) ==
    /\ resets > 0
    /\ chan[e] # <<>>
    /\ chan' = [chan EXCEPT ![e] = <<>>]
    /\ GoesAstray(e)
    /\ UNCHANGED <<script, turn, st, pos, buf, hdr, log, outcome, refused, resets>>

EndStep(e) ==
    \/ WriteHeader(e)
    \/ HeaderAcked(e)
    \/ WriteByte(e)
    \/ WriteHexByte(e)
    \/ HexBlockAcked(e)
    \/ BlockAcked(e)
    \/ FinalAcked(e)
    \/ RejectLength(e)
    \/ ReadHeader(e)
    \/ ReadByte(e)
    \/ Skip(e)
    \/ Garble(e)

Finished == \A e \in Ends : turn[e] > Len(script)

Terminated == Finished /\ UNCHANGED vars

Next == \E e \in Ends : EndStep(e) \/ Stray(e) \/ Reset(e) \/ Overrun(e)

(* A link that may stop: an end waits for the other without a timeout.     *)
Spec == Init /\ [][Next \/ Terminated]_vars

(* Each end keeps running: it is a single thread that never blocks but in  *)
(* uart_readbyte, which returns when there is a byte.                      *)
FairSpec == Spec /\ \A e \in Ends : WF_vars(EndStep(e))

-----------------------------------------------------------------------------
(***************************************************************************)
(* Properties                                                              *)
(***************************************************************************)
Bytes == [kind : {"byte"}, packet : Nat, at : Nat]
Headers == [kind : {"header"}, packet : Nat, cmd : {"MSG", "DEBUG", "ACK"}, len : Nat]

(* The type of every variable; pos stays within the packet, and what is    *)
(* stored is what was read.                                                *)
TypeOK ==
    /\ script \in Scripts
    /\ turn \in [Ends -> 1 .. (Len(script) + 1)]
    /\ st \in [Ends -> AwaitingAck \cup {"idle", "bytes", "data"}]
    /\ pos \in [Ends -> Nat]
    /\ buf \in [Ends -> Seq(Bytes)]
    /\ hdr \in [Ends -> Headers]
    /\ chan \in [Ends -> Seq(Bytes \cup Headers)]
    /\ astray \subseteq Ends
    /\ \A e \in Ends :
          /\ pos[e] <= (IF Writer(e) THEN Packet(e).len ELSE hdr[e].len)
          /\ Len(buf[e]) = (IF Writer(e) THEN 0 ELSE pos[e])
    /\ log \in Seq([cmd : {"MSG", "DEBUG", "ACK"}, bytes : Seq(Bytes)])
    /\ outcome \in [1 .. Len(script) -> {"none", "MSG_OK", "MSG_NO_ACK"}]
    /\ refused \subseteq Nat
    /\ resets \in 0 .. MaxResets

WholePacket(n) ==
    [cmd |-> script[n].type,
     bytes |-> [i \in 1 .. script[n].len |-> DataByte(n, i - 1)]]

(* The two ends agree on every acknowledgement: when both are between the  *)
(* same two packets nothing is left on the wire, so that no late ACK can   *)
(* be taken for the answer to the next packet.                             *)
NothingLeftOver ==
    turn["hsm"] = turn["peer"] /\ (\A e \in Ends : st[e] = "idle")
        => \A e \in Ends : chan[e] = <<>>

(* The UART has no flow control and no FIFO: a byte that comes while       *)
(* nobody reads it may be lost.  Within a packet this never happens: an    *)
(* end is in uart_readbyte, or about to send the unit before it gets       *)
(* there, whenever something other than a new packet is on its wire.  (A   *)
(* new packet's header, and all of a DEBUG packet, come unasked.)          *)
Solicited ==
    \A e \in Ends : \A i \in 1 .. Len(chan[e]) :
        LET unit == chan[e][i] IN
        \/ Reading(e)
        \/ unit.kind = "header" /\ unit.cmd # "ACK"
        \/ unit.kind = "byte" /\ script[unit.packet].type = "DEBUG"

(* Every packet read_packet returned with MSG_OK to an end that is not     *)
(* astray is one of the conversation, whole and byte for byte; of those    *)
(* with the same writer none comes twice and none out of order.  This is   *)
(* so even if ends are reset, the other one is astray, and packets are     *)
(* lost or refused.  (A lone ACK that nobody waited for any more is        *)
(* returned as a packet of its own.  What an end astray gets with MSG_OK   *)
(* may be any mixture.)                                                    *)
InOrder ==
    \E f \in [1 .. Len(log) -> 1 .. Len(script)] :
        \A i, j \in {k \in 1 .. Len(log) : log[k].cmd # "ACK"} :
            /\ log[i] = WholePacket(f[i])
            /\ i < j /\ script[f[i]].from = script[f[j]].from => f[i] < f[j]

(* On a link without resets a packet that does not fit the reader's buffer *)
(* is refused before its first byte is sent, and the writer does not take  *)
(* it for delivered, as long as nobody is astray (KeepsPlace says when).   *)
(* (A DEBUG packet does not wait to be accepted.)                          *)
RefusedNotSent ==
    astray = {} =>
        \A n \in refused :
            script[n].type # "DEBUG" =>
                /\ outcome[n] # "MSG_OK"
                /\ \A e \in Ends : \A i \in 1 .. Len(chan[e]) :
                      chan[e][i].kind = "byte" => chan[e][i].packet # n

(* On a link without resets an end loses its place only by contents that   *)
(* come without a request, those of a DEBUG packet, and only after a       *)
(* packet was refused: in all other conversations nobody is astray,        *)
(* whichever requests and ACKs cross.                                      *)
KeepsPlace ==
    astray # {} =>
        /\ refused # {}
        /\ \E n \in 1 .. Len(script) : script[n].type = "DEBUG" /\ script[n].len > 0

(* "Expect an ACK after sending every 256 bytes": write_bytes sends the    *)
(* first byte of a block only if the header it got before was an ACK.      *)
BlockAckHonoured ==
    [][\A e \in Ends :
          st[e] = "blockAck" /\ st'[e] = "bytes" => Head(chan[e]).cmd = "ACK"]_vars

(* Both ends get through the conversation: nobody waits for the other      *)
(* forever, and every write_packet returns MSG_OK.                         *)
Completes == <>(Finished /\ \A n \in 1 .. Len(script) : outcome[n] = "MSG_OK")

Handover ==
    INSTANCE PacketHandover WITH
        handed <- log,
        confirmed <- {n \in 1 .. Len(script) : outcome[n] = "MSG_OK"}

(* The two functions implement the hand-over of whole packets.             *)
HandoverSpec == Handover!Spec
=============================================================================
