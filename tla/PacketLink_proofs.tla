------------------------- MODULE PacketLink_proofs -------------------------
(***************************************************************************)
(* write_packet and read_packet: types and the order of what is returned,  *)
(* whatever happens; for a link whose ends are not reset and whose packets *)
(* fit their readers, that the two functions agree on every                *)
(* acknowledgement and hand each packet over whole, once and in order;     *)
(* and, if packets are refused but no end is reset, that none of a refused *)
(* packet's contents are sent.                                             *)
(***************************************************************************)
EXTENDS PacketLink, SequenceTheorems, TLAPS

-----------------------------------------------------------------------------
(***************************************************************************)
(* What the state of an end says of it                                     *)
(***************************************************************************)
EndInv(e) ==
    /\ st[e] # "idle" => Engaged(e)
    /\ st[e] = "idle" => pos[e] = 0 /\ buf[e] = <<>> /\ hdr[e] = Ack
    /\ st[e] \in AwaitingAck \cup {"bytes"} => Writer(e)
    /\ st[e] \in AwaitingAck => Packet(e).type # "DEBUG"
    /\ st[e] = "headerAck" => pos[e] = 0
    /\ st[e] \in {"bytes", "blockAck", "hexAck"} => pos[e] < Packet(e).len
    /\ st[e] = "bytes" /\ Packet(e).hex => pos[e] % 2 = 0
    /\ st[e] = "hexAck" => Packet(e).hex /\ pos[e] % 2 = 0
    /\ st[e] = "blockAck" => ~Packet(e).hex /\ pos[e] % BLOCK_SIZE = 0
    /\ st[e] = "finalAck" => pos[e] = Packet(e).len /\ pos[e] > 0
    /\ st[e] = "data" => Reader(e) /\ pos[e] < hdr[e].len /\ hdr[e].cmd # "ACK"

EndBounds(e) ==
    /\ pos[e] <= (IF Writer(e) THEN Packet(e).len ELSE hdr[e].len)
    /\ Len(buf[e]) = (IF Writer(e) THEN 0 ELSE pos[e])

EndsOK ==
    /\ turn \in [Ends -> 1 .. (Len(script) + 1)]
    /\ st \in [Ends -> AwaitingAck \cup {"idle", "bytes", "data"}]
    /\ pos \in [Ends -> Nat]
    /\ buf \in [Ends -> Seq(Bytes)]
    /\ hdr \in [Ends -> Headers]
    /\ \A e \in Ends : EndBounds(e) /\ EndInv(e)

WireOK == chan \in [Ends -> Seq(Bytes \cup Headers)]

(* A packet has an outcome only once its writer has turned to the next.    *)
OutcomeInv ==
    /\ outcome \in [1 .. Len(script) -> {"none", "MSG_OK", "MSG_NO_ACK"}]
    /\ \A n \in 1 .. Len(script) :
          outcome[n] # "none" => n < turn[script[n].from]

RecordOK ==
    /\ log \in Seq([cmd : {"MSG", "DEBUG", "ACK"}, bytes : Seq(Bytes)])
    /\ refused \subseteq Nat
    /\ resets \in 0 .. MaxResets
    /\ astray \subseteq Ends

IInv == script \in Scripts /\ EndsOK /\ WireOK /\ OutcomeInv /\ RecordOK

-----------------------------------------------------------------------------
(***************************************************************************)
(* The stream of units an end sends: unit j of packet n is its header or,  *)
(* from 1 on, a byte of its contents.                                      *)
(***************************************************************************)
Unit(sc, n, j) == IF j = 0 THEN Header(n, sc[n].type, sc[n].len) ELSE DataByte(n, j - 1)

(* The unit after unit j of packet n.                                      *)
NextPacket(sc, n, j) == IF j < sc[n].len THEN n ELSE n + 1
NextAt(sc, n, j) == IF j < sc[n].len THEN j + 1 ELSE 0

Before(n, j, m, i) == n < m \/ (n = m /\ j < i)

(* The units are those from unit j of packet n up to, but not including,   *)
(* unit i of packet m.                                                     *)
Flow(sc, units, n, j, m, i) ==
    \E p, q \in [1 .. Len(units) + 1 -> Nat] :
        /\ p[1] = n /\ q[1] = j
        /\ p[Len(units) + 1] = m /\ q[Len(units) + 1] = i
        /\ \A k \in 1 .. Len(units) :
              /\ p[k] \in 1 .. Len(sc) /\ q[k] <= sc[p[k]].len
              /\ units[k] = Unit(sc, p[k], q[k])
              /\ p[k + 1] = NextPacket(sc, p[k], q[k])
              /\ q[k + 1] = NextAt(sc, p[k], q[k])
              /\ Before(p[k], q[k], m, i)

(* Packets n to m - 1 are DEBUG packets of end a.                          *)
DebugOf(sc, a, n, m) ==
    /\ n <= m
    /\ \A k \in n .. (m - 1) : sc[k].from = a /\ sc[k].type = "DEBUG"

-----------------------------------------------------------------------------
(***************************************************************************)
(* The two ends together, if none is reset and every packet fits: a is the *)
(* one that writes or is ahead, b the other.                               *)
(***************************************************************************)

(* What an end has sent so far ends before this unit.                      *)
SentPacket(e) == IF st[e] = "idle" THEN turn[e] ELSE NextPacket(script, turn[e], pos[e])
SentAt(e) == IF st[e] = "idle" THEN 0 ELSE NextAt(script, turn[e], pos[e])

Stream(units, n, j, e) == Flow(script, units, n, j, SentPacket(e), SentAt(e))

(* An end that may send without having been asked: a header, or all of a   *)
(* DEBUG packet.                                                           *)
Ahead(e) ==
    \/ st[e] = "idle"
    \/ st[e] = "bytes" /\ Packet(e).type = "DEBUG"
    \/ st[e] = "headerAck"

Flowing(a, b) ==
    /\ DebugOf(script, a, turn[b], turn[a])
    /\ Ahead(a)
    /\ st[b] = "idle" \/ (st[b] = "data" /\ Packet(b).type = "DEBUG")
    /\ chan[a] = <<>>
    /\ Stream(chan[b], turn[b], IF st[b] = "data" THEN pos[b] + 1 ELSE 0, a)
    /\ Len(log) = turn[b] - 1

Within(a, b) ==
    /\ turn[a] = turn[b]
    /\ Writer(a) /\ Packet(a).type # "DEBUG"
    /\ st[b] = "data"
    /\ Len(log) = turn[b] - 1

HeaderRead(a, b) ==
    /\ Within(a, b)
    /\ st[a] = "headerAck" /\ pos[b] = 0
    /\ chan[a] = <<Ack>> /\ chan[b] = <<>>

(* No block ends between what was read and what was sent, unless a waits   *)
(* for its acknowledgement.                                                *)
Sending(a, b) ==
    /\ Within(a, b)
    /\ st[a] \in {"bytes", "blockAck", "finalAck"}
    /\ chan[a] = <<>>
    /\ Stream(chan[b], turn[b], pos[b] + 1, a)
    /\ \A k \in (pos[b] + 1) .. pos[a] :
          k % BLOCK_SIZE = 0 => k = pos[a] /\ st[a] # "bytes"
    /\ st[a] = "blockAck" => pos[b] < pos[a]

BlockRead(a, b) ==
    /\ Within(a, b)
    /\ st[a] = "blockAck" /\ pos[b] = pos[a]
    /\ chan[a] = <<Ack>> /\ chan[b] = <<>>

(* b has returned and may be at work on the next packets.                  *)
Delivered(a, b) ==
    /\ Writer(a) /\ Packet(a).type # "DEBUG"
    /\ st[a] = "finalAck" \/ (st[a] = "headerAck" /\ Packet(a).len = 0)
    /\ DebugOf(script, b, turn[a] + 1, turn[b])
    /\ Ahead(b)
    /\ chan[b] = <<>>
    /\ chan[a] # <<>> /\ Head(chan[a]) = Ack
    /\ Stream(Tail(chan[a]), turn[a] + 1, 0, b)
    /\ Len(log) = turn[a]

Together(a, b) ==
    \/ Flowing(a, b) \/ HeaderRead(a, b) \/ Sending(a, b) \/ BlockRead(a, b)
    \/ Delivered(a, b)

(* What an end has read so far of a packet is the packet's beginning.      *)
ReadInv(e) ==
    st[e] = "data" =>
        /\ hdr[e] = Header(turn[e], Packet(e).type, Packet(e).len)
        /\ buf[e] = [i \in 1 .. pos[e] |-> DataByte(turn[e], i - 1)]

LogInv == \A k \in 1 .. Len(log) : log[k] = WholePacket(k)

Linked ==
    /\ \E a \in Ends : Together(a, Other(a))
    /\ \A e \in Ends : ReadInv(e)
    /\ LogInv

LinkInv == Linked /\ astray = {}

-----------------------------------------------------------------------------
(***************************************************************************)
(* Streams                                                                 *)
(***************************************************************************)
LEMMA PacketType ==
    ASSUME NEW sc \in Seq(Packets), NEW n \in 1 .. Len(sc)
    PROVE  /\ sc[n].len \in Nat /\ sc[n].limit \in Nat
           /\ sc[n].from \in Ends /\ sc[n].type \in {"MSG", "DEBUG"}
<1>1. sc[n] \in Packets
    OBVIOUS
<1> QED
    BY <1>1 DEF Packets

LEMMA NextType ==
    ASSUME NEW sc \in Seq(Packets), NEW n \in 1 .. Len(sc), NEW j \in Nat
    PROVE  /\ sc[n].len \in Nat
           /\ NextPacket(sc, n, j) \in 1 .. (Len(sc) + 1)
           /\ NextAt(sc, n, j) \in Nat
           /\ Before(n, j, NextPacket(sc, n, j), NextAt(sc, n, j))
           /\ NextPacket(sc, n, j) <= Len(sc) =>
                 NextAt(sc, n, j) <= sc[NextPacket(sc, n, j)].len
<1>1. sc[n].len \in Nat
    BY PacketType
<1>2. CASE j < sc[n].len
    BY <1>1, <1>2 DEF NextPacket, NextAt, Before
<1>3. CASE ~(j < sc[n].len)
    <2>1. NextPacket(sc, n, j) = n + 1 /\ NextAt(sc, n, j) = 0
        BY <1>3 DEF NextPacket, NextAt
    <2>2. n + 1 <= Len(sc) => sc[n + 1].len \in Nat
        BY PacketType
    <2> QED
        BY <1>1, <2>1, <2>2 DEF Before
<1> QED
    BY <1>2, <1>3

LEMMA NoFlow ==
    ASSUME NEW sc, NEW n \in Nat, NEW j \in Nat
    PROVE  Flow(sc, <<>>, n, j, n, j)
<1> DEFINE p == [k \in 1 .. Len(<<>>) + 1 |-> n]
           q == [k \in 1 .. Len(<<>>) + 1 |-> j]
<1>1. /\ p \in [1 .. Len(<<>>) + 1 -> Nat] /\ q \in [1 .. Len(<<>>) + 1 -> Nat]
      /\ p[1] = n /\ q[1] = j /\ Len(<<>>) = 0
    OBVIOUS
<1> HIDE DEF p, q
<1> QED
    BY <1>1 DEF Flow

(* Where the stream has units, the first is the one it begins with.        *)
LEMMA FlowHead ==
    ASSUME NEW sc \in Seq(Packets), NEW units \in Seq(Bytes \cup Headers), units # <<>>,
           NEW n \in Nat, NEW j \in Nat, NEW m \in Nat, NEW i \in Nat,
           Flow(sc, units, n, j, m, i)
    PROVE  /\ n \in 1 .. Len(sc) /\ j \in 0 .. sc[n].len
           /\ Head(units) = Unit(sc, n, j)
           /\ Before(n, j, m, i)
           /\ Flow(sc, Tail(units), NextPacket(sc, n, j), NextAt(sc, n, j), m, i)
<1>1. PICK p, q \in [1 .. Len(units) + 1 -> Nat] :
          /\ p[1] = n /\ q[1] = j
          /\ p[Len(units) + 1] = m /\ q[Len(units) + 1] = i
          /\ \A k \in 1 .. Len(units) :
                /\ p[k] \in 1 .. Len(sc) /\ q[k] <= sc[p[k]].len
                /\ units[k] = Unit(sc, p[k], q[k])
                /\ p[k + 1] = NextPacket(sc, p[k], q[k])
                /\ q[k + 1] = NextAt(sc, p[k], q[k])
                /\ Before(p[k], q[k], m, i)
    BY DEF Flow
<1>2. /\ Len(units) \in Nat \ {0} /\ Head(units) = units[1]
      /\ Len(Tail(units)) = Len(units) - 1
      /\ \A k \in 1 .. Len(Tail(units)) : Tail(units)[k] = units[k + 1]
    OBVIOUS
<1>3. /\ n \in 1 .. Len(sc) /\ j \in Nat /\ j <= sc[n].len
      /\ units[1] = Unit(sc, n, j) /\ Before(n, j, m, i)
      /\ p[2] = NextPacket(sc, n, j) /\ q[2] = NextAt(sc, n, j)
    BY <1>1, <1>2
<1>4. sc[n].len \in Nat
    BY <1>3, NextType
<1>5. Flow(sc, Tail(units), p[2], q[2], m, i)
    <2> DEFINE r == [k \in 1 .. Len(Tail(units)) + 1 |-> p[k + 1]]
               s == [k \in 1 .. Len(Tail(units)) + 1 |-> q[k + 1]]
    <2>1. /\ r \in [1 .. Len(Tail(units)) + 1 -> Nat]
          /\ s \in [1 .. Len(Tail(units)) + 1 -> Nat]
          /\ \A k \in 1 .. Len(Tail(units)) + 1 : r[k] = p[k + 1] /\ s[k] = q[k + 1]
        BY <1>1, <1>2
    <2> HIDE DEF r, s
    <2>2. /\ r[1] = p[2] /\ s[1] = q[2]
          /\ r[Len(Tail(units)) + 1] = m /\ s[Len(Tail(units)) + 1] = i
        BY <1>1, <1>2, <2>1
    <2>3. ASSUME NEW k \in 1 .. Len(Tail(units))
          PROVE  /\ r[k] \in 1 .. Len(sc) /\ s[k] <= sc[r[k]].len
                 /\ Tail(units)[k] = Unit(sc, r[k], s[k])
                 /\ r[k + 1] = NextPacket(sc, r[k], s[k])
                 /\ s[k + 1] = NextAt(sc, r[k], s[k])
                 /\ Before(r[k], s[k], m, i)
        <3>1. /\ k + 1 \in 1 .. Len(units)
              /\ r[k] = p[k + 1] /\ s[k] = q[k + 1]
              /\ r[k + 1] = p[(k + 1) + 1] /\ s[k + 1] = q[(k + 1) + 1]
            BY <1>2, <2>1
        <3> QED
            BY <1>1, <1>2, <3>1
    <2> QED
        BY <2>1, <2>2, <2>3 DEF Flow
<1> QED
    BY <1>2, <1>3, <1>4, <1>5

(* Where it has none, it ends where it begins.                             *)
LEMMA FlowEnd ==
    ASSUME NEW sc, NEW n, NEW j, NEW m, NEW i, Flow(sc, <<>>, n, j, m, i)
    PROVE  n = m /\ j = i
<1>1. Len(<<>>) + 1 = 1
    OBVIOUS
<1> QED
    BY <1>1 DEF Flow

(* It is empty if it ends where it begins.                                 *)
LEMMA FlowNone ==
    ASSUME NEW sc \in Seq(Packets), NEW units \in Seq(Bytes \cup Headers),
           NEW n \in Nat, NEW j \in Nat, Flow(sc, units, n, j, n, j)
    PROVE  units = <<>>
<1> SUFFICES ASSUME units # <<>> PROVE FALSE
    OBVIOUS
<1>1. Before(n, j, n, j)
    BY FlowHead
<1> QED
    BY <1>1 DEF Before

LEMMA FlowAppend ==
    ASSUME NEW sc \in Seq(Packets), NEW units \in Seq(Bytes \cup Headers),
           NEW n, NEW j, NEW m \in 1 .. Len(sc), NEW i \in Nat, i <= sc[m].len,
           Flow(sc, units, n, j, m, i)
    PROVE  Flow(sc, Append(units, Unit(sc, m, i)), n, j,
                NextPacket(sc, m, i), NextAt(sc, m, i))
<1> DEFINE x == Unit(sc, m, i)
           more == Append(units, x)
           m2 == NextPacket(sc, m, i)
           i2 == NextAt(sc, m, i)
<1>1. PICK p, q \in [1 .. Len(units) + 1 -> Nat] :
          /\ p[1] = n /\ q[1] = j
          /\ p[Len(units) + 1] = m /\ q[Len(units) + 1] = i
          /\ \A k \in 1 .. Len(units) :
                /\ p[k] \in 1 .. Len(sc) /\ q[k] <= sc[p[k]].len
                /\ units[k] = Unit(sc, p[k], q[k])
                /\ p[k + 1] = NextPacket(sc, p[k], q[k])
                /\ q[k + 1] = NextAt(sc, p[k], q[k])
                /\ Before(p[k], q[k], m, i)
    BY DEF Flow
<1>2. m2 \in Nat /\ i2 \in Nat /\ Before(m, i, m2, i2)
    BY NextType
<1>3. /\ Len(units) \in Nat /\ Len(more) = Len(units) + 1
      /\ \A k \in 1 .. Len(units) : more[k] = units[k]
      /\ more[Len(units) + 1] = x
    OBVIOUS
<1> DEFINE r == [k \in 1 .. Len(more) + 1 |-> IF k <= Len(units) + 1 THEN p[k] ELSE m2]
           s == [k \in 1 .. Len(more) + 1 |-> IF k <= Len(units) + 1 THEN q[k] ELSE i2]
<1> HIDE DEF more, x, m2, i2
<1>4. /\ r \in [1 .. Len(more) + 1 -> Nat] /\ s \in [1 .. Len(more) + 1 -> Nat]
      /\ \A k \in 1 .. Len(units) + 1 : r[k] = p[k] /\ s[k] = q[k]
      /\ r[Len(more) + 1] = m2 /\ s[Len(more) + 1] = i2
    BY <1>1, <1>2, <1>3
<1> HIDE DEF r, s
<1>5. r[1] = n /\ s[1] = j
    BY <1>1, <1>3, <1>4
<1>6. ASSUME NEW k \in 1 .. Len(more)
      PROVE  /\ r[k] \in 1 .. Len(sc) /\ s[k] <= sc[r[k]].len
             /\ more[k] = Unit(sc, r[k], s[k])
             /\ r[k + 1] = NextPacket(sc, r[k], s[k])
             /\ s[k + 1] = NextAt(sc, r[k], s[k])
             /\ Before(r[k], s[k], m2, i2)
    <2>1. CASE k \in 1 .. Len(units)
        <3>1. k + 1 \in 1 .. Len(units) + 1 /\ k \in 1 .. Len(units) + 1
            BY <1>3, <2>1
        <3>2. /\ p[k] \in Nat /\ q[k] \in Nat /\ Before(p[k], q[k], m, i)
            BY <1>1, <2>1, <3>1
        <3>3. Before(p[k], q[k], m2, i2)
            BY <1>2, <3>2 DEF Before
        <3> QED
            BY <1>1, <1>3, <1>4, <2>1, <3>1, <3>3
    <2>2. CASE k = Len(units) + 1
        <3>1. r[k] = m /\ s[k] = i
            BY <1>1, <1>3, <1>4, <2>2
        <3>2. r[k + 1] = m2 /\ s[k + 1] = i2
            BY <1>3, <1>4, <2>2
        <3>3. more[k] = Unit(sc, r[k], s[k])
            BY <1>3, <2>2, <3>1 DEF x
        <3> QED
            BY <1>2, <3>1, <3>2, <3>3 DEF m2, i2
    <2> QED
        BY <1>3, <2>1, <2>2
<1>7. Flow(sc, more, n, j, m2, i2)
    BY <1>4, <1>5, <1>6 DEF Flow
<1> QED
    BY <1>7 DEF more, x, m2, i2

-----------------------------------------------------------------------------
(***************************************************************************)
(* The two ends, and what the assumption says of a conversation            *)
(***************************************************************************)
LEMMA TwoEnds ==
    ASSUME NEW e \in Ends
    PROVE  Other(e) \in Ends /\ Other(e) # e /\ Other(Other(e)) = e /\ Ends = {e, Other(e)}
BY DEF Ends, Other

LEMMA PacketFacts ==
    ASSUME IInv
    PROVE  /\ script \in Seq(Packets) /\ Len(script) \in Nat
           /\ BLOCK_SIZE \in Nat \ {0}
           /\ \A n \in 1 .. Len(script) :
                 /\ script[n].len \in Nat /\ script[n].limit \in Nat
                 /\ script[n].from \in Ends /\ script[n].type \in {"MSG", "DEBUG"}
                 /\ script[n].hex => script[n].len % 2 = 0
           /\ \A e \in Ends : Engaged(e) <=> turn[e] \in 1 .. Len(script)
<1>1. script \in Scripts /\ script \in Seq(Packets) /\ BLOCK_SIZE \in Nat \ {0}
    BY LinkAssumption DEF IInv
<1>2. \A n \in 1 .. Len(script) : script[n].hex => script[n].len % 2 = 0
    BY <1>1, LinkAssumption
<1>3. Len(script) \in Nat
    BY <1>1
<1>4. \A e \in Ends : Engaged(e) <=> turn[e] \in 1 .. Len(script)
    BY <1>3 DEF IInv, EndsOK, Engaged
<1> QED
    BY <1>1, <1>2, <1>3, <1>4, PacketType

LEMMA HeaderTypes ==
    /\ Ack \in Headers /\ Ack.cmd = "ACK" /\ Ack.len = 0 /\ Ack.kind = "header"
    /\ \A n, len \in Nat, cmd \in {"MSG", "DEBUG", "ACK"} :
          /\ Header(n, cmd, len) \in Headers
          /\ Header(n, cmd, len).cmd = cmd /\ Header(n, cmd, len).len = len
          /\ Header(n, cmd, len).kind = "header"
    /\ \A n, i \in Nat : DataByte(n, i) \in Bytes /\ DataByte(n, i).kind = "byte"
BY DEF Ack, Header, Headers, DataByte, Bytes

-----------------------------------------------------------------------------
(***************************************************************************)
(* What the pieces of the actions preserve                                 *)
(***************************************************************************)

(* The end that does not move stays as it was.                             *)
LEMMA Elsewhere ==
    ASSUME IInv, script' = script, NEW f \in Ends,
           turn'[f] = turn[f], st'[f] = st[f], pos'[f] = pos[f], buf'[f] = buf[f],
           hdr'[f] = hdr[f]
    PROVE  EndBounds(f)' /\ EndInv(f)'
BY DEF IInv, EndsOK, EndBounds, EndInv, Engaged, Writer, Reader, Packet

LEMMA ReturnKeeps ==
    ASSUME IInv, NEW e \in Ends, Engaged(e), script' = script, Return(e)
    PROVE  EndsOK' /\ turn'[e] = turn[e] + 1 /\ \A f \in Ends : turn'[f] >= turn[f]
<1> USE DEF IInv, EndsOK
<1>1. turn[e] \in 1 .. Len(script) /\ Len(script) \in Nat
    BY PacketFacts
<1>2. /\ turn' \in [Ends -> 1 .. (Len(script) + 1)]
      /\ turn'[e] = turn[e] + 1 /\ \A f \in Ends \ {e} : turn'[f] = turn[f]
    BY <1>1 DEF Return
<1>3. /\ st' \in [Ends -> AwaitingAck \cup {"idle", "bytes", "data"}]
      /\ pos' \in [Ends -> Nat]
      /\ st'[e] = "idle" /\ pos'[e] = 0
      /\ \A f \in Ends \ {e} : st'[f] = st[f] /\ pos'[f] = pos[f]
    BY DEF Return
<1>4. /\ buf' \in [Ends -> Seq(Bytes)] /\ hdr' \in [Ends -> Headers]
      /\ buf'[e] = <<>> /\ hdr'[e] = Ack
      /\ \A f \in Ends \ {e} : buf'[f] = buf[f] /\ hdr'[f] = hdr[f]
    <2>1. <<>> \in Seq(Bytes)
        OBVIOUS
    <2> QED
        BY <2>1, HeaderTypes DEF Return
<1>5. EndInv(e)'
    BY <1>3, <1>4 DEF EndInv, AwaitingAck
<1>6. EndBounds(e)'
    <2>1. Writer(e)' => script'[turn'[e]].len \in Nat
        BY <1>1, <1>2, PacketFacts DEF Writer, Engaged
    <2>2. Len(buf'[e]) = 0 /\ hdr'[e].len = 0
        BY <1>4, HeaderTypes
    <2> QED
        BY <1>3, <2>1, <2>2 DEF EndBounds, Packet
<1>7. \A f \in Ends \ {e} : EndBounds(f)' /\ EndInv(f)'
    BY <1>2, <1>3, <1>4, Elsewhere
<1>8. ASSUME NEW f \in Ends
      PROVE  turn'[f] >= turn[f]
    <2>1. turn[f] \in 1 .. (Len(script) + 1)
        OBVIOUS
    <2>2. CASE f = e
        BY <1>1, <1>2, <2>2
    <2>3. CASE f # e
        BY <1>2, <2>1, <2>3
    <2> QED
        BY <2>2, <2>3
<1> QED
    BY <1>2, <1>3, <1>4, <1>5, <1>6, <1>7, <1>8

(* The writer goes on to another place in write_packet.                    *)
LEMMA WritingKeeps ==
    ASSUME IInv, NEW e \in Ends, Writer(e), script' = script,
           NEW state \in AwaitingAck \cup {"bytes"}, Goto(e, state),
           NEW i \in Nat, pos' = [pos EXCEPT ![e] = i], UNCHANGED <<buf, hdr>>,
           i <= Packet(e).len,
           state \in AwaitingAck => Packet(e).type # "DEBUG",
           state = "headerAck" => i = 0,
           state \in {"bytes", "blockAck", "hexAck"} => i < Packet(e).len,
           state \in {"bytes", "hexAck"} /\ Packet(e).hex => i % 2 = 0,
           state = "hexAck" => Packet(e).hex,
           state = "blockAck" => ~Packet(e).hex /\ i % BLOCK_SIZE = 0,
           state = "finalAck" => i = Packet(e).len /\ i > 0
    PROVE  EndsOK' /\ turn' = turn
<1> USE DEF IInv, EndsOK
<1>1. /\ turn' = turn /\ buf' = buf /\ hdr' = hdr
      /\ st' \in [Ends -> AwaitingAck \cup {"idle", "bytes", "data"}]
      /\ pos' \in [Ends -> Nat]
      /\ st'[e] = state /\ pos'[e] = i
      /\ \A f \in Ends \ {e} : st'[f] = st[f] /\ pos'[f] = pos[f]
    BY DEF Goto
<1>2. /\ (Writer(e)' <=> Writer(e)) /\ (Engaged(e)' <=> Engaged(e))
      /\ Packet(e)' = Packet(e)
    BY <1>1 DEF Writer, Engaged, Packet
<1>3. EndInv(e)'
    BY <1>1, <1>2 DEF EndInv, AwaitingAck, Writer
<1>4. EndBounds(e)'
    BY <1>1, <1>2 DEF EndBounds
<1>5. \A f \in Ends \ {e} : EndBounds(f)' /\ EndInv(f)'
    BY <1>1, Elsewhere
<1> QED
    BY <1>1, <1>3, <1>4, <1>5

LEMMA SamePos ==
    ASSUME IInv, NEW e \in Ends, UNCHANGED pos
    PROVE  pos' = [pos EXCEPT ![e] = pos[e]] /\ pos[e] \in Nat
BY DEF IInv, EndsOK

(* The ends go on as they were.                                            *)
LEMMA StandingKeeps ==
    ASSUME IInv, script' = script, UNCHANGED <<turn, st, pos, buf, hdr>>
    PROVE  EndsOK' /\ turn' = turn
BY Elsewhere DEF IInv, EndsOK

(* The wires.                                                              *)
LEMMA HeadUnit ==
    ASSUME IInv, NEW e \in Ends, chan[e] # <<>>
    PROVE  /\ Head(chan[e]) \in Bytes \cup Headers
           /\ Head(chan[e]).kind = "header" => Head(chan[e]) \in Headers
           /\ Head(chan[e]).kind = "byte" => Head(chan[e]) \in Bytes
<1>1. chan[e] \in Seq(Bytes \cup Headers)
    BY DEF IInv, WireOK
<1>2. Head(chan[e]) \in Bytes \cup Headers
    BY <1>1
<1> QED
    BY <1>2 DEF Bytes, Headers

LEMMA TakeKeeps ==
    ASSUME IInv, NEW e \in Ends, chan[e] # <<>>, Take(e)
    PROVE  /\ WireOK'
           /\ chan'[e] = Tail(chan[e]) /\ chan'[Other(e)] = chan[Other(e)]
<1>1. chan \in [Ends -> Seq(Bytes \cup Headers)]
    BY DEF IInv, WireOK
<1>2. Tail(chan[e]) \in Seq(Bytes \cup Headers)
    BY <1>1
<1> QED
    BY <1>1, <1>2, TwoEnds DEF Take, WireOK

LEMMA SendKeeps ==
    ASSUME IInv, NEW e \in Ends, NEW unit \in Bytes \cup Headers, Send(e, unit)
    PROVE  /\ WireOK'
           /\ chan'[Other(e)] = Append(chan[Other(e)], unit) /\ chan'[e] = chan[e]
<1>1. chan \in [Ends -> Seq(Bytes \cup Headers)]
    BY DEF IInv, WireOK
<1>2. Append(chan[Other(e)], unit) \in Seq(Bytes \cup Headers)
    BY <1>1, TwoEnds
<1> QED
    BY <1>1, <1>2, TwoEnds DEF Send, WireOK

LEMMA TakeAndSendKeeps ==
    ASSUME IInv, NEW e \in Ends, chan[e] # <<>>, NEW unit \in Bytes \cup Headers,
           TakeAndSend(e, unit)
    PROVE  /\ WireOK'
           /\ chan'[e] = Tail(chan[e])
           /\ chan'[Other(e)] = Append(chan[Other(e)], unit)
<1>1. chan \in [Ends -> Seq(Bytes \cup Headers)]
    BY DEF IInv, WireOK
<1>2. /\ Append(chan[Other(e)], unit) \in Seq(Bytes \cup Headers)
      /\ Tail(chan[e]) \in Seq(Bytes \cup Headers)
    BY <1>1, TwoEnds
<1>3. chan' = [[chan EXCEPT ![e] = Tail(chan[e])]
                  EXCEPT ![Other(e)] = Append(chan[Other(e)], unit)]
    BY <1>1, TwoEnds DEF TakeAndSend
<1> QED
    BY <1>1, <1>2, <1>3, TwoEnds DEF WireOK

(* The record.                                                             *)
LEMMA OutcomeKeeps ==
    ASSUME IInv, script' = script, \A f \in Ends : turn'[f] >= turn[f],
           UNCHANGED outcome, EndsOK'
    PROVE  OutcomeInv'
<1>1. ASSUME NEW n \in 1 .. Len(script), outcome[n] # "none"
      PROVE  n < turn'[script[n].from]
    <2>1. script[n].from \in Ends
        BY PacketFacts
    <2>2. n < turn[script[n].from] /\ turn[script[n].from] \in Nat
        BY <1>1, <2>1 DEF IInv, OutcomeInv, EndsOK
    <2>3. turn'[script[n].from] >= turn[script[n].from] /\ turn'[script[n].from] \in Nat
        BY <2>1 DEF EndsOK
    <2> QED
        BY <2>2, <2>3
<1> QED
    BY <1>1 DEF IInv, OutcomeInv

LEMMA WriteReturnsKeeps ==
    ASSUME IInv, NEW e \in Ends, Writer(e),
           NEW result \in {"MSG_OK", "MSG_NO_ACK"}, WriteReturns(e, result)
    PROVE  /\ EndsOK' /\ OutcomeInv' /\ RecordOK' /\ script' = script
           /\ turn'[e] = turn[e] + 1
           /\ outcome' = [outcome EXCEPT ![turn[e]] = result]
<1> USE DEF WriteReturns
<1>1. Engaged(e) /\ script[turn[e]].from = e
    BY DEF Writer, Packet
<1>2. EndsOK' /\ turn'[e] = turn[e] + 1 /\ \A f \in Ends : turn'[f] >= turn[f]
    BY <1>1, ReturnKeeps
<1>3. RecordOK'
    BY DEF IInv, RecordOK
<1>4. turn[e] \in 1 .. Len(script)
    BY <1>1, PacketFacts
<1>5. outcome' \in [1 .. Len(script) -> {"none", "MSG_OK", "MSG_NO_ACK"}]
    BY <1>4 DEF IInv, OutcomeInv
<1>6. ASSUME NEW n \in 1 .. Len(script), outcome'[n] # "none"
      PROVE  n < turn'[script[n].from]
    <2>1. CASE n = turn[e]
        BY <1>1, <1>2, <1>4, <2>1
    <2>2. CASE n # turn[e]
        <3>1. outcome[n] # "none"
            BY <1>4, <1>6, <2>2 DEF IInv, OutcomeInv
        <3>2. script[n].from \in Ends
            BY PacketFacts
        <3>3. /\ n < turn[script[n].from]
              /\ turn[script[n].from] \in Nat /\ turn'[script[n].from] \in Nat
            BY <1>2, <3>1, <3>2 DEF IInv, OutcomeInv, EndsOK
        <3> QED
            BY <1>2, <3>2, <3>3
    <2> QED
        BY <2>1, <2>2
<1> QED
    BY <1>2, <1>3, <1>5, <1>6 DEF OutcomeInv

-----------------------------------------------------------------------------
(***************************************************************************)
(* Every step of an end preserves IInv                                     *)
(***************************************************************************)
LEMMA WriterFacts ==
    ASSUME IInv, NEW e \in Ends, Writer(e)
    PROVE  /\ Engaged(e) /\ turn[e] \in 1 .. Len(script)
           /\ Packet(e).len \in Nat /\ Packet(e).type \in {"MSG", "DEBUG"}
           /\ Packet(e).hex => Packet(e).len % 2 = 0
           /\ pos[e] \in Nat
           /\ Header(turn[e], Packet(e).type, Packet(e).len) \in Bytes \cup Headers
           /\ \A i \in Nat : DataByte(turn[e], i) \in Bytes \cup Headers
<1>1. Engaged(e) /\ turn[e] \in 1 .. Len(script)
    BY PacketFacts DEF Writer
<1>2. /\ Packet(e).len \in Nat /\ Packet(e).type \in {"MSG", "DEBUG"}
      /\ Packet(e).hex => Packet(e).len % 2 = 0
    BY <1>1, PacketFacts DEF Packet
<1> QED
    BY <1>1, <1>2, HeaderTypes DEF IInv, EndsOK

LEMMA WritingKeepsAll ==
    ASSUME IInv, NEW e \in Ends, NEW state, StillWriting(e, state),
           EndsOK', turn' = turn, WireOK'
    PROVE  IInv'
<1> USE DEF StillWriting, Goto
<1>1. script' = script /\ UNCHANGED <<astray, log, outcome, refused, resets>>
    OBVIOUS
<1>2. RecordOK'
    BY <1>1 DEF IInv, RecordOK
<1>3. \A f \in Ends : turn'[f] >= turn[f]
    BY DEF IInv, EndsOK
<1>4. OutcomeInv'
    BY <1>1, <1>3, OutcomeKeeps
<1> QED
    BY <1>1, <1>2, <1>4 DEF IInv

LEMMA WriteReturnsAll ==
    ASSUME IInv, NEW e \in Ends, Writer(e),
           NEW result \in {"MSG_OK", "MSG_NO_ACK"}, WriteReturns(e, result), WireOK'
    PROVE  IInv'
BY WriteReturnsKeeps DEF IInv

LEMMA WriteHeaderKeeps == ASSUME IInv, NEW e \in Ends, WriteHeader(e) PROVE IInv'
<1>1. Writer(e)
    BY DEF WriteHeader
<1>2. st[e] = "idle" /\ pos[e] = 0
    BY DEF WriteHeader, IInv, EndsOK, EndInv
<1>3. WireOK'
    BY <1>1, WriterFacts, SendKeeps DEF WriteHeader
<1>4. CASE Packet(e).type # "DEBUG"
    <2>1. StillWriting(e, "headerAck") /\ UNCHANGED pos
        BY <1>4 DEF WriteHeader
    <2>2. EndsOK' /\ turn' = turn
        BY <1>1, <1>2, <1>4, <2>1, WriterFacts, SamePos, WritingKeeps
            DEF StillWriting, AwaitingAck
    <2> QED
        BY <1>3, <2>1, <2>2, WritingKeepsAll
<1>5. CASE Packet(e).type = "DEBUG" /\ Packet(e).len > 0
    <2>1. StillWriting(e, "bytes") /\ UNCHANGED pos
        BY <1>5 DEF WriteHeader
    <2>2. 0 % 2 = 0
        OBVIOUS
    <2>3. EndsOK' /\ turn' = turn
        BY <1>1, <1>2, <1>5, <2>1, <2>2, WriterFacts, SamePos, WritingKeeps
            DEF StillWriting, AwaitingAck
    <2> QED
        BY <1>3, <2>1, <2>3, WritingKeepsAll
<1>6. CASE Packet(e).type = "DEBUG" /\ Packet(e).len = 0
    <2>1. WriteReturns(e, "MSG_OK")
        BY <1>6 DEF WriteHeader
    <2> QED
        BY <1>1, <1>3, <2>1, WriteReturnsAll
<1> QED
    BY <1>1, <1>4, <1>5, <1>6, WriterFacts

LEMMA HeaderAckedKeeps == ASSUME IInv, NEW e \in Ends, HeaderAcked(e) PROVE IInv'
<1>1. Writer(e) /\ pos[e] = 0 /\ Packet(e).type # "DEBUG"
    BY DEF HeaderAcked, IInv, EndsOK, EndInv, AwaitingAck
<1>2. WireOK'
    BY TakeKeeps DEF HeaderAcked, Has
<1>3. CASE StillWriting(e, "bytes") /\ Packet(e).len > 0 /\ UNCHANGED pos
    <2>1. 0 % 2 = 0
        OBVIOUS
    <2>2. EndsOK' /\ turn' = turn
        BY <1>1, <1>3, <2>1, WriterFacts, SamePos, WritingKeeps
            DEF StillWriting, AwaitingAck
    <2> QED
        BY <1>2, <1>3, <2>2, WritingKeepsAll
<1>4. CASE WriteReturns(e, "MSG_OK") \/ WriteReturns(e, "MSG_NO_ACK")
    BY <1>1, <1>2, <1>4, WriteReturnsAll
<1> QED
    BY <1>3, <1>4 DEF HeaderAcked

LEMMA WriteByteKeeps == ASSUME IInv, NEW e \in Ends, WriteByte(e) PROVE IInv'
<1> DEFINE next == pos[e] + 1
<1>1. Writer(e) /\ pos[e] < Packet(e).len /\ ~Packet(e).hex
    BY DEF WriteByte, IInv, EndsOK, EndInv
<1>2. WireOK'
    BY <1>1, WriterFacts, SendKeeps DEF WriteByte
<1>3. next \in Nat /\ next > 0 /\ next <= Packet(e).len
    BY <1>1, WriterFacts
<1>4. ASSUME NEW state \in {"bytes", "blockAck", "finalAck"},
             StillWriting(e, state), pos' = [pos EXCEPT ![e] = next],
             state # "bytes" => Packet(e).type # "DEBUG",
             state # "finalAck" => next # Packet(e).len,
             state = "finalAck" => next = Packet(e).len,
             state = "blockAck" => next % BLOCK_SIZE = 0
      PROVE  IInv'
    <2> HIDE DEF next
    <2>1. /\ state \in AwaitingAck \cup {"bytes"} /\ state # "headerAck" /\ state # "hexAck"
          /\ state \in AwaitingAck => Packet(e).type # "DEBUG"
          /\ state \in {"bytes", "blockAck", "hexAck"} => next < Packet(e).len
          /\ Goto(e, state) /\ UNCHANGED <<buf, hdr>> /\ script' = script
        BY <1>3, <1>4, <1>1, WriterFacts DEF StillWriting, AwaitingAck
    <2>2. EndsOK' /\ turn' = turn
        BY <1>1, <1>3, <1>4, <2>1, WritingKeeps
    <2> QED
        BY <1>2, <1>4, <2>2, WritingKeepsAll
<1>5. CASE WriteReturns(e, "MSG_OK")
    BY <1>1, <1>2, <1>5, WriteReturnsAll
<1>6. \/ StillWriting(e, "bytes") /\ next # Packet(e).len
      \/ /\ StillWriting(e, "blockAck") /\ next # Packet(e).len
         /\ next % BLOCK_SIZE = 0 /\ Packet(e).type # "DEBUG"
      \/ StillWriting(e, "finalAck") /\ next = Packet(e).len /\ Packet(e).type # "DEBUG"
      \/ WriteReturns(e, "MSG_OK")
    BY DEF WriteByte
<1>7. pos' = [pos EXCEPT ![e] = next] \/ WriteReturns(e, "MSG_OK")
    BY DEF WriteByte
<1> HIDE DEF next
<1> QED
    BY <1>4, <1>5, <1>6, <1>7

LEMMA WriteHexByteKeeps == ASSUME IInv, NEW e \in Ends, WriteHexByte(e) PROVE IInv'
<1> DEFINE next == pos[e] + 2
<1>1. /\ Writer(e) /\ pos[e] < Packet(e).len /\ Packet(e).hex /\ pos[e] % 2 = 0
    BY DEF WriteHexByte, IInv, EndsOK, EndInv
<1>2. WireOK'
    <2>1. chan \in [Ends -> Seq(Bytes \cup Headers)]
        BY DEF IInv, WireOK
    <2>2. /\ DataByte(turn[e], pos[e]) \in Bytes \cup Headers
          /\ DataByte(turn[e], pos[e] + 1) \in Bytes \cup Headers
        BY <1>1, WriterFacts
    <2>3. chan[Other(e)] \o <<DataByte(turn[e], pos[e]), DataByte(turn[e], pos[e] + 1)>>
              \in Seq(Bytes \cup Headers)
        BY <2>1, <2>2, TwoEnds
    <2> QED
        BY <2>1, <2>3, TwoEnds DEF WriteHexByte, WireOK
<1>3. next \in Nat /\ next > 0 /\ next <= Packet(e).len /\ next % 2 = 0
    BY <1>1, WriterFacts
<1>4. CASE WriteReturns(e, "MSG_OK")
    BY <1>1, <1>2, <1>4, WriteReturnsAll
<1>5. ASSUME NEW state \in {"bytes", "hexAck"}, StillWriting(e, state),
             next < Packet(e).len, pos' = [pos EXCEPT ![e] = next],
             state = "hexAck" => Packet(e).type # "DEBUG"
      PROVE  IInv'
    <2> HIDE DEF next
    <2>1. /\ state \in AwaitingAck \cup {"bytes"}
          /\ state \in AwaitingAck => Packet(e).type # "DEBUG"
          /\ state # "headerAck" /\ state # "blockAck" /\ state # "finalAck"
          /\ Goto(e, state) /\ UNCHANGED <<buf, hdr>> /\ script' = script
        BY <1>5 DEF StillWriting, AwaitingAck
    <2>2. EndsOK' /\ turn' = turn
        BY <1>1, <1>3, <1>5, <2>1, WritingKeeps
    <2> QED
        BY <1>2, <1>5, <2>2, WritingKeepsAll
<1>6. \/ WriteReturns(e, "MSG_OK")
      \/ /\ next < Packet(e).len /\ pos' = [pos EXCEPT ![e] = next]
         /\ \/ StillWriting(e, "bytes")
            \/ StillWriting(e, "hexAck") /\ Packet(e).type # "DEBUG"
    BY DEF WriteHexByte
<1> QED
    BY <1>4, <1>5, <1>6

LEMMA HexBlockAckedKeeps == ASSUME IInv, NEW e \in Ends, HexBlockAcked(e) PROVE IInv'
<1>1. Writer(e) /\ pos[e] < Packet(e).len /\ pos[e] % 2 = 0
    BY DEF HexBlockAcked, IInv, EndsOK, EndInv, AwaitingAck
<1>2. WireOK'
    BY TakeKeeps DEF HexBlockAcked, Has
<1>3. CASE StillWriting(e, "bytes") /\ UNCHANGED pos
    <2>1. EndsOK' /\ turn' = turn
        BY <1>1, <1>3, WriterFacts, SamePos, WritingKeeps DEF StillWriting, AwaitingAck
    <2> QED
        BY <1>2, <1>3, <2>1, WritingKeepsAll
<1>4. CASE WriteReturns(e, "MSG_NO_ACK")
    BY <1>1, <1>2, <1>4, WriteReturnsAll
<1> QED
    BY <1>3, <1>4 DEF HexBlockAcked

LEMMA BlockAckedKeeps == ASSUME IInv, NEW e \in Ends, BlockAcked(e) PROVE IInv'
<1>1. Writer(e) /\ pos[e] < Packet(e).len /\ ~Packet(e).hex
    BY DEF BlockAcked, IInv, EndsOK, EndInv, AwaitingAck
<1>2. WireOK'
    BY TakeKeeps DEF BlockAcked, Has
<1>3. StillWriting(e, "bytes") /\ UNCHANGED pos
    BY DEF BlockAcked
<1>4. EndsOK' /\ turn' = turn
    BY <1>1, <1>3, WriterFacts, SamePos, WritingKeeps DEF StillWriting, AwaitingAck
<1> QED
    BY <1>2, <1>3, <1>4, WritingKeepsAll

LEMMA FinalAckedKeeps == ASSUME IInv, NEW e \in Ends, FinalAcked(e) PROVE IInv'
<1>1. Writer(e)
    BY DEF FinalAcked, IInv, EndsOK, EndInv, AwaitingAck
<1>2. WireOK'
    BY TakeKeeps DEF FinalAcked, Has
<1>3. WriteReturns(e, "MSG_OK") \/ WriteReturns(e, "MSG_NO_ACK")
    BY DEF FinalAcked
<1> QED
    BY <1>1, <1>2, <1>3, WriteReturnsAll

LEMMA ReaderFacts ==
    ASSUME IInv, NEW e \in Ends, Reader(e)
    PROVE  /\ Engaged(e) /\ turn[e] \in 1 .. Len(script)
           /\ Packet(e).len \in Nat /\ Packet(e).type \in {"MSG", "DEBUG"}
           /\ Packet(e).limit \in Nat
           /\ ~Writer(e) /\ Len(buf[e]) = pos[e] /\ pos[e] \in Nat
BY PacketFacts DEF Reader, Writer, Packet, IInv, EndsOK, EndBounds

LEMMA ReadReturnsKeeps ==
    ASSUME IInv, NEW e \in Ends, Engaged(e), NEW cmd \in {"MSG", "DEBUG", "ACK"},
           NEW bytes \in Seq(Bytes), ReadReturns(e, cmd, bytes), WireOK'
    PROVE  IInv'
<1> USE DEF ReadReturns
<1>1. EndsOK' /\ \A f \in Ends : turn'[f] >= turn[f]
    BY ReturnKeeps
<1>2. OutcomeInv'
    BY <1>1, OutcomeKeeps
<1>3. log' \in Seq([cmd : {"MSG", "DEBUG", "ACK"}, bytes : Seq(Bytes)])
    <2>1. PICK S : S = [cmd : {"MSG", "DEBUG", "ACK"}, bytes : Seq(Bytes)]
        OBVIOUS
    <2>2. log \in Seq(S) /\ [cmd |-> cmd, bytes |-> bytes] \in S
        BY <2>1 DEF IInv, RecordOK
    <2>3. PICK x \in S : x = [cmd |-> cmd, bytes |-> bytes]
        BY <2>2
    <2>4. log' = log \/ log' = Append(log, x)
        BY <2>3
    <2> HIDE DEF ReadReturns
    <2>5. log' \in Seq(S)
        BY <2>2, <2>3, <2>4
    <2> QED
        BY <2>1, <2>5
<1>4. RecordOK'
    BY <1>3 DEF IInv, RecordOK
<1> QED
    BY <1>1, <1>2, <1>4 DEF IInv

LEMMA RejectLengthKeeps == ASSUME IInv, NEW e \in Ends, RejectLength(e) PROVE IInv'
<1>1. Engaged(e) /\ turn[e] \in 1 .. Len(script)
    BY ReaderFacts DEF RejectLength
<1>2. WireOK'
    BY TakeKeeps DEF RejectLength, Has
<1>3. EndsOK' /\ \A f \in Ends : turn'[f] >= turn[f]
    BY <1>1, ReturnKeeps DEF RejectLength
<1>4. OutcomeInv'
    BY <1>3, OutcomeKeeps DEF RejectLength
<1>5. RecordOK'
    <2>1. Head(chan[e]) \in Headers
        BY HeadUnit DEF RejectLength, Has
    <2>2. Head(chan[e]).packet \in Nat
        BY <2>1 DEF Headers
    <2> QED
        BY <2>2 DEF RejectLength, IInv, RecordOK
<1> QED
    BY <1>2, <1>3, <1>4, <1>5 DEF RejectLength, IInv

(* The reader goes on within a packet.                                     *)
LEMMA ReadingKeeps ==
    ASSUME IInv, NEW e \in Ends, Reader(e), script' = script, Goto(e, "data"),
           NEW h \in Headers, hdr' = [hdr EXCEPT ![e] = h], h.cmd # "ACK",
           NEW i \in Nat, pos' = [pos EXCEPT ![e] = i], i < h.len,
           NEW bytes \in Seq(Bytes), buf' = [buf EXCEPT ![e] = bytes], Len(bytes) = i
    PROVE  EndsOK' /\ turn' = turn
<1> USE DEF IInv, EndsOK
<1>1. /\ turn' = turn
      /\ st' \in [Ends -> AwaitingAck \cup {"idle", "bytes", "data"}]
      /\ pos' \in [Ends -> Nat] /\ buf' \in [Ends -> Seq(Bytes)]
      /\ hdr' \in [Ends -> Headers]
      /\ st'[e] = "data" /\ pos'[e] = i /\ hdr'[e] = h /\ buf'[e] = bytes
      /\ \A f \in Ends \ {e} : /\ st'[f] = st[f] /\ pos'[f] = pos[f]
                               /\ buf'[f] = buf[f] /\ hdr'[f] = hdr[f]
    BY DEF Goto
<1>2. Reader(e)' /\ ~Writer(e)' /\ Engaged(e)'
    BY <1>1 DEF Writer, Reader, Engaged, Packet
<1>3. EndInv(e)'
    BY <1>1, <1>2 DEF EndInv, AwaitingAck
<1>4. EndBounds(e)'
    <2>1. i <= h.len
        BY DEF Headers
    <2> QED
        BY <1>1, <1>2, <2>1 DEF EndBounds
<1>5. \A f \in Ends \ {e} : EndBounds(f)' /\ EndInv(f)'
    BY <1>1, Elsewhere
<1> QED
    BY <1>1, <1>3, <1>4, <1>5

LEMMA SameRecord ==
    ASSUME IInv, script' = script, turn' = turn, EndsOK', WireOK',
           UNCHANGED <<log, outcome, refused, resets>>, astray' \subseteq Ends
    PROVE  IInv'
<1>1. \A f \in Ends : turn'[f] >= turn[f]
    BY DEF IInv, EndsOK
<1>2. OutcomeInv'
    BY <1>1, OutcomeKeeps
<1>3. RecordOK'
    BY DEF IInv, RecordOK
<1> QED
    BY <1>2, <1>3 DEF IInv

LEMMA ReadHeaderKeeps == ASSUME IInv, NEW e \in Ends, ReadHeader(e) PROVE IInv'
<1> DEFINE h == Head(chan[e])
<1>1. /\ Reader(e) /\ Engaged(e) /\ chan[e] # <<>> /\ h \in Headers
      /\ st[e] = "idle" /\ pos[e] = 0 /\ buf[e] = <<>>
    BY ReaderFacts, HeadUnit DEF ReadHeader, Has, IInv, EndsOK, EndInv
<1>2. WireOK'
    BY <1>1, TakeKeeps, TakeAndSendKeeps, HeaderTypes DEF ReadHeader
<1>3. CASE /\ h.cmd # "ACK" /\ h.len > 0 /\ Goto(e, "data")
           /\ hdr' = [hdr EXCEPT ![e] = h]
           /\ UNCHANGED <<script, pos, buf, astray, log, outcome, refused, resets>>
    <2>1. /\ pos' = [pos EXCEPT ![e] = 0] /\ buf' = [buf EXCEPT ![e] = <<>>]
          /\ <<>> \in Seq(Bytes) /\ Len(<<>>) = 0
        BY <1>1, <1>3 DEF IInv, EndsOK
    <2>2. EndsOK' /\ turn' = turn
        BY <1>1, <1>3, <2>1, ReadingKeeps
    <2> QED
        BY <1>2, <1>3, <2>2, SameRecord DEF IInv, RecordOK
<1>4. CASE ReadReturns(e, h.cmd, <<>>)
    <2>1. h.cmd \in {"MSG", "DEBUG", "ACK"} /\ <<>> \in Seq(Bytes)
        BY <1>1 DEF Headers
    <2> QED
        BY <1>1, <1>2, <1>4, <2>1, ReadReturnsKeeps
<1> QED
    BY <1>3, <1>4 DEF ReadHeader

LEMMA ReadByteKeeps == ASSUME IInv, NEW e \in Ends, ReadByte(e) PROVE IInv'
<1> DEFINE next == pos[e] + 1
           bytes == Append(buf[e], Head(chan[e]))
<1>1. /\ Reader(e) /\ Engaged(e) /\ chan[e] # <<>> /\ Head(chan[e]) \in Bytes
      /\ pos[e] < hdr[e].len /\ hdr[e].cmd # "ACK" /\ hdr[e] \in Headers
    BY ReaderFacts, HeadUnit DEF ReadByte, Has, IInv, EndsOK, EndInv
<1>2. WireOK'
    BY <1>1, TakeKeeps, TakeAndSendKeeps, HeaderTypes DEF ReadByte
<1>3. bytes \in Seq(Bytes) /\ Len(bytes) = next /\ next \in Nat
    BY <1>1, ReaderFacts DEF IInv, EndsOK
<1>4. CASE /\ next # hdr[e].len /\ Goto(e, "data")
           /\ pos' = [pos EXCEPT ![e] = next] /\ buf' = [buf EXCEPT ![e] = bytes]
           /\ UNCHANGED <<script, hdr, astray, log, outcome, refused, resets>>
    <2>1. /\ hdr' = [hdr EXCEPT ![e] = hdr[e]]
          /\ next < hdr[e].len
        BY <1>1, <1>3, <1>4, ReaderFacts DEF IInv, EndsOK, Headers
    <2> HIDE DEF next, bytes
    <2>2. EndsOK' /\ turn' = turn
        BY <1>1, <1>3, <1>4, <2>1, ReadingKeeps
    <2> QED
        BY <1>2, <1>4, <2>2, SameRecord DEF IInv, RecordOK
<1>5. CASE ReadReturns(e, hdr[e].cmd, bytes)
    <2>1. hdr[e].cmd \in {"MSG", "DEBUG", "ACK"}
        BY <1>1 DEF Headers
    <2> HIDE DEF bytes
    <2> QED
        BY <1>1, <1>2, <1>3, <1>5, <2>1, ReadReturnsKeeps
<1> QED
    BY <1>4, <1>5 DEF ReadByte

LEMMA SkipKeeps == ASSUME IInv, NEW e \in Ends, Skip(e) PROVE IInv'
<1>1. WireOK'
    BY TakeKeeps DEF Skip, Has
<1>2. EndsOK' /\ turn' = turn
    BY StandingKeeps DEF Skip
<1>3. astray' \subseteq Ends
    BY DEF Skip, GoesAstray, IInv, RecordOK
<1> QED
    BY <1>1, <1>2, <1>3, SameRecord DEF Skip

LEMMA GarbleKeeps == ASSUME IInv, NEW e \in Ends, Garble(e) PROVE IInv'
<1>1. EndsOK' /\ turn' = turn
    BY StandingKeeps DEF Garble
<1>2. astray' \subseteq Ends
    BY DEF Garble, GoesAstray, IInv, RecordOK
<1> QED
    BY <1>1, <1>2, SameRecord DEF Garble, IInv, WireOK

LEMMA StrayKeeps == ASSUME IInv, NEW e \in Ends, Stray(e) PROVE IInv'
<1>1. EndsOK' /\ turn' = turn
    BY StandingKeeps DEF Stray
<1>2. StrayUnits \subseteq Bytes \cup Headers
    BY LinkAssumption DEF StrayUnits, Bytes, Headers, DataByte, Header
<1>3. PICK units \in {<<>>} \cup {<<unit>> : unit \in StrayUnits} :
          chan' = [chan EXCEPT ![e] = units]
    BY DEF Stray
<1>4. units \in Seq(Bytes \cup Headers)
    <2>1. \A x \in Bytes \cup Headers : <<x>> \in Seq(Bytes \cup Headers)
        OBVIOUS
    <2>2. <<>> \in Seq(Bytes \cup Headers)
        OBVIOUS
    <2> QED
        BY <1>2, <1>3, <2>1, <2>2
<1>5. WireOK'
    BY <1>3, <1>4 DEF IInv, WireOK
<1> QED
    BY <1>1, <1>5, SameRecord DEF Stray, IInv, RecordOK

LEMMA ResetKeeps == ASSUME IInv, NEW e \in Ends, Reset(e) PROVE IInv'
<1>1. Engaged(e)
    BY DEF Reset
<1>2. WireOK'
    <2>1. <<>> \in Seq(Bytes \cup Headers)
        OBVIOUS
    <2> QED
        BY <2>1 DEF Reset, IInv, WireOK
<1>3. EndsOK' /\ \A f \in Ends : turn'[f] >= turn[f]
    BY <1>1, ReturnKeeps DEF Reset
<1>4. OutcomeInv'
    BY <1>3, OutcomeKeeps DEF Reset
<1>5. RecordOK'
    BY LinkAssumption DEF Reset, IInv, RecordOK
<1> QED
    BY <1>2, <1>3, <1>4, <1>5 DEF Reset, IInv

LEMMA OverrunKeeps == ASSUME IInv, NEW e \in Ends, Overrun(e) PROVE IInv'
<1>1. EndsOK' /\ turn' = turn
    BY StandingKeeps DEF Overrun
<1>2. WireOK'
    <2>1. <<>> \in Seq(Bytes \cup Headers)
        OBVIOUS
    <2> QED
        BY <2>1 DEF Overrun, IInv, WireOK
<1>3. astray' \subseteq Ends
    BY DEF Overrun, GoesAstray, IInv, RecordOK
<1> QED
    BY <1>1, <1>2, <1>3, SameRecord DEF Overrun

LEMMA InitIInv == Init => IInv
<1> SUFFICES ASSUME Init PROVE IInv
    OBVIOUS
<1> USE DEF Init
<1>1. script \in Scripts /\ script \in Seq(Packets) /\ Len(script) \in Nat
    BY LinkAssumption
<1>2. <<>> \in Seq(Bytes) /\ <<>> \in Seq(Bytes \cup Headers) /\ Len(<<>>) = 0
    OBVIOUS
<1>3. ASSUME NEW e \in Ends
      PROVE  EndBounds(e) /\ EndInv(e)
    <2>1. st[e] = "idle" /\ pos[e] = 0 /\ buf[e] = <<>> /\ hdr[e] = Ack /\ turn[e] = 1
        OBVIOUS
    <2>2. EndInv(e)
        BY <2>1 DEF EndInv, AwaitingAck
    <2>3. Writer(e) => Packet(e).len \in Nat
        BY <1>1, <2>1, PacketType DEF Writer, Engaged, Packet
    <2> QED
        BY <1>2, <2>1, <2>2, <2>3, HeaderTypes DEF EndBounds
<1>4. EndsOK
    BY <1>1, <1>2, <1>3, HeaderTypes DEF EndsOK
<1>5. WireOK /\ OutcomeInv
    BY <1>2 DEF WireOK, OutcomeInv
<1>6. RecordOK
    BY LinkAssumption DEF RecordOK
<1> QED
    BY <1>1, <1>4, <1>5, <1>6 DEF IInv

LEMMA StutterIInv == ASSUME IInv, UNCHANGED vars PROVE IInv'
<1>1. \A f \in Ends : turn'[f] >= turn[f]
    BY DEF vars, IInv, EndsOK
<1>2. EndsOK'
    BY Elsewhere DEF vars, IInv, EndsOK
<1>3. OutcomeInv'
    BY <1>1, <1>2, OutcomeKeeps DEF vars
<1> QED
    BY <1>2, <1>3 DEF vars, IInv, WireOK, RecordOK

(* Whatever the conversation, and whichever ends are reset, each variable  *)
(* and the state of each end are as IInv says.                             *)
THEOREM Inductive == Spec => []IInv
<1>1. ASSUME IInv, [Next \/ Terminated]_vars
      PROVE  IInv'
    <2>1. CASE UNCHANGED vars
        BY <1>1, <2>1, StutterIInv
    <2>2. CASE Terminated
        BY <1>1, <2>2, StutterIInv DEF Terminated
    <2>3. ASSUME NEW e \in Ends, EndStep(e)
          PROVE  IInv'
        BY <1>1, <2>3, WriteHeaderKeeps, HeaderAckedKeeps, WriteByteKeeps,
           WriteHexByteKeeps, HexBlockAckedKeeps, BlockAckedKeeps, FinalAckedKeeps,
           RejectLengthKeeps, ReadHeaderKeeps, ReadByteKeeps, SkipKeeps, GarbleKeeps
           DEF EndStep
    <2>4. ASSUME NEW e \in Ends, Stray(e) \/ Reset(e) \/ Overrun(e)
          PROVE  IInv'
        BY <1>1, <2>4, StrayKeeps, ResetKeeps, OverrunKeeps
    <2> QED
        BY <1>1, <2>1, <2>2, <2>3, <2>4 DEF Next
<1> QED
    BY InitIInv, <1>1, PTL DEF Spec

(* Every variable keeps its type, and an end never counts beyond the end   *)
(* of the packet it writes, or of the one whose header it read.            *)
THEOREM TypeCorrect == Spec => []TypeOK
<1>1. IInv => TypeOK
    BY DEF IInv, EndsOK, EndBounds, WireOK, OutcomeInv, RecordOK, TypeOK
<1> QED
    BY <1>1, Inductive, PTL

-----------------------------------------------------------------------------
(***************************************************************************)
(* From here on no end is reset, and write_hex is for DEBUG packets only,  *)
(* as in the firmware.                                                     *)
(***************************************************************************)
Unreset ==
    /\ MaxResets = 0
    /\ \A sc \in Scripts : \A n \in 1 .. Len(sc) : sc[n].hex => sc[n].type = "DEBUG"

(* No packet is too long for its reader.                                   *)
Undisturbed ==
    /\ Unreset
    /\ \A sc \in Scripts : \A n \in 1 .. Len(sc) :
          sc[n].limit # 0 => sc[n].len <= sc[n].limit

LEMMA HexOnlyDebug ==
    ASSUME Unreset, IInv, NEW n \in 1 .. Len(script)
    PROVE  script[n].hex => script[n].type = "DEBUG"
BY DEF Unreset, IInv

(* What a step does to the record of the conversation.                     *)
Recorded == Handover!Next \/ UNCHANGED <<script, log, outcome>>

LEMMA ConfirmStep ==
    ASSUME IInv, NEW e \in Ends, Writer(e), WriteReturns(e, "MSG_OK"),
           Packet(e).type = "DEBUG" \/ turn[e] <= Len(log)
    PROVE  Recorded
<1> DEFINE n == turn[e]
           told == {k \in 1 .. Len(script) : outcome[k] = "MSG_OK"}
           told2 == {k \in 1 .. Len(script)' : outcome'[k] = "MSG_OK"}
<1>1. n \in 1 .. Len(script) /\ script[n].from = e /\ n \in Nat
    BY WriterFacts DEF Writer, Packet
<1>2. /\ outcome \in [1 .. Len(script) -> {"none", "MSG_OK", "MSG_NO_ACK"}]
      /\ outcome' = [outcome EXCEPT ![n] = "MSG_OK"]
      /\ script' = script /\ log' = log
    BY DEF WriteReturns, IInv, OutcomeInv
<1>3. outcome[n] = "none"
    BY <1>1 DEF IInv, OutcomeInv
<1>4. n \notin told /\ told2 = told \cup {n}
    BY <1>1, <1>2, <1>3
<1> HIDE DEF n, told, told2
<1>5. \E k \in 1 .. Len(script) : Handover!Confirm(k)
    BY <1>1, <1>2, <1>4 DEF Handover!Confirm, Packet, n, told, told2
<1> QED
    BY <1>5 DEF Recorded, Handover!Next

LEMMA HandOverStep ==
    ASSUME IInv, LogInv, astray = {}, NEW e \in Ends, Engaged(e), Len(log) = turn[e] - 1,
           ReadReturns(e, WholePacket(turn[e]).cmd, WholePacket(turn[e]).bytes)
    PROVE  Recorded /\ LogInv' /\ Len(log') = turn[e]
<1> DEFINE n == turn[e]
<1>1. /\ n \in 1 .. Len(script) /\ Len(log) = n - 1 /\ n \in Nat
      /\ \E S : log \in Seq(S)
    BY PacketFacts DEF IInv, RecordOK
<1>2. script' = script /\ outcome' = outcome /\ log' = Append(log, WholePacket(n))
    BY DEF ReadReturns, WholePacket
<1>3. /\ Len(log') = n /\ log'[n] = WholePacket(n)
      /\ \A k \in 1 .. (n - 1) : log'[k] = log[k]
    BY <1>1, <1>2
<1>4. LogInv'
    <2> SUFFICES ASSUME NEW k \in 1 .. n PROVE log'[k] = WholePacket(k)'
        BY <1>3 DEF LogInv
    <2>1. WholePacket(k)' = WholePacket(k)
        BY <1>2 DEF WholePacket
    <2>2. CASE k = n
        BY <1>3, <2>1, <2>2
    <2>3. CASE k # n
        <3>1. k \in 1 .. (n - 1) /\ k \in 1 .. Len(log)
            BY <1>1, <2>3
        <3>2. log[k] = WholePacket(k)
            BY <3>1 DEF LogInv
        <3> QED
            BY <1>3, <2>1, <3>1, <3>2
    <2> QED
        BY <2>2, <2>3
<1>5. Handover!HandOver
    <2>1. Len(log) + 1 = n /\ Len(log) < Len(script)
        BY <1>1
    <2>2. Handover!WholePacket(n) = WholePacket(n)
        BY DEF Handover!WholePacket, Handover!DataByte, WholePacket, DataByte
    <2> QED
        BY <1>2, <2>1, <2>2 DEF Handover!HandOver
<1> QED
    BY <1>3, <1>4, <1>5 DEF Recorded, Handover!Next

-----------------------------------------------------------------------------
(***************************************************************************)
(* Writing onto a stream                                                   *)
(***************************************************************************)

(* Where an end is in what it sends.                                       *)
LEMMA SentFacts ==
    ASSUME IInv, NEW e \in Ends, st[e] = "idle" \/ Writer(e)
    PROVE  /\ SentPacket(e) \in Nat /\ SentAt(e) \in Nat
           /\ Writer(e) /\ st[e] = "idle" => SentPacket(e) = turn[e] /\ SentAt(e) = 0
           /\ Writer(e) /\ st[e] # "idle" =>
                 /\ SentPacket(e) = NextPacket(script, turn[e], pos[e])
                 /\ SentAt(e) = NextAt(script, turn[e], pos[e])
           /\ Writer(e) /\ st[e] # "idle" /\ pos[e] < Packet(e).len =>
                 SentPacket(e) = turn[e] /\ SentAt(e) = pos[e] + 1
           /\ Writer(e) /\ st[e] # "idle" /\ pos[e] = Packet(e).len =>
                 SentPacket(e) = turn[e] + 1 /\ SentAt(e) = 0
<1>1. turn[e] \in Nat /\ pos[e] \in Nat
    BY PacketFacts DEF IInv, EndsOK
<1>2. CASE st[e] = "idle"
    BY <1>1, <1>2 DEF SentPacket, SentAt
<1>3. CASE Writer(e) /\ st[e] # "idle"
    <2>1. /\ SentPacket(e) = NextPacket(script, turn[e], pos[e])
          /\ SentAt(e) = NextAt(script, turn[e], pos[e])
        BY <1>3 DEF SentPacket, SentAt
    <2>2. Packet(e).len \in Nat /\ Packet(e) = script[turn[e]]
        BY <1>3, WriterFacts DEF Packet
    <2> QED
        BY <1>1, <1>3, <2>1, <2>2 DEF NextPacket, NextAt
<1> QED
    BY <1>2, <1>3

(* A step of write_packet that sends something: where the writer then is.  *)
Sends(e) == WriteHeader(e) \/ WriteByte(e) \/ WriteHexByte(e)

(* The units it sends continue its stream.                                 *)
LEMMA HeaderFlows ==
    ASSUME IInv, NEW e \in Ends, WriteHeader(e),
           NEW units \in Seq(Bytes \cup Headers), NEW n, NEW j, Stream(units, n, j, e)
    PROVE  /\ chan'[e] = chan[e]
           /\ \E x \in Bytes \cup Headers :
                 /\ chan'[Other(e)] = Append(chan[Other(e)], x)
                 /\ Flow(script', Append(units, x), n, j, SentPacket(e)', SentAt(e)')
<1> DEFINE x == Header(turn[e], Packet(e).type, Packet(e).len)
<1>1. Writer(e) /\ st[e] = "idle" /\ Send(e, x) /\ x \in Bytes \cup Headers
    BY WriterFacts DEF WriteHeader
<1>2. SentPacket(e) = turn[e] /\ SentAt(e) = 0 /\ x = Unit(script, turn[e], 0)
    BY <1>1, SentFacts DEF Unit, Packet
<1>3. /\ turn[e] \in 1 .. Len(script) /\ script \in Seq(Packets)
      /\ Packet(e).len \in Nat /\ Packet(e) = script[turn[e]]
    BY <1>1, WriterFacts, PacketFacts DEF Packet
<1>4. Flow(script, Append(units, x), n, j,
           NextPacket(script, turn[e], 0), NextAt(script, turn[e], 0))
    BY <1>2, <1>3, FlowAppend DEF Stream
<1>5. /\ script' = script
      /\ SentPacket(e)' = NextPacket(script, turn[e], 0)
      /\ SentAt(e)' = NextAt(script, turn[e], 0)
    <2>1. pos[e] = 0 /\ pos \in [Ends -> Nat] /\ DOMAIN st = Ends /\ st = [f \in Ends |-> st[f]]
        BY <1>1 DEF IInv, EndsOK, EndInv
    <2>2. CASE \/ StillWriting(e, "headerAck") /\ UNCHANGED pos
               \/ StillWriting(e, "bytes") /\ UNCHANGED pos
        BY <2>1, <2>2 DEF StillWriting, Goto, SentPacket, SentAt
    <2>3. CASE WriteReturns(e, "MSG_OK") /\ Packet(e).len = 0
        <3>1. turn'[e] = turn[e] + 1 /\ st'[e] = "idle" /\ script' = script
            BY <1>1, <2>1, <2>3, WriteReturnsKeeps DEF WriteReturns, Return
        <3> QED
            BY <1>3, <2>3, <3>1 DEF SentPacket, SentAt, NextPacket, NextAt
    <2> QED
        BY <2>2, <2>3 DEF WriteHeader
<1> QED
    BY <1>1, <1>4, <1>5, SendKeeps DEF Stream

LEMMA ByteFlows ==
    ASSUME IInv, NEW e \in Ends, WriteByte(e),
           NEW units \in Seq(Bytes \cup Headers), NEW n, NEW j, Stream(units, n, j, e)
    PROVE  /\ chan'[e] = chan[e]
           /\ \E x \in Bytes \cup Headers :
                 /\ chan'[Other(e)] = Append(chan[Other(e)], x)
                 /\ Flow(script', Append(units, x), n, j, SentPacket(e)', SentAt(e)')
<1> DEFINE x == DataByte(turn[e], pos[e])
           next == pos[e] + 1
<1>1. /\ Writer(e) /\ st[e] = "bytes" /\ pos[e] < Packet(e).len
      /\ Send(e, x) /\ x \in Bytes \cup Headers
    BY WriterFacts DEF WriteByte, IInv, EndsOK, EndInv
<1>2. /\ turn[e] \in 1 .. Len(script) /\ script \in Seq(Packets)
      /\ Packet(e).len \in Nat /\ Packet(e) = script[turn[e]] /\ pos[e] \in Nat
    BY <1>1, WriterFacts, PacketFacts DEF Packet
<1>3. SentPacket(e) = turn[e] /\ SentAt(e) = next /\ x = Unit(script, turn[e], next)
    BY <1>1, <1>2, SentFacts DEF Unit
<1>4. next <= script[turn[e]].len /\ next \in Nat
    BY <1>1, <1>2
<1>5. Flow(script, Append(units, x), n, j,
           NextPacket(script, turn[e], next), NextAt(script, turn[e], next))
    <2> HIDE DEF next, x
    <2> QED
        BY <1>2, <1>3, <1>4, FlowAppend DEF Stream
<1>6. /\ script' = script
      /\ SentPacket(e)' = NextPacket(script, turn[e], next)
      /\ SentAt(e)' = NextAt(script, turn[e], next)
    <2>1. pos \in [Ends -> Nat] /\ DOMAIN st = Ends /\ st = [f \in Ends |-> st[f]]
        BY DEF IInv, EndsOK
    <2>2. CASE /\ pos' = [pos EXCEPT ![e] = next]
               /\ \E state \in {"bytes", "blockAck", "finalAck"} : StillWriting(e, state)
        BY <2>1, <2>2 DEF StillWriting, Goto, SentPacket, SentAt
    <2>3. CASE WriteReturns(e, "MSG_OK") /\ next = Packet(e).len
        <3>1. turn'[e] = turn[e] + 1 /\ st'[e] = "idle" /\ script' = script
            BY <1>1, <2>1, <2>3, WriteReturnsKeeps DEF WriteReturns, Return
        <3> QED
            BY <1>2, <2>3, <3>1 DEF SentPacket, SentAt, NextPacket, NextAt
    <2> QED
        BY <2>2, <2>3 DEF WriteByte
<1> QED
    BY <1>1, <1>5, <1>6, SendKeeps DEF Stream

LEMMA Concats ==
    ASSUME NEW S, NEW units \in Seq(S), NEW x \in S, NEW y \in S
    PROVE  /\ units \o <<x>> = Append(units, x)
           /\ units \o <<x, y>> = Append(Append(units, x), y)
           /\ <<x>> \in Seq(S) /\ <<x, y>> \in Seq(S)
<1>1. <<x>> \in Seq(S) /\ Len(<<x>>) = 1 /\ <<x>>[1] = x
    OBVIOUS
<1>2. <<x, y>> \in Seq(S) /\ Len(<<x, y>>) = 2 /\ <<x, y>>[1] = x /\ <<x, y>>[2] = y
    OBVIOUS
<1>3. units \o <<x>> = Append(units, x)
    BY AppendIsConcat
<1>4. units \o <<x, y>> = Append(Append(units, x), y)
    <2> DEFINE m == Append(units, x)
               l == units \o <<x, y>>
               r == Append(m, y)
    <2>1. /\ m \in Seq(S) /\ Len(m) = Len(units) + 1 /\ m[Len(units) + 1] = x
          /\ \A k \in 1 .. Len(units) : m[k] = units[k]
        OBVIOUS
    <2>2. /\ l \in Seq(S) /\ Len(l) = Len(units) + 2
          /\ \A k \in 1 .. Len(units) : l[k] = units[k]
          /\ l[Len(units) + 1] = x /\ l[Len(units) + 2] = y
        BY <1>2
    <2> HIDE DEF m, l
    <2>3. /\ r \in Seq(S) /\ Len(r) = Len(units) + 2
          /\ \A k \in 1 .. Len(units) + 1 : r[k] = m[k]
          /\ r[Len(units) + 2] = y
        BY <2>1
    <2> HIDE DEF r
    <2>4. \A k \in 1 .. Len(l) : l[k] = r[k]
        BY <2>1, <2>2, <2>3
    <2>5. l = r
        BY <2>2, <2>3, <2>4, SeqEqual
    <2> QED
        BY <2>5 DEF l, r, m
<1> QED
    BY <1>1, <1>2, <1>3, <1>4

LEMMA TailConcat ==
    ASSUME NEW S, NEW units \in Seq(S), NEW more \in Seq(S), units # <<>>
    PROVE  /\ units \o more # <<>> /\ Head(units \o more) = Head(units)
           /\ Tail(units \o more) = Tail(units) \o more
<1> DEFINE l == Tail(units \o more)
           r == Tail(units) \o more
<1>1. /\ Len(units) \in Nat \ {0} /\ units \o more \in Seq(S)
      /\ Len(units \o more) = Len(units) + Len(more)
      /\ \A k \in 1 .. Len(units) : (units \o more)[k] = units[k]
      /\ \A k \in 1 .. Len(more) : (units \o more)[Len(units) + k] = more[k]
      /\ Len(more) \in Nat
    OBVIOUS
<1>2. /\ Tail(units) \in Seq(S) /\ Len(Tail(units)) = Len(units) - 1
      /\ \A k \in 1 .. (Len(units) - 1) : Tail(units)[k] = units[k + 1]
    BY <1>1
<1>3. units \o more # <<>> /\ Head(units \o more) = Head(units)
    BY <1>1
<1>4. /\ l \in Seq(S) /\ Len(l) = Len(units) + Len(more) - 1
      /\ \A k \in 1 .. Len(l) : l[k] = (units \o more)[k + 1]
    BY <1>1, <1>3
<1>5. /\ r \in Seq(S) /\ Len(r) = Len(units) - 1 + Len(more)
      /\ \A k \in 1 .. (Len(units) - 1) : r[k] = Tail(units)[k]
      /\ \A k \in 1 .. Len(more) : r[Len(units) - 1 + k] = more[k]
    BY <1>1, <1>2
<1> HIDE DEF l, r
<1>6. ASSUME NEW k \in 1 .. Len(l) PROVE l[k] = r[k]
    <2>1. CASE k <= Len(units) - 1
        BY <1>1, <1>2, <1>4, <1>5, <2>1
    <2>2. CASE k > Len(units) - 1
        <3>1. PICK i \in 1 .. Len(more) : k = Len(units) - 1 + i
            <4>1. k - (Len(units) - 1) \in 1 .. Len(more)
                BY <1>1, <1>4, <2>2
            <4> QED
                BY <1>1, <4>1
        <3>2. k + 1 = Len(units) + i
            BY <1>1, <3>1
        <3> QED
            BY <1>1, <1>4, <1>5, <3>1, <3>2
    <2> QED
        BY <1>1, <1>4, <2>1, <2>2
<1>7. l = r
    BY <1>1, <1>4, <1>5, <1>6, SeqEqual
<1> QED
    BY <1>3, <1>7 DEF l, r

LEMMA HexFlows ==
    ASSUME IInv, NEW e \in Ends, WriteHexByte(e),
           NEW units \in Seq(Bytes \cup Headers), NEW n, NEW j, Stream(units, n, j, e)
    PROVE  /\ chan'[e] = chan[e]
           /\ \E s \in Seq(Bytes \cup Headers) :
                 /\ chan'[Other(e)] = chan[Other(e)] \o s
                 /\ Flow(script', units \o s, n, j, SentPacket(e)', SentAt(e)')
<1> DEFINE x == DataByte(turn[e], pos[e])
           y == DataByte(turn[e], pos[e] + 1)
           i == pos[e] + 1
           next == pos[e] + 2
<1>1. /\ Writer(e) /\ st[e] = "bytes" /\ pos[e] < Packet(e).len
      /\ Packet(e).hex /\ pos[e] % 2 = 0
      /\ x \in Bytes \cup Headers /\ y \in Bytes \cup Headers
    BY WriterFacts DEF WriteHexByte, IInv, EndsOK, EndInv
<1>2. /\ turn[e] \in 1 .. Len(script) /\ script \in Seq(Packets)
      /\ Packet(e).len \in Nat /\ Packet(e) = script[turn[e]] /\ pos[e] \in Nat
      /\ Packet(e).len % 2 = 0
    BY <1>1, WriterFacts, PacketFacts DEF Packet
<1>3. /\ i \in Nat /\ next \in Nat /\ i < script[turn[e]].len
      /\ next <= script[turn[e]].len /\ next = i + 1
      /\ x = Unit(script, turn[e], i) /\ y = Unit(script, turn[e], next)
    <2>1. i < script[turn[e]].len
        BY <1>1, <1>2
    <2>2. x = Unit(script, turn[e], i) /\ y = Unit(script, turn[e], next)
        BY <1>2 DEF Unit
    <2> QED
        BY <1>2, <2>1, <2>2
<1>4. SentPacket(e) = turn[e] /\ SentAt(e) = i
    BY <1>1, <1>2, SentFacts
<1> HIDE DEF x, y, i
<1>5. Flow(script, Append(units, x), n, j, turn[e], next)
    <2>1. NextPacket(script, turn[e], i) = turn[e] /\ NextAt(script, turn[e], i) = next
        BY <1>3 DEF NextPacket, NextAt
    <2>2. i <= script[turn[e]].len
        BY <1>2, <1>3
    <2> HIDE DEF next
    <2> QED
        BY <1>2, <1>3, <1>4, <2>1, <2>2, FlowAppend DEF Stream
<1>6. Append(units, x) \in Seq(Bytes \cup Headers)
    BY <1>1
<1>7. Flow(script, Append(Append(units, x), y), n, j,
           NextPacket(script, turn[e], next), NextAt(script, turn[e], next))
    <2> HIDE DEF next
    <2> QED
        BY <1>2, <1>3, <1>5, <1>6, FlowAppend
<1>8. /\ script' = script
      /\ SentPacket(e)' = NextPacket(script, turn[e], next)
      /\ SentAt(e)' = NextAt(script, turn[e], next)
    <2>1. pos \in [Ends -> Nat] /\ DOMAIN st = Ends /\ st = [f \in Ends |-> st[f]]
        BY DEF IInv, EndsOK
    <2>2. CASE /\ pos' = [pos EXCEPT ![e] = next]
               /\ StillWriting(e, "bytes") \/ StillWriting(e, "hexAck")
        BY <2>1, <2>2 DEF StillWriting, Goto, SentPacket, SentAt
    <2>3. CASE WriteReturns(e, "MSG_OK") /\ next = Packet(e).len
        <3>1. turn'[e] = turn[e] + 1 /\ st'[e] = "idle" /\ script' = script
            BY <1>1, <2>1, <2>3, WriteReturnsKeeps DEF WriteReturns, Return
        <3> QED
            BY <1>2, <2>3, <3>1 DEF SentPacket, SentAt, NextPacket, NextAt
    <2> QED
        BY <2>2, <2>3 DEF WriteHexByte
<1>9. /\ chan'[e] = chan[e] /\ chan'[Other(e)] = chan[Other(e)] \o <<x, y>>
      /\ chan[Other(e)] \in Seq(Bytes \cup Headers)
    BY TwoEnds DEF WriteHexByte, IInv, WireOK, x, y
<1>10. <<x, y>> \in Seq(Bytes \cup Headers) /\ units \o <<x, y>> = Append(Append(units, x), y)
    BY <1>1, Concats
<1>11. PICK s \in Seq(Bytes \cup Headers) : s = <<x, y>>
    BY <1>10
<1>12. Flow(script', units \o s, n, j, SentPacket(e)', SentAt(e)')
    BY <1>7, <1>8, <1>10, <1>11
<1> QED
    BY <1>9, <1>11, <1>12

(* One of them, for an end that may send unasked.                          *)
LEMMA AheadSends ==
    ASSUME Unreset, IInv, NEW e \in Ends, Ahead(e), Sends(e), NEW k \in Nat,
           DebugOf(script, e, k, turn[e]),
           NEW units \in Seq(Bytes \cup Headers), NEW n, NEW j, Stream(units, n, j, e)
    PROVE  /\ script' = script /\ log' = log /\ Recorded
           /\ Ahead(e)' /\ DebugOf(script, e, k, turn'[e])
           /\ st'[e] # "data"
           /\ turn'[e] \in Nat
           /\ chan'[e] = chan[e]
           /\ \E s \in Seq(Bytes \cup Headers) :
                 /\ chan'[Other(e)] = chan[Other(e)] \o s
                 /\ Flow(script', units \o s, n, j, SentPacket(e)', SentAt(e)')
           /\ LET f == Other(e) IN
                 /\ turn'[f] = turn[f] /\ st'[f] = st[f] /\ pos'[f] = pos[f]
                 /\ buf'[f] = buf[f] /\ hdr'[f] = hdr[f]
<1>1. Writer(e) /\ (st[e] # "idle" => Packet(e).type = "DEBUG")
    BY DEF Sends, WriteHeader, WriteByte, WriteHexByte, Ahead, IInv, EndsOK, EndInv
<1>2. /\ chan'[e] = chan[e]
      /\ \E s \in Seq(Bytes \cup Headers) :
            /\ chan'[Other(e)] = chan[Other(e)] \o s
            /\ Flow(script', units \o s, n, j, SentPacket(e)', SentAt(e)')
    <2>1. CASE WriteHexByte(e)
        BY <2>1, HexFlows
    <2>2. CASE WriteHeader(e) \/ WriteByte(e)
        <3>1. PICK x \in Bytes \cup Headers :
                    /\ chan'[Other(e)] = Append(chan[Other(e)], x)
                    /\ Flow(script', Append(units, x), n, j, SentPacket(e)', SentAt(e)')
            BY <2>2, HeaderFlows, ByteFlows
        <3>2. chan[Other(e)] \in Seq(Bytes \cup Headers)
            BY TwoEnds DEF IInv, WireOK
        <3>3. chan'[e] = chan[e]
            BY <2>2, HeaderFlows, ByteFlows
        <3>4. PICK s \in Seq(Bytes \cup Headers) : s = <<x>>
            BY Concats
        <3>5. Append(units, x) = units \o s /\ Append(chan[Other(e)], x) = chan[Other(e)] \o s
            BY <3>2, <3>4, Concats
        <3> QED
            BY <3>1, <3>3, <3>5
    <2> QED
        BY <2>1, <2>2 DEF Sends
<1>3. /\ turn[e] \in 1 .. Len(script) /\ Packet(e) = script[turn[e]]
      /\ script[turn[e]].from = e
      /\ turn[e] \in Nat
    BY <1>1, WriterFacts DEF Packet, Writer
<1>4. /\ \A f \in Ends : turn[f] \in Nat /\ st[f] \in AwaitingAck \cup {"idle", "bytes", "data"}
      /\ DOMAIN st = Ends /\ DOMAIN turn = Ends /\ DOMAIN pos = Ends
      /\ DOMAIN buf = Ends /\ DOMAIN hdr = Ends
    BY DEF IInv, EndsOK
<1>5. \/ /\ \E state \in {"bytes", "headerAck", "hexAck", "blockAck", "finalAck"} :
               /\ StillWriting(e, state)
               /\ state \in {"hexAck", "blockAck", "finalAck"} => Packet(e).type # "DEBUG" /\ st[e] = "bytes"
               /\ state = "bytes" => Packet(e).type = "DEBUG"
         /\ \E i : pos' = [pos EXCEPT ![e] = i]
      \/ WriteReturns(e, "MSG_OK") /\ Packet(e).type = "DEBUG"
    <2>1. CASE WriteHeader(e)
        BY <1>1, <1>3, <2>1, WriterFacts, SamePos DEF WriteHeader
    <2>2. CASE WriteByte(e)
        BY <1>1, <1>3, <2>2, WriterFacts DEF WriteByte
    <2>3. CASE WriteHexByte(e)
        BY <1>1, <1>3, <2>3, WriterFacts DEF WriteHexByte
    <2> QED
        BY <2>1, <2>2, <2>3 DEF Sends
<1>6. CASE \E state \in {"bytes", "headerAck"} :
               /\ StillWriting(e, state) /\ (state = "bytes" => Packet(e).type = "DEBUG")
               /\ \E i : pos' = [pos EXCEPT ![e] = i]
    <2>1. /\ script' = script /\ log' = log /\ outcome' = outcome /\ turn' = turn
          /\ buf' = buf /\ hdr' = hdr /\ st'[e] \in {"bytes", "headerAck"}
          /\ st'[e] = "bytes" => Packet(e).type = "DEBUG"
          /\ \A f \in Ends \ {e} : st'[f] = st[f] /\ pos'[f] = pos[f]
        BY <1>4, <1>6 DEF StillWriting, Goto
    <2>2. Ahead(e)' /\ Recorded
        BY <2>1 DEF Ahead, Packet, Recorded
    <2> QED
        BY <1>2, <1>3, <2>1, <2>2, TwoEnds
<1>7. CASE WriteReturns(e, "MSG_OK") /\ Packet(e).type = "DEBUG"
    <2>1. Recorded
        BY <1>1, <1>7, ConfirmStep
    <2>2. /\ script' = script /\ log' = log /\ turn'[e] = turn[e] + 1 /\ st'[e] = "idle"
          /\ \A f \in Ends \ {e} : /\ turn'[f] = turn[f] /\ st'[f] = st[f]
                                   /\ pos'[f] = pos[f] /\ buf'[f] = buf[f]
                                   /\ hdr'[f] = hdr[f]
        BY <1>4, <1>7 DEF WriteReturns, Return
    <2>3. DebugOf(script, e, k, turn'[e])
        BY <1>3, <1>7, <2>2 DEF DebugOf
    <2>4. Ahead(e)'
        BY <2>2 DEF Ahead
    <2>5. Other(e) \in Ends \ {e}
        BY TwoEnds
    <2>6. st'[e] # "data" /\ turn'[e] \in Nat
        BY <1>3, <2>2
    <2> HIDE DEF Recorded, DebugOf, Ahead
    <2> QED
        BY <1>2, <2>1, <2>2, <2>3, <2>4, <2>5, <2>6
<1> QED
    BY <1>1, <1>5, <1>6, <1>7

-----------------------------------------------------------------------------
(***************************************************************************)
(* Each phase, and each step that can be taken in it                       *)
(***************************************************************************)
LinkRest == (\A e \in Ends : ReadInv(e)) /\ LogInv /\ astray = {}

LEMMA LinkIs ==
    ASSUME NEW a \in Ends, NEW b \in Ends, b = Other(a), Together(a, b)',
           ReadInv(a)', ReadInv(b)', LogInv'
    PROVE  Linked'
<1>1. \A e \in Ends : e = a \/ e = b
    BY TwoEnds
<1> QED
    BY <1>1 DEF Linked

LEMMA StillRead ==
    ASSUME NEW f \in Ends, ReadInv(f), script' = script,
           turn'[f] = turn[f], st'[f] = st[f], pos'[f] = pos[f], buf'[f] = buf[f],
           hdr'[f] = hdr[f]
    PROVE  ReadInv(f)'
BY DEF ReadInv, Packet, DataByte

LEMMA NotReading == ASSUME NEW f \in Ends, st'[f] # "data" PROVE ReadInv(f)'
BY DEF ReadInv

LEMMA StillLogged == ASSUME LogInv, script' = script, log' = log PROVE LogInv'
BY DEF LogInv, WholePacket, DataByte

(* While nothing is on the wire to an end, it can only send.               *)
LEMMA Silent ==
    ASSUME IInv, NEW e \in Ends, chan[e] = <<>>, EndStep(e)
    PROVE  Sends(e)
BY DEF EndStep, Sends, HeaderAcked, HexBlockAcked, BlockAcked, FinalAcked, RejectLength,
       ReadHeader, ReadByte, Skip, Garble, Has

LEMMA FlowingSends ==
    ASSUME Unreset, IInv, LinkRest, NEW a \in Ends, NEW b \in Ends, b = Other(a),
           Flowing(a, b), Sends(a)
    PROVE  Linked' /\ Recorded
<1> DEFINE j == IF st[b] = "data" THEN pos[b] + 1 ELSE 0
<1>1. /\ chan[b] \in Seq(Bytes \cup Headers) /\ turn[b] \in Nat
      /\ Ahead(a) /\ DebugOf(script, a, turn[b], turn[a]) /\ Stream(chan[b], turn[b], j, a)
    BY DEF Flowing, IInv, EndsOK, WireOK
<1>2. /\ script' = script /\ log' = log /\ Recorded
      /\ Ahead(a)' /\ DebugOf(script, a, turn[b], turn'[a]) /\ st'[a] # "data"
      /\ chan'[a] = chan[a]
      /\ turn'[b] = turn[b] /\ st'[b] = st[b] /\ pos'[b] = pos[b]
      /\ buf'[b] = buf[b] /\ hdr'[b] = hdr[b]
      /\ \E s \in Seq(Bytes \cup Headers) :
            /\ chan'[b] = chan[b] \o s
            /\ Flow(script', chan[b] \o s, turn[b], j, SentPacket(a)', SentAt(a)')
    <2> HIDE DEF j
    <2> QED
        BY <1>1, AheadSends
<1>3. Flow(script', chan'[b], turn'[b], IF st'[b] = "data" THEN pos'[b] + 1 ELSE 0,
           SentPacket(a)', SentAt(a)')
    BY <1>2
<1>4. ReadInv(a)' /\ ReadInv(b)' /\ LogInv'
    BY <1>2, NotReading, StillRead, StillLogged DEF LinkRest
<1>5. Flowing(a, b)'
    BY <1>2, <1>3 DEF Flowing, Stream, Packet
<1> QED
    BY <1>2, <1>4, <1>5, LinkIs DEF Together

(* An end that has read all there was, and writes the next packet itself.  *)
LEMMA Swap ==
    ASSUME Unreset, IInv, NEW a \in Ends, NEW b \in Ends, b = Other(a),
           Flowing(a, b), Writer(b), st[b] = "idle"
    PROVE  Flowing(b, a)
<1>1. /\ turn[a] \in Nat /\ turn[b] \in 1 .. Len(script) /\ script[turn[b]].from = b
      /\ a # b /\ chan[b] \in Seq(Bytes \cup Headers) /\ script \in Seq(Packets)
    BY PacketFacts, TwoEnds DEF IInv, EndsOK, WireOK, Writer, Packet
<1>2. turn[a] = turn[b]
    BY <1>1 DEF Flowing, DebugOf
<1>3. st[a] = "idle"
    BY <1>1, <1>2 DEF Flowing, Ahead, IInv, EndsOK, EndInv, AwaitingAck, Writer, Packet
<1>4. chan[b] = <<>>
    <2>1. Flow(script, chan[b], turn[b], 0, turn[b], 0)
        BY <1>2, <1>3 DEF Flowing, Stream, SentPacket, SentAt
    <2>2. turn[b] \in Nat /\ 0 \in Nat
        BY <1>1
    <2> QED
        BY <1>1, <2>1, <2>2, FlowNone
<1>5. Stream(chan[a], turn[a], 0, b)
    BY <1>1, <1>2, NoFlow DEF Flowing, Stream, SentPacket, SentAt
<1> QED
    BY <1>1, <1>2, <1>3, <1>4, <1>5 DEF Flowing, Ahead, DebugOf

(* The next unit for the one behind, and what follows it.                  *)
LEMMA FlowingHead ==
    ASSUME Unreset, IInv, NEW a \in Ends, NEW b \in Ends, b = Other(a),
           Flowing(a, b), chan[b] # <<>>, NEW j,
           j = IF st[b] = "data" THEN pos[b] + 1 ELSE 0
    PROVE  LET n == turn[b] IN
           /\ n \in 1 .. Len(script) /\ j \in 0 .. script[n].len
           /\ Head(chan[b]) = Unit(script, n, j)
           /\ Stream(Tail(chan[b]), NextPacket(script, n, j), NextAt(script, n, j), a)
           /\ script[n].type = "DEBUG" /\ j = script[n].len => n < turn[a]
           /\ script[n].type # "DEBUG" =>
                 /\ turn[a] = n /\ Writer(a) /\ st[a] = "headerAck" /\ st[b] = "idle"
                 /\ Tail(chan[b]) = <<>>
<1> DEFINE n == turn[b]
<1>1. /\ chan[b] \in Seq(Bytes \cup Headers) /\ script \in Seq(Packets)
      /\ turn[a] \in Nat /\ n \in Nat
      /\ st[a] = "idle" \/ Writer(a)
    <2>1. /\ chan[b] \in Seq(Bytes \cup Headers) /\ script \in Seq(Packets)
          /\ turn[a] \in Nat /\ n \in Nat
        BY PacketFacts DEF IInv, EndsOK, WireOK
    <2>2. st[a] = "idle" \/ Writer(a)
        BY DEF IInv, EndsOK, EndInv, Flowing, Ahead, AwaitingAck
    <2> QED
        BY <2>1, <2>2
<1>2. Flow(script, chan[b], n, j, SentPacket(a), SentAt(a)) /\ j \in Nat
    BY DEF Flowing, Stream, IInv, EndsOK
<1>3. SentPacket(a) \in Nat /\ SentAt(a) \in Nat
    BY <1>1, SentFacts
<1>4. /\ n \in 1 .. Len(script) /\ j \in 0 .. script[n].len
      /\ Head(chan[b]) = Unit(script, n, j)
      /\ Before(n, j, SentPacket(a), SentAt(a))
      /\ Flow(script, Tail(chan[b]), NextPacket(script, n, j), NextAt(script, n, j),
              SentPacket(a), SentAt(a))
    BY <1>1, <1>2, <1>3, FlowHead
<1>5. n <= turn[a]
    BY DEF Flowing, DebugOf
<1>6. ASSUME n = turn[a]
      PROVE  /\ Writer(a) /\ st[a] # "idle" /\ Packet(a) = script[n]
             /\ st[a] = "headerAck" => script[n].type # "DEBUG" /\ pos[a] = 0
             /\ st[a] = "bytes" => script[n].type = "DEBUG" /\ pos[a] < script[n].len
    <2>1. st[a] # "idle"
        BY <1>1, <1>4, <1>6 DEF SentPacket, SentAt, Before
    <2> QED
        BY <1>1, <1>6, <2>1 DEF Flowing, Ahead, IInv, EndsOK, EndInv, AwaitingAck, Packet
<1>7. script[n].type = "DEBUG" /\ j = script[n].len => n < turn[a]
    <2> SUFFICES ASSUME script[n].type = "DEBUG", j = script[n].len, n = turn[a]
                 PROVE  FALSE
        BY <1>1, <1>5
    <2>1. st[a] = "bytes" /\ pos[a] < Packet(a).len /\ Writer(a)
        BY <1>6 DEF Flowing, Ahead
    <2>2. SentPacket(a) = n /\ SentAt(a) = pos[a] + 1
        BY <2>1, SentFacts
    <2> QED
        BY <1>4, <1>6, <2>1, <2>2, WriterFacts DEF Before
<1>8. ASSUME script[n].type # "DEBUG"
      PROVE  /\ turn[a] = n /\ Writer(a) /\ st[a] = "headerAck" /\ st[b] = "idle"
             /\ Tail(chan[b]) = <<>>
    <2>1. n = turn[a]
        BY <1>1, <1>5, <1>8 DEF Flowing, DebugOf
    <2>2. st[a] = "headerAck" /\ Writer(a) /\ pos[a] = 0
        BY <1>6, <1>8, <2>1 DEF Flowing, Ahead
    <2>3. st[b] = "idle" /\ j = 0
        BY <1>8 DEF Flowing, Packet
    <2>4. /\ SentPacket(a) = NextPacket(script, n, 0)
          /\ SentAt(a) = NextAt(script, n, 0)
        BY <2>1, <2>2, SentFacts
    <2>5. Tail(chan[b]) \in Seq(Bytes \cup Headers)
        BY <1>1
    <2>6. NextPacket(script, n, 0) \in Nat /\ NextAt(script, n, 0) \in Nat
        BY <1>1, <1>4, NextType
    <2>7. Flow(script, Tail(chan[b]), NextPacket(script, n, 0), NextAt(script, n, 0),
               NextPacket(script, n, 0), NextAt(script, n, 0))
        BY <1>4, <2>3, <2>4
    <2>8. Tail(chan[b]) = <<>>
        BY <1>1, <2>5, <2>6, <2>7, FlowNone
    <2> QED
        BY <2>1, <2>2, <2>3, <2>8
<1> QED
    BY <1>4, <1>7, <1>8 DEF Stream

(* What read_packet returns of a packet without contents.                  *)
LEMMA NoBytes ==
    ASSUME NEW n \in Nat, script[n].len = 0
    PROVE  WholePacket(n).cmd = script[n].type /\ WholePacket(n).bytes = <<>>
<1>1. [i \in 1 .. 0 |-> DataByte(n, i - 1)] = <<>>
    OBVIOUS
<1> QED
    BY <1>1 DEF WholePacket

(* One more byte of the contents.                                          *)
LEMMA MoreBytes ==
    ASSUME NEW n \in Nat, NEW p \in Nat
    PROVE  Append([i \in 1 .. p |-> DataByte(n, i - 1)], DataByte(n, p))
               = [i \in 1 .. (p + 1) |-> DataByte(n, i - 1)]
<1> DEFINE s == [i \in 1 .. p |-> DataByte(n, i - 1)]
           t == [i \in 1 .. (p + 1) |-> DataByte(n, i - 1)]
           x == DataByte(n, p)
<1>1. \A i \in 1 .. (p + 1) : DataByte(n, i - 1) \in Bytes
    BY HeaderTypes
<1>2. s \in Seq(Bytes) /\ Len(s) = p /\ t \in Seq(Bytes) /\ Len(t) = p + 1 /\ x \in Bytes
    BY <1>1
<1>3. /\ \A i \in 1 .. p : s[i] = t[i]
      /\ t[p + 1] = DataByte(n, (p + 1) - 1) /\ (p + 1) - 1 = p
    OBVIOUS
<1>4. t[p + 1] = x
    BY <1>3
<1> HIDE DEF s, t, x
<1>5. /\ Append(s, x) \in Seq(Bytes) /\ Len(Append(s, x)) = p + 1
      /\ \A i \in 1 .. (p + 1) : Append(s, x)[i] = t[i]
    BY <1>2, <1>3, <1>4
<1>6. Append(s, x) = t
    BY <1>2, <1>5, SeqEqual
<1> QED
    BY <1>6 DEF s, t, x

(* What a reader does with the next header: it takes it, acknowledges it   *)
(* unless it is of a DEBUG packet, and goes on to the contents or returns. *)
LEMMA HeaderStep ==
    ASSUME Unreset, IInv, LinkRest, NEW b \in Ends, Reader(b), ReadHeader(b),
           Head(chan[b]) = Unit(script, turn[b], 0), Len(log) = turn[b] - 1
    PROVE  LET p == Packet(b) IN
           /\ script' = script
           /\ IF p.type = "DEBUG" THEN Take(b) ELSE TakeAndSend(b, Ack)
           /\ p.len > 0 =>
                 /\ Goto(b, "data") /\ hdr' = [hdr EXCEPT ![b] = Header(turn[b], p.type, p.len)]
                 /\ pos' = pos /\ buf' = buf /\ ReadInv(b)'
                 /\ log' = log /\ outcome' = outcome
           /\ p.len = 0 =>
                 /\ Return(b) /\ Recorded /\ LogInv' /\ Len(log') = turn[b]
<1> DEFINE p == Packet(b)
           h == Head(chan[b])
<1>1. /\ Engaged(b) /\ turn[b] \in 1 .. Len(script) /\ p.len \in Nat
      /\ p.type \in {"MSG", "DEBUG"} /\ p = script[turn[b]] /\ turn[b] \in Nat
    BY ReaderFacts DEF Packet
<1>2. h = Header(turn[b], p.type, p.len) /\ h.cmd = p.type /\ h.len = p.len
    BY <1>1 DEF Unit, Header
<1>3. script' = script /\ (IF p.type = "DEBUG" THEN Take(b) ELSE TakeAndSend(b, Ack))
    BY <1>1, <1>2 DEF ReadHeader, Acknowledges, ReadReturns
<1>4. ASSUME p.len > 0
      PROVE  /\ Goto(b, "data") /\ hdr' = [hdr EXCEPT ![b] = Header(turn[b], p.type, p.len)]
             /\ pos' = pos /\ buf' = buf /\ ReadInv(b)'
             /\ log' = log /\ outcome' = outcome
    <2>1. /\ Goto(b, "data") /\ hdr' = [hdr EXCEPT ![b] = Header(turn[b], p.type, p.len)]
          /\ pos' = pos /\ buf' = buf /\ log' = log /\ outcome' = outcome
        BY <1>1, <1>2, <1>4 DEF ReadHeader
    <2>2. /\ pos[b] = 0 /\ buf[b] = <<>>
          /\ hdr'[b] = Header(turn[b], p.type, p.len) /\ turn'[b] = turn[b]
        BY <2>1 DEF ReadHeader, Goto, IInv, EndsOK, EndInv
    <2>3. [i \in 1 .. 0 |-> DataByte(turn[b], i - 1)] = <<>>
        OBVIOUS
    <2>4. ReadInv(b)'
        <3>1. Packet(b)' = p
            BY <1>3, <2>2 DEF Packet
        <3>2. \A i : DataByte(turn[b], i)' = DataByte(turn[b], i)
            BY <2>2 DEF DataByte
        <3> HIDE DEF p
        <3> QED
            BY <2>1, <2>2, <2>3, <3>1 DEF ReadInv, Header, DataByte
    <2> QED
        BY <2>1, <2>4
<1>5. ASSUME p.len = 0
      PROVE  Return(b) /\ Recorded /\ LogInv' /\ Len(log') = turn[b]
    <2>1. ReadReturns(b, p.type, <<>>)
        BY <1>1, <1>2, <1>5 DEF ReadHeader
    <2>2. ReadReturns(b, WholePacket(turn[b]).cmd, WholePacket(turn[b]).bytes)
        BY <1>1, <1>5, <2>1, NoBytes
    <2> QED
        BY <1>1, <2>1, <2>2, HandOverStep DEF LinkRest, ReadReturns
<1> QED
    BY <1>3, <1>4, <1>5

(* And with the next byte: it acknowledges the last of a block or of the   *)
(* packet.                                                                 *)
LEMMA ByteStep ==
    ASSUME Unreset, IInv, LinkRest, NEW b \in Ends, ReadByte(b),
           Head(chan[b]) = Unit(script, turn[b], pos[b] + 1), Len(log) = turn[b] - 1
    PROVE  LET p == Packet(b)
               next == pos[b] + 1
           IN
           /\ script' = script /\ Reader(b) /\ pos[b] < p.len
           /\ IF p.type # "DEBUG" /\ (next = p.len \/ next % BLOCK_SIZE = 0)
              THEN TakeAndSend(b, Ack) ELSE Take(b)
           /\ next < p.len =>
                 /\ Goto(b, "data") /\ hdr' = hdr
                 /\ pos' = [pos EXCEPT ![b] = next] /\ ReadInv(b)'
                 /\ \A e \in Ends \ {b} : buf'[e] = buf[e]
                 /\ log' = log /\ outcome' = outcome
           /\ next = p.len =>
                 /\ Return(b) /\ Recorded /\ LogInv' /\ Len(log') = turn[b]
<1> DEFINE p == Packet(b)
           next == pos[b] + 1
           n == turn[b]
           read == [i \in 1 .. next |-> DataByte(n, i - 1)]
<1>1. /\ st[b] = "data" /\ Reader(b) /\ pos[b] < hdr[b].len
      /\ hdr[b] = Header(turn[b], p.type, p.len)
      /\ buf[b] = [i \in 1 .. pos[b] |-> DataByte(n, i - 1)]
    BY DEF ReadByte, IInv, EndsOK, EndInv, LinkRest, ReadInv
<1>2. /\ Engaged(b) /\ n \in 1 .. Len(script) /\ p.len \in Nat
      /\ p.type \in {"MSG", "DEBUG"} /\ p = script[n] /\ n \in Nat /\ pos[b] \in Nat
    BY <1>1, ReaderFacts DEF Packet
<1>3. hdr[b].cmd = p.type /\ hdr[b].len = p.len
    BY <1>1 DEF Header
<1>4. Head(chan[b]) = DataByte(n, pos[b])
    <2>1. pos[b] + 1 # 0 /\ (pos[b] + 1) - 1 = pos[b]
        BY <1>2
    <2> QED
        BY <2>1 DEF Unit
<1>5. Append(buf[b], Head(chan[b])) = read
    BY <1>1, <1>2, <1>4, MoreBytes
<1>6. IF p.type # "DEBUG" /\ (next = p.len \/ next % BLOCK_SIZE = 0)
      THEN TakeAndSend(b, Ack) ELSE Take(b)
    BY <1>3 DEF ReadByte, Acknowledges
<1>7. script' = script
    BY DEF ReadByte, ReadReturns
<1>8. ASSUME next < p.len
      PROVE  /\ Goto(b, "data") /\ hdr' = hdr
             /\ pos' = [pos EXCEPT ![b] = next] /\ ReadInv(b)'
             /\ \A e \in Ends \ {b} : buf'[e] = buf[e]
             /\ log' = log /\ outcome' = outcome
    <2>1. /\ Goto(b, "data") /\ hdr' = hdr /\ pos' = [pos EXCEPT ![b] = next]
          /\ buf' = [buf EXCEPT ![b] = read] /\ log' = log /\ outcome' = outcome
        <3>1. next # hdr[b].len
            BY <1>2, <1>3, <1>8
        <3>2. /\ Goto(b, "data") /\ hdr' = hdr /\ pos' = [pos EXCEPT ![b] = next]
              /\ buf' = [buf EXCEPT ![b] = Append(buf[b], Head(chan[b]))]
              /\ log' = log /\ outcome' = outcome
            BY <3>1 DEF ReadByte
        <3> HIDE DEF read
        <3> QED
            BY <1>5, <3>2
    <2>2. /\ pos'[b] = next /\ buf'[b] = read /\ turn'[b] = n /\ hdr'[b] = hdr[b]
          /\ \A e \in Ends \ {b} : buf'[e] = buf[e]
        BY <2>1 DEF Goto, IInv, EndsOK
    <2>3. Packet(b)' = p
        BY <1>7, <2>2 DEF Packet
    <2> HIDE DEF p
    <2>4. buf'[b] = [i \in 1 .. pos'[b] |-> DataByte(turn'[b], i - 1)]
        BY <2>2
    <2>5. ReadInv(b)'
        BY <1>1, <2>2, <2>3, <2>4 DEF ReadInv, Header, DataByte
    <2> QED
        BY <2>1, <2>2, <2>5
<1>9. ASSUME next = p.len
      PROVE  Return(b) /\ Recorded /\ LogInv' /\ Len(log') = n
    <2>1. ReadReturns(b, p.type, read)
        BY <1>3, <1>5, <1>9 DEF ReadByte
    <2>2. WholePacket(n).cmd = p.type /\ WholePacket(n).bytes = read
        BY <1>2, <1>9 DEF WholePacket
    <2>3. ReadReturns(b, WholePacket(n).cmd, WholePacket(n).bytes)
        BY <2>1, <2>2
    <2> QED
        BY <1>2, <2>1, <2>3, HandOverStep DEF LinkRest, ReadReturns
<1> QED
    BY <1>1, <1>3, <1>6, <1>7, <1>8, <1>9

LEMMA FlowingReads ==
    ASSUME Unreset, IInv, LinkRest, NEW a \in Ends, NEW b \in Ends, b = Other(a),
           Flowing(a, b), EndStep(b), ~Sends(b), ~RejectLength(b)
    PROVE  Linked' /\ Recorded
<1> DEFINE n == turn[b]
           j == IF st[b] = "data" THEN pos[b] + 1 ELSE 0
           p == Packet(b)
<1>1. chan[b] # <<>>
    BY Silent
<1>2. /\ n \in 1 .. Len(script) /\ j \in 0 .. p.len /\ p = script[n]
      /\ Head(chan[b]) = Unit(script, n, j)
      /\ Stream(Tail(chan[b]), NextPacket(script, n, j), NextAt(script, n, j), a)
      /\ p.type = "DEBUG" /\ j = p.len => n < turn[a]
      /\ p.type # "DEBUG" =>
            /\ turn[a] = n /\ Writer(a) /\ st[a] = "headerAck" /\ st[b] = "idle"
            /\ Tail(chan[b]) = <<>>
    BY <1>1, FlowingHead DEF Packet
<1>3. /\ n \in Nat /\ p.len \in Nat /\ p.type \in {"MSG", "DEBUG"}
      /\ pos[b] \in Nat /\ Len(log) = n - 1
      /\ a # b /\ a = Other(b) /\ Ends = {a, b} /\ chan[a] = <<>>
      /\ st[b] \in {"idle", "data"} /\ chan[b] \in Seq(Bytes \cup Headers)
      /\ DebugOf(script, a, n, turn[a]) /\ Ahead(a) /\ turn[a] \in Nat
    <2>1. /\ script[n].len \in Nat /\ script[n].type \in {"MSG", "DEBUG"}
        BY <1>2, PacketFacts
    <2>2. p.len \in Nat /\ p.type \in {"MSG", "DEBUG"}
        <3> HIDE DEF p
        <3> QED
            BY <1>2, <2>1
    <2>3. n \in Nat /\ pos[b] \in Nat /\ turn[a] \in Nat /\ chan[b] \in Seq(Bytes \cup Headers)
        BY DEF IInv, EndsOK, WireOK
    <2>4. a # b /\ a = Other(b) /\ Ends = {a, b}
        BY TwoEnds
    <2>5. /\ Len(log) = n - 1 /\ chan[a] = <<>> /\ st[b] \in {"idle", "data"}
          /\ DebugOf(script, a, n, turn[a]) /\ Ahead(a)
        BY DEF Flowing
    <2> QED
        BY <2>2, <2>3, <2>4, <2>5
<1>4. /\ DOMAIN st = Ends /\ DOMAIN turn = Ends /\ DOMAIN pos = Ends
      /\ DOMAIN buf = Ends /\ DOMAIN hdr = Ends
    BY DEF IInv, EndsOK
<1>5. Head(chan[b]).kind = (IF st[b] = "idle" THEN "header" ELSE "byte")
    <2>1. CASE st[b] = "idle"
        BY <1>2, <2>1 DEF Unit, Header
    <2>2. CASE st[b] = "data"
        <3>1. j # 0
            BY <1>3, <2>2
        <3> HIDE DEF j
        <3> QED
            BY <1>2, <2>2, <3>1 DEF Unit, DataByte
    <2> QED
        BY <1>3, <2>1, <2>2
<1>6. (ReadHeader(b) /\ st[b] = "idle" /\ Reader(b)) \/ (ReadByte(b) /\ st[b] = "data")
    <2>1. ~Skip(b) /\ ~Garble(b)
        BY <1>3, <1>5 DEF Skip, Garble, Has
    <2> QED
        BY <1>3, <2>1 DEF EndStep, Sends, HeaderAcked, HexBlockAcked, BlockAcked,
           FinalAcked, ReadHeader, ReadByte
<1>7. CASE ReadHeader(b) /\ st[b] = "idle" /\ Reader(b)
    <2>1. j = 0 /\ Head(chan[b]) = Unit(script, n, 0)
        BY <1>2, <1>7
    <2>2. /\ script' = script
          /\ IF p.type = "DEBUG" THEN Take(b) ELSE TakeAndSend(b, Ack)
          /\ p.len > 0 =>
                /\ Goto(b, "data") /\ hdr' = [hdr EXCEPT ![b] = Header(turn[b], p.type, p.len)]
                /\ pos' = pos /\ buf' = buf /\ ReadInv(b)'
                /\ log' = log /\ outcome' = outcome
          /\ p.len = 0 => Return(b) /\ Recorded /\ LogInv' /\ Len(log') = n
        BY <1>3, <1>7, <2>1, HeaderStep
    <2>3. /\ turn'[a] = turn[a] /\ st'[a] = st[a] /\ pos'[a] = pos[a]
          /\ buf'[a] = buf[a] /\ hdr'[a] = hdr[a]
          /\ p.len > 0 => st'[b] = "data" /\ pos'[b] = 0 /\ turn'[b] = n
          /\ p.len = 0 => st'[b] = "idle" /\ turn'[b] = n + 1
        BY <1>3, <1>4, <1>7, <2>2 DEF Goto, Return, IInv, EndsOK, EndInv
    <2>4. LogInv' /\ Recorded /\ Len(log') = IF p.len = 0 THEN n ELSE n - 1
        BY <1>3, <2>2, StillLogged DEF LinkRest, Recorded
    <2>5. ReadInv(a)' /\ ReadInv(b)'
        BY <1>3, <2>2, <2>3, StillRead, NotReading DEF LinkRest
    <2>6. CASE p.type = "DEBUG"
        <3>1. chan'[b] = Tail(chan[b]) /\ chan'[a] = <<>>
            BY <1>1, <1>3, <2>2, <2>6, TakeKeeps
        <3>2. DebugOf(script, a, turn'[b], turn[a])
            BY <1>2, <1>3, <2>1, <2>3, <2>6 DEF DebugOf
        <3>3. SentPacket(a)' = SentPacket(a) /\ SentAt(a)' = SentAt(a)
            BY <2>2, <2>3 DEF SentPacket, SentAt
        <3>4. Flow(script, chan'[b], turn'[b], IF st'[b] = "data" THEN pos'[b] + 1 ELSE 0,
                   SentPacket(a), SentAt(a))
            BY <1>2, <1>3, <2>1, <2>3, <3>1 DEF Stream, NextPacket, NextAt
        <3>5. st'[b] = "data" => Packet(b)' = p
            BY <1>3, <2>2, <2>3 DEF Packet
        <3>6. Ahead(a)'
            BY <1>3, <2>2, <2>3 DEF Ahead, Packet
        <3>7. Len(log') = turn'[b] - 1 /\ st'[b] \in {"idle", "data"}
            BY <1>3, <2>3, <2>4
        <3>8. Flowing(a, b)'
            BY <2>2, <2>3, <2>6, <3>1, <3>2, <3>3, <3>4, <3>5, <3>6, <3>7
                DEF Flowing, Stream
        <3> QED
            BY <2>4, <2>5, <3>8, LinkIs DEF Together
    <2>7. CASE p.type # "DEBUG"
        <3>1. chan'[b] = <<>> /\ chan'[a] = Append(<<>>, Ack)
            <4>1. Ack \in Bytes \cup Headers
                BY HeaderTypes
            <4>2. chan'[b] = Tail(chan[b]) /\ chan'[a] = Append(chan[a], Ack)
                BY <1>1, <1>3, <2>2, <2>7, <4>1, TakeAndSendKeeps
            <4> QED
                BY <1>2, <1>3, <2>7, <4>2
        <3>2. Append(<<>>, Ack) = <<Ack>>
            OBVIOUS
        <3>3. /\ Writer(a)' /\ Packet(a)' = p /\ turn'[a] = n
            BY <1>2, <2>2, <2>3, <2>7 DEF Writer, Engaged, Packet
        <3>4. CASE p.len > 0
            <4>1. HeaderRead(a, b)'
                BY <1>2, <2>3, <2>4, <2>7, <3>1, <3>2, <3>3, <3>4
                    DEF HeaderRead, Within, Ack, Header
            <4> QED
                BY <2>4, <2>5, <4>1, LinkIs DEF Together
        <3>5. CASE p.len = 0
            <4>1. turn'[b] = n + 1 /\ st'[b] = "idle" /\ Len(log') = n
                BY <2>3, <2>4, <3>5
            <4>2. /\ <<Ack>> # <<>> /\ Head(<<Ack>>) = Ack /\ Tail(<<Ack>>) = <<>>
                OBVIOUS
            <4>3. Flow(script', <<>>, n + 1, 0, SentPacket(b)', SentAt(b)')
                BY <1>3, <4>1, NoFlow DEF SentPacket, SentAt
            <4>4. DebugOf(script', b, n + 1, turn'[b])
                BY <1>3, <4>1 DEF DebugOf
            <4>5. Ahead(b)' /\ Ack' = Ack
                BY <4>1 DEF Ahead, Ack, Header
            <4>6. st'[a] = "headerAck" /\ Tail(chan'[a]) = <<>> /\ chan'[a] # <<>>
                  /\ Head(chan'[a]) = Ack
                BY <1>2, <2>3, <2>7, <3>1, <3>2, <4>2
            <4>7. Delivered(a, b)'
                BY <2>7, <3>1, <3>3, <3>5, <4>1, <4>3, <4>4, <4>5, <4>6
                    DEF Delivered, Stream
            <4> QED
                BY <2>4, <2>5, <4>7, LinkIs DEF Together
        <3> QED
            BY <1>3, <3>4, <3>5
    <2> QED
        BY <2>6, <2>7
<1>8. CASE ReadByte(b) /\ st[b] = "data"
    <2> DEFINE next == pos[b] + 1
    <2>1. j = next /\ Head(chan[b]) = Unit(script, n, next) /\ p.type = "DEBUG"
        BY <1>2, <1>8
    <2>2. /\ script' = script /\ Take(b) /\ pos[b] < p.len
          /\ next < p.len =>
                /\ Goto(b, "data") /\ hdr' = hdr
                /\ pos' = [pos EXCEPT ![b] = next] /\ ReadInv(b)'
                /\ \A e \in Ends \ {b} : buf'[e] = buf[e]
                /\ log' = log /\ outcome' = outcome
          /\ next = p.len => Return(b) /\ Recorded /\ LogInv' /\ Len(log') = n
        BY <1>3, <1>8, <2>1, ByteStep
    <2>3. /\ turn'[a] = turn[a] /\ st'[a] = st[a] /\ pos'[a] = pos[a]
          /\ buf'[a] = buf[a] /\ hdr'[a] = hdr[a]
          /\ next < p.len => st'[b] = "data" /\ pos'[b] = next /\ turn'[b] = n
          /\ next = p.len => st'[b] = "idle" /\ turn'[b] = n + 1
          /\ next < p.len \/ next = p.len
        BY <1>3, <1>4, <2>2 DEF Goto, Return
    <2>4. LogInv' /\ Recorded /\ Len(log') = IF next = p.len THEN n ELSE n - 1
        BY <1>3, <2>2, <2>3, StillLogged DEF LinkRest, Recorded
    <2>5. ReadInv(a)' /\ ReadInv(b)'
        BY <1>3, <2>2, <2>3, StillRead, NotReading DEF LinkRest
    <2>6. chan'[b] = Tail(chan[b]) /\ chan'[a] = <<>>
        BY <1>1, <1>3, <2>2, TakeKeeps
    <2>7. DebugOf(script, a, turn'[b], turn[a])
        BY <1>2, <1>3, <2>1, <2>3 DEF DebugOf
    <2>8. SentPacket(a)' = SentPacket(a) /\ SentAt(a)' = SentAt(a)
        BY <2>2, <2>3 DEF SentPacket, SentAt
    <2>9. Flow(script, chan'[b], turn'[b], IF st'[b] = "data" THEN pos'[b] + 1 ELSE 0,
               SentPacket(a), SentAt(a))
        BY <1>2, <1>3, <2>1, <2>3, <2>6 DEF Stream, NextPacket, NextAt
    <2>10. st'[b] = "data" => Packet(b)' = p
        BY <1>3, <2>2, <2>3 DEF Packet
    <2>11. Ahead(a)'
        BY <1>3, <2>2, <2>3 DEF Ahead, Packet
    <2>12. Len(log') = turn'[b] - 1 /\ st'[b] \in {"idle", "data"}
        BY <1>3, <2>3, <2>4
    <2>13. Flowing(a, b)'
        BY <2>1, <2>2, <2>6, <2>7, <2>8, <2>9, <2>10, <2>11, <2>12, <2>3 DEF Flowing, Stream
    <2> QED
        BY <2>4, <2>5, <2>13, LinkIs DEF Together
<1> QED
    BY <1>6, <1>7, <1>8

(* A writer that waits for an acknowledgement has nothing to send.         *)
LEMMA WaitingTakes ==
    ASSUME IInv, NEW a \in Ends, st[a] \in AwaitingAck, EndStep(a),
           chan[a] # <<>>, Head(chan[a]) = Ack
    PROVE  /\ st[a] = "headerAck" => HeaderAcked(a)
           /\ st[a] = "hexAck" => HexBlockAcked(a)
           /\ st[a] = "blockAck" => BlockAcked(a)
           /\ st[a] = "finalAck" => FinalAcked(a)
           /\ Take(a)
BY HeaderTypes DEF EndStep, WriteHeader, WriteByte, WriteHexByte, HeaderAcked,
   HexBlockAcked, BlockAcked, FinalAcked, RejectLength, ReadHeader, ReadByte, Skip, Garble,
   Has, AwaitingAck

LEMMA WithinFacts ==
    ASSUME Unreset, IInv, LinkRest, NEW a \in Ends, NEW b \in Ends, b = Other(a),
           Within(a, b)
    PROVE  /\ turn[a] = turn[b] /\ turn[b] \in 1 .. Len(script) /\ turn[b] \in Nat
           /\ Packet(a) = Packet(b) /\ Packet(b) = script[turn[b]]
           /\ Packet(b).len \in Nat /\ Packet(b).type # "DEBUG" /\ ~Packet(b).hex
           /\ pos[a] \in Nat /\ pos[b] \in Nat /\ pos[b] < Packet(b).len
           /\ Writer(a) /\ st[b] = "data" /\ Len(log) = turn[b] - 1
           /\ hdr[b] = Header(turn[b], Packet(b).type, Packet(b).len)
           /\ a # b /\ a = Other(b) /\ Ends = {a, b}
           /\ chan[a] \in Seq(Bytes \cup Headers) /\ chan[b] \in Seq(Bytes \cup Headers)
           /\ DOMAIN st = Ends /\ DOMAIN turn = Ends /\ DOMAIN pos = Ends
           /\ DOMAIN buf = Ends /\ DOMAIN hdr = Ends
<1>1. /\ turn[a] = turn[b] /\ Writer(a) /\ st[b] = "data" /\ Len(log) = turn[b] - 1
      /\ Packet(a).type # "DEBUG" /\ Packet(a) = Packet(b) /\ Packet(b) = script[turn[b]]
    BY DEF Within, Packet
<1>2. /\ turn[b] \in 1 .. Len(script) /\ turn[b] \in Nat /\ Packet(b).len \in Nat
      /\ pos[a] \in Nat
    BY <1>1, WriterFacts
<1>3. ~Packet(b).hex
    BY <1>1, <1>2, HexOnlyDebug
<1>4. /\ hdr[b] = Header(turn[b], Packet(b).type, Packet(b).len) /\ pos[b] < hdr[b].len
      /\ pos[b] \in Nat
    BY <1>1 DEF LinkRest, ReadInv, IInv, EndsOK, EndInv
<1>5. pos[b] < Packet(b).len
    BY <1>4 DEF Header
<1>6. /\ chan[a] \in Seq(Bytes \cup Headers) /\ chan[b] \in Seq(Bytes \cup Headers)
      /\ DOMAIN st = Ends /\ DOMAIN turn = Ends /\ DOMAIN pos = Ends
      /\ DOMAIN buf = Ends /\ DOMAIN hdr = Ends
    BY DEF IInv, EndsOK, WireOK
<1> QED
    BY <1>1, <1>2, <1>3, <1>4, <1>5, <1>6, TwoEnds

(* Nothing but its writer moves while the reader waits for a byte.         *)
LEMMA ReaderWaits ==
    ASSUME NEW b \in Ends, st[b] = "data", chan[b] = <<>>
    PROVE  ~EndStep(b)
BY DEF EndStep, WriteHeader, WriteByte, WriteHexByte, HeaderAcked, HexBlockAcked,
   BlockAcked, FinalAcked, RejectLength, ReadHeader, ReadByte, Skip, Garble, Has

(* The writer goes on within its packet, and the reader stays.             *)
LEMMA WriterOn ==
    ASSUME Unreset, IInv, LinkRest, NEW a \in Ends, NEW b \in Ends, b = Other(a),
           Within(a, b), NEW state \in {"bytes", "blockAck", "finalAck"},
           StillWriting(a, state), NEW i \in Nat, pos' = [pos EXCEPT ![a] = i]
    PROVE  /\ Within(a, b)' /\ st'[a] = state /\ pos'[a] = i
           /\ pos'[b] = pos[b] /\ turn' = turn /\ script' = script
           /\ ReadInv(a)' /\ ReadInv(b)' /\ LogInv' /\ Recorded
<1>1. /\ script' = script /\ turn' = turn /\ buf' = buf /\ hdr' = hdr /\ log' = log
      /\ outcome' = outcome /\ st'[a] = state /\ st'[b] = st[b]
      /\ pos'[a] = i /\ pos'[b] = pos[b]
    BY WithinFacts DEF StillWriting, Goto
<1>2. ReadInv(a)' /\ ReadInv(b)' /\ LogInv'
    BY <1>1, NotReading, StillRead, StillLogged DEF LinkRest
<1>3. Within(a, b)'
    BY <1>1 DEF Within, Writer, Engaged, Packet
<1> QED
    BY <1>1, <1>2, <1>3 DEF Recorded

LEMMA HeaderReadSteps ==
    ASSUME Unreset, IInv, LinkRest, NEW a \in Ends, NEW b \in Ends, b = Other(a),
           HeaderRead(a, b), EndStep(a) \/ EndStep(b)
    PROVE  Linked' /\ Recorded
<1>1. Within(a, b) /\ st[a] = "headerAck" /\ pos[b] = 0 /\ pos[a] = 0
    BY DEF HeaderRead, IInv, EndsOK, EndInv
<1>2. /\ chan[a] # <<>> /\ Head(chan[a]) = Ack /\ Tail(chan[a]) = <<>>
      /\ chan[b] = <<>>
    <2>1. <<Ack>> # <<>> /\ Head(<<Ack>>) = Ack /\ Tail(<<Ack>>) = <<>>
        OBVIOUS
    <2> QED
        BY <2>1 DEF HeaderRead
<1>3. HeaderAcked(a) /\ Take(a)
    <2>1. ~EndStep(b)
        BY <1>1, <1>2, ReaderWaits DEF Within
    <2> QED
        BY <1>1, <1>2, <2>1, WaitingTakes DEF AwaitingAck
<1>4. StillWriting(a, "bytes") /\ UNCHANGED pos
    <2>1. Packet(a).len > 0 /\ Ack.cmd = "ACK"
        BY <1>1, WithinFacts, HeaderTypes
    <2> QED
        BY <1>2, <1>3, <2>1 DEF HeaderAcked
<1>5. chan'[a] = <<>> /\ chan'[b] = <<>>
    BY <1>2, <1>3, TakeKeeps
<1>6. /\ Within(a, b)' /\ st'[a] = "bytes" /\ pos'[a] = 0
      /\ pos'[b] = 0 /\ turn' = turn /\ script' = script
      /\ ReadInv(a)' /\ ReadInv(b)' /\ LogInv' /\ Recorded
    <2>1. pos' = [pos EXCEPT ![a] = pos[a]]
        BY <1>4, SamePos
    <2>2. pos[a] \in Nat
        BY <1>1, WithinFacts
    <2> QED
        BY <1>1, <1>4, <2>1, <2>2, WriterOn
<1>7. Flow(script', <<>>, turn'[b], pos'[b] + 1, SentPacket(a)', SentAt(a)')
    <2>1. SentPacket(a)' = turn[b] /\ SentAt(a)' = 1
        BY <1>1, <1>6, WithinFacts DEF SentPacket, SentAt, NextPacket, NextAt
    <2> QED
        BY <1>1, <1>6, <2>1, WithinFacts, NoFlow
<1>8. Sending(a, b)'
    <2>1. \A k \in (pos'[b] + 1) .. pos'[a] : FALSE
        BY <1>6
    <2> QED
        BY <1>5, <1>6, <1>7, <2>1 DEF Sending, Stream
<1> QED
    BY <1>6, <1>8, LinkIs DEF Together

LEMMA BlockReadSteps ==
    ASSUME Unreset, IInv, LinkRest, NEW a \in Ends, NEW b \in Ends, b = Other(a),
           BlockRead(a, b), EndStep(a) \/ EndStep(b)
    PROVE  Linked' /\ Recorded
<1>1. Within(a, b) /\ st[a] = "blockAck" /\ pos[b] = pos[a]
    BY DEF BlockRead
<1>2. /\ chan[a] # <<>> /\ Head(chan[a]) = Ack /\ Tail(chan[a]) = <<>>
      /\ chan[b] = <<>>
    <2>1. <<Ack>> # <<>> /\ Head(<<Ack>>) = Ack /\ Tail(<<Ack>>) = <<>>
        OBVIOUS
    <2> QED
        BY <2>1 DEF BlockRead
<1>3. BlockAcked(a) /\ Take(a)
    <2>1. ~EndStep(b)
        BY <1>1, <1>2, ReaderWaits DEF Within
    <2> QED
        BY <1>1, <1>2, <2>1, WaitingTakes DEF AwaitingAck
<1>4. StillWriting(a, "bytes") /\ UNCHANGED pos
    BY <1>3 DEF BlockAcked
<1>5. chan'[a] = <<>> /\ chan'[b] = <<>>
    BY <1>2, <1>3, TakeKeeps
<1>6. /\ Within(a, b)' /\ st'[a] = "bytes" /\ pos'[a] = pos[b]
      /\ pos'[b] = pos[b] /\ turn' = turn /\ script' = script
      /\ ReadInv(a)' /\ ReadInv(b)' /\ LogInv' /\ Recorded
    <2>1. pos' = [pos EXCEPT ![a] = pos[a]]
        BY <1>4, SamePos
    <2>2. pos[a] \in Nat
        BY <1>1, WithinFacts
    <2> QED
        BY <1>1, <1>4, <2>1, <2>2, WriterOn
<1>7. Flow(script', <<>>, turn'[b], pos'[b] + 1, SentPacket(a)', SentAt(a)')
    <2>1. SentPacket(a)' = turn[b] /\ SentAt(a)' = pos[b] + 1
        BY <1>1, <1>6, WithinFacts DEF SentPacket, SentAt, NextPacket, NextAt
    <2> QED
        BY <1>1, <1>6, <2>1, WithinFacts, NoFlow
<1>8. Sending(a, b)'
    <2>1. \A k \in (pos'[b] + 1) .. pos'[a] : FALSE
        BY <1>1, <1>6, WithinFacts
    <2> QED
        BY <1>5, <1>6, <1>7, <2>1 DEF Sending, Stream
<1> QED
    BY <1>6, <1>8, LinkIs DEF Together

(* The reader is not ahead of the writer.                                  *)
LEMMA SendingFacts ==
    ASSUME Unreset, IInv, LinkRest, NEW a \in Ends, NEW b \in Ends, b = Other(a),
           Sending(a, b)
    PROVE  LET n == turn[b] IN
           /\ Within(a, b) /\ chan[a] = <<>>
           /\ pos[b] <= pos[a]
           /\ st[a] # "finalAck" => pos[a] < Packet(b).len
           /\ st[a] = "finalAck" => pos[a] = Packet(b).len
           /\ st[a] = "blockAck" => pos[a] % BLOCK_SIZE = 0 /\ pos[b] < pos[a]
           /\ SentPacket(a) = NextPacket(script, n, pos[a])
           /\ SentAt(a) = NextAt(script, n, pos[a])
           /\ chan[b] # <<>> =>
                 /\ Head(chan[b]) = Unit(script, n, pos[b] + 1)
                 /\ pos[b] < pos[a]
                 /\ Flow(script, Tail(chan[b]), NextPacket(script, n, pos[b] + 1),
                         NextAt(script, n, pos[b] + 1), SentPacket(a), SentAt(a))
<1> DEFINE n == turn[b]
           len == Packet(b).len
<1>1. /\ Within(a, b) /\ chan[a] = <<>> /\ st[a] \in {"bytes", "blockAck", "finalAck"}
      /\ Flow(script, chan[b], n, pos[b] + 1, SentPacket(a), SentAt(a))
      /\ st[a] = "blockAck" => pos[b] < pos[a]
    BY DEF Sending, Stream
<1>2. /\ turn[a] = n /\ n \in 1 .. Len(script) /\ n \in Nat /\ len \in Nat
      /\ Packet(a) = Packet(b) /\ Packet(b) = script[n]
      /\ pos[a] \in Nat /\ pos[b] \in Nat /\ pos[b] < len /\ Writer(a)
      /\ chan[b] \in Seq(Bytes \cup Headers) /\ script \in Seq(Packets)
    BY <1>1, WithinFacts, PacketFacts
<1>3. /\ st[a] # "finalAck" => pos[a] < len
      /\ st[a] = "finalAck" => pos[a] = len
      /\ st[a] = "blockAck" => pos[a] % BLOCK_SIZE = 0
    BY <1>1, <1>2 DEF IInv, EndsOK, EndInv
<1>4. /\ SentPacket(a) = NextPacket(script, n, pos[a])
      /\ SentAt(a) = NextAt(script, n, pos[a])
      /\ SentPacket(a) \in Nat /\ SentAt(a) \in Nat
    BY <1>1, <1>2, SentFacts
<1>5. IF st[a] = "finalAck"
      THEN SentPacket(a) = n + 1 /\ SentAt(a) = 0
      ELSE SentPacket(a) = n /\ SentAt(a) = pos[a] + 1
    BY <1>2, <1>3, <1>4 DEF NextPacket, NextAt
<1>6. CASE chan[b] = <<>>
    <2>1. n = SentPacket(a) /\ pos[b] + 1 = SentAt(a)
        BY <1>1, <1>6, FlowEnd
    <2>2. pos[b] <= pos[a]
        BY <1>2, <1>5, <2>1
    <2> QED
        BY <1>1, <1>3, <1>4, <1>6, <2>2
<1>7. CASE chan[b] # <<>>
    <2>1. PICK j \in Nat : j = pos[b] + 1
        BY <1>2
    <2>2. Flow(script, chan[b], n, j, SentPacket(a), SentAt(a))
        BY <1>1, <2>1
    <2> HIDE DEF n, len
    <2>3. /\ Head(chan[b]) = Unit(script, n, j)
          /\ Before(n, j, SentPacket(a), SentAt(a))
          /\ Flow(script, Tail(chan[b]), NextPacket(script, n, j),
                  NextAt(script, n, j), SentPacket(a), SentAt(a))
        BY <1>2, <1>4, <1>7, <2>2, FlowHead
    <2>4. pos[b] < pos[a]
        BY <1>2, <1>3, <1>5, <2>1, <2>3 DEF Before
    <2> QED
        BY <1>1, <1>2, <1>3, <1>4, <2>1, <2>3, <2>4 DEF n, len
<1> QED
    BY <1>6, <1>7

LEMMA SendingWrites ==
    ASSUME Unreset, IInv, LinkRest, NEW a \in Ends, NEW b \in Ends, b = Other(a),
           Sending(a, b), EndStep(a)
    PROVE  Linked' /\ Recorded
<1> DEFINE n == turn[b]
           next == pos[a] + 1
<1>1. /\ Within(a, b) /\ chan[a] = <<>> /\ pos[b] <= pos[a]
      /\ \A k \in (pos[b] + 1) .. pos[a] :
            k % BLOCK_SIZE = 0 => k = pos[a] /\ st[a] # "bytes"
    BY SendingFacts DEF Sending
<1>2. /\ turn[a] = n /\ n \in Nat /\ Packet(a) = Packet(b) /\ Packet(b).len \in Nat
      /\ Packet(b).type # "DEBUG" /\ ~Packet(b).hex
      /\ pos[a] \in Nat /\ pos[b] \in Nat /\ a # b
      /\ chan[b] \in Seq(Bytes \cup Headers)
    BY <1>1, WithinFacts
<1>3. WriteByte(a) /\ st[a] = "bytes"
    BY <1>1, <1>2, Silent DEF Sends, WriteHeader, WriteHexByte, WriteByte, Sending
<1>4. /\ chan'[a] = <<>>
      /\ Flow(script', chan'[b], n, pos[b] + 1, SentPacket(a)', SentAt(a)')
    <2>1. Stream(chan[b], n, pos[b] + 1, a)
        BY DEF Sending
    <2>2. /\ chan'[a] = chan[a]
          /\ \E x \in Bytes \cup Headers :
                /\ chan'[b] = Append(chan[b], x)
                /\ Flow(script', Append(chan[b], x), n, pos[b] + 1,
                        SentPacket(a)', SentAt(a)')
        BY <1>2, <1>3, <2>1, ByteFlows
    <2> QED
        BY <1>1, <2>2
<1>5. PICK state \in {"bytes", "blockAck", "finalAck"} :
          /\ StillWriting(a, state) /\ pos' = [pos EXCEPT ![a] = next]
          /\ state = "bytes" => next % BLOCK_SIZE # 0
    BY <1>2, <1>3 DEF WriteByte
<1>6. /\ Within(a, b)' /\ st'[a] = state /\ pos'[a] = next
      /\ pos'[b] = pos[b] /\ turn' = turn /\ script' = script
      /\ ReadInv(a)' /\ ReadInv(b)' /\ LogInv' /\ Recorded
    <2>1. PICK i \in Nat : i = next
        BY <1>2
    <2>2. pos' = [pos EXCEPT ![a] = i] /\ StillWriting(a, state)
        BY <1>5, <2>1
    <2>3. Within(a, b)
        BY <1>1
    <2>4. /\ Within(a, b)' /\ st'[a] = state /\ pos'[a] = i
          /\ pos'[b] = pos[b] /\ turn' = turn /\ script' = script
          /\ ReadInv(a)' /\ ReadInv(b)' /\ LogInv' /\ Recorded
        <3> HIDE DEF n, next
        <3> QED
            BY <2>2, <2>3, WriterOn, ZenonT(60)
    <2> QED
        BY <2>1, <2>4
<1>7. ASSUME NEW k \in (pos'[b] + 1) .. pos'[a], k % BLOCK_SIZE = 0
      PROVE  k = pos'[a] /\ st'[a] # "bytes"
    <2>1. CASE k = next
        BY <1>5, <1>6, <1>7, <2>1
    <2>2. CASE k # next
        <3>1. k \in (pos[b] + 1) .. pos[a]
            BY <1>2, <1>6, <2>2
        <3> QED
            BY <1>1, <1>3, <1>7, <3>1
    <2> QED
        BY <2>1, <2>2
<1>8. pos'[b] < pos'[a]
    BY <1>1, <1>2, <1>6
<1>9. Sending(a, b)'
    BY <1>4, <1>6, <1>7, <1>8 DEF Sending, Stream
<1> QED
    BY <1>6, <1>9, LinkIs DEF Together

LEMMA SendingReads ==
    ASSUME Unreset, IInv, LinkRest, NEW a \in Ends, NEW b \in Ends, b = Other(a),
           Sending(a, b), EndStep(b)
    PROVE  Linked' /\ Recorded
<1> DEFINE n == turn[b]
           p == Packet(b)
           next == pos[b] + 1
<1>1. /\ Within(a, b) /\ chan[a] = <<>> /\ pos[b] <= pos[a]
      /\ st[a] \in {"bytes", "blockAck", "finalAck"}
      /\ \A k \in next .. pos[a] :
            k % BLOCK_SIZE = 0 => k = pos[a] /\ st[a] # "bytes"
    BY SendingFacts DEF Sending
<1>2. /\ turn[a] = n /\ n \in Nat /\ n \in 1 .. Len(script) /\ Packet(a) = p
      /\ p = script[n] /\ p.len \in Nat /\ p.type # "DEBUG"
      /\ pos[a] \in Nat /\ pos[b] \in Nat /\ pos[b] < p.len
      /\ a # b /\ a = Other(b) /\ Ends = {a, b} /\ Writer(a)
      /\ st[b] = "data" /\ Len(log) = n - 1
      /\ chan[b] \in Seq(Bytes \cup Headers) /\ script \in Seq(Packets)
      /\ DOMAIN st = Ends /\ DOMAIN turn = Ends /\ DOMAIN pos = Ends
      /\ DOMAIN buf = Ends /\ DOMAIN hdr = Ends
    BY <1>1, WithinFacts, PacketFacts
<1>3. chan[b] # <<>>
    BY <1>2, ReaderWaits
<1>4. /\ Head(chan[b]) = Unit(script, n, next) /\ pos[b] < pos[a]
      /\ Flow(script, Tail(chan[b]), NextPacket(script, n, next), NextAt(script, n, next),
              SentPacket(a), SentAt(a))
      /\ SentPacket(a) = NextPacket(script, n, pos[a])
      /\ SentAt(a) = NextAt(script, n, pos[a])
      /\ st[a] # "finalAck" => pos[a] < p.len
      /\ st[a] = "finalAck" => pos[a] = p.len
      /\ st[a] = "blockAck" => pos[a] % BLOCK_SIZE = 0
    BY <1>3, SendingFacts
<1>5. next \in Nat /\ next <= pos[a] /\ next <= p.len /\ next # 0 /\ next - 1 = pos[b]
    BY <1>2, <1>4
<1>6. ReadByte(b)
    <2>1. Head(chan[b]).kind = "byte"
        <3> HIDE DEF next
        <3> QED
            BY <1>4, <1>5 DEF Unit, DataByte
    <2> QED
        BY <1>2, <2>1 DEF EndStep, WriteHeader, WriteByte, WriteHexByte, HeaderAcked,
           HexBlockAcked, BlockAcked, FinalAcked, RejectLength, ReadHeader, Skip, Garble,
           Has
<1>7. /\ script' = script
      /\ IF next = p.len \/ next % BLOCK_SIZE = 0 THEN TakeAndSend(b, Ack) ELSE Take(b)
      /\ next < p.len =>
            /\ Goto(b, "data") /\ hdr' = hdr
            /\ pos' = [pos EXCEPT ![b] = next] /\ ReadInv(b)'
            /\ \A e \in Ends \ {b} : buf'[e] = buf[e]
            /\ log' = log /\ outcome' = outcome
      /\ next = p.len => Return(b) /\ Recorded /\ LogInv' /\ Len(log') = n
    BY <1>2, <1>4, <1>6, ByteStep
<1>8. /\ turn'[a] = turn[a] /\ st'[a] = st[a] /\ pos'[a] = pos[a]
      /\ buf'[a] = buf[a] /\ hdr'[a] = hdr[a]
      /\ next < p.len => st'[b] = "data" /\ pos'[b] = next /\ turn'[b] = n
      /\ next = p.len => st'[b] = "idle" /\ turn'[b] = n + 1
      /\ next < p.len \/ next = p.len
    BY <1>2, <1>5, <1>7 DEF Goto, Return
<1>9. LogInv' /\ Recorded /\ Len(log') = IF next = p.len THEN n ELSE n - 1
    BY <1>2, <1>5, <1>7, StillLogged DEF LinkRest, Recorded
<1>10. ReadInv(a)' /\ ReadInv(b)'
    BY <1>2, <1>7, <1>8, StillRead, NotReading DEF LinkRest
<1>11. /\ SentPacket(a)' = SentPacket(a) /\ SentAt(a)' = SentAt(a)
       /\ Writer(a)' /\ Packet(a)' = p
    BY <1>2, <1>7, <1>8 DEF SentPacket, SentAt, Writer, Engaged, Packet
<1>12. /\ chan'[b] = Tail(chan[b])
       /\ next = p.len \/ next % BLOCK_SIZE = 0 => chan'[a] = <<Ack>>
       /\ ~(next = p.len \/ next % BLOCK_SIZE = 0) => chan'[a] = <<>>
    <2>1. CASE next = p.len \/ next % BLOCK_SIZE = 0
        <3>1. Ack \in Bytes \cup Headers /\ Append(<<>>, Ack) = <<Ack>>
            BY HeaderTypes
        <3>2. chan'[b] = Tail(chan[b]) /\ chan'[a] = Append(chan[a], Ack)
            BY <1>2, <1>3, <1>7, <2>1, <3>1, TakeAndSendKeeps
        <3> QED
            BY <1>1, <2>1, <3>1, <3>2
    <2>2. CASE ~(next = p.len \/ next % BLOCK_SIZE = 0)
        <3>1. chan'[b] = Tail(chan[b]) /\ chan'[a] = chan[a]
            BY <1>2, <1>3, <1>7, <2>2, TakeKeeps
        <3> QED
            BY <1>1, <2>2, <3>1
    <2> QED
        BY <2>1, <2>2
<1>13. next = pos[a] => chan'[b] = <<>>
    <2> SUFFICES ASSUME next = pos[a] PROVE chan'[b] = <<>>
        OBVIOUS
    <2>1. /\ NextPacket(script, n, next) \in Nat /\ NextAt(script, n, next) \in Nat
          /\ Tail(chan[b]) \in Seq(Bytes \cup Headers)
        <3> HIDE DEF n, next
        <3>1. Tail(chan[b]) \in Seq(Bytes \cup Headers)
            BY <1>2, <1>3
        <3>2. /\ NextPacket(script, n, next) \in 1 .. (Len(script) + 1)
              /\ NextAt(script, n, next) \in Nat
            BY <1>2, <1>5, NextType
        <3> QED
            BY <3>1, <3>2
    <2>2. Flow(script, Tail(chan[b]), NextPacket(script, n, next), NextAt(script, n, next),
               NextPacket(script, n, next), NextAt(script, n, next))
        BY <1>4
    <2> QED
        BY <1>2, <1>12, <2>1, <2>2, FlowNone
<1>14. CASE next = p.len
    <2>1. next = pos[a] /\ st[a] = "finalAck"
        BY <1>1, <1>2, <1>4, <1>5, <1>14
    <2>2. turn'[b] = n + 1 /\ st'[b] = "idle" /\ Len(log') = n
        BY <1>8, <1>9, <1>14
    <2>3. <<Ack>> # <<>> /\ Head(<<Ack>>) = Ack /\ Tail(<<Ack>>) = <<>>
        OBVIOUS
    <2>4. Flow(script', <<>>, n + 1, 0, SentPacket(b)', SentAt(b)')
        <3>1. n + 1 \in Nat /\ 0 \in Nat
            BY <1>2
        <3>2. SentPacket(b)' = n + 1 /\ SentAt(b)' = 0
            BY <2>2 DEF SentPacket, SentAt
        <3>3. Flow(script', <<>>, n + 1, 0, n + 1, 0)
            BY <3>1, NoFlow
        <3> QED
            BY <3>2, <3>3
    <2>5. DebugOf(script', b, n + 1, turn'[b])
        BY <1>2, <2>2 DEF DebugOf
    <2>6. Ahead(b)' /\ Ack' = Ack
        BY <2>2 DEF Ahead, Ack, Header
    <2>7. st'[a] = "finalAck" /\ Tail(chan'[a]) = <<>> /\ chan'[a] # <<>>
          /\ Head(chan'[a]) = Ack
        BY <1>8, <1>12, <1>14, <2>1, <2>3
    <2>8. Delivered(a, b)'
        BY <1>2, <1>8, <1>11, <1>13, <2>1, <2>2, <2>4, <2>5, <2>6, <2>7
            DEF Delivered, Stream
    <2> QED
        BY <1>9, <1>10, <2>8, LinkIs DEF Together
<1>15. CASE next < p.len
    <2>1. Within(a, b)'
        BY <1>2, <1>8, <1>9, <1>11, <1>15 DEF Within
    <2>2. CASE next % BLOCK_SIZE = 0
        <3>1. next = pos[a] /\ st[a] = "blockAck"
            <4>1. next \in next .. pos[a]
                BY <1>2, <1>5
            <4> QED
                BY <1>1, <1>4, <1>15, <2>2, <4>1
        <3>2. BlockRead(a, b)'
            BY <1>8, <1>12, <1>13, <1>15, <2>1, <2>2, <3>1
                DEF BlockRead, Ack, Header
        <3> QED
            BY <1>9, <1>10, <3>2, LinkIs DEF Together
    <2>3. CASE next % BLOCK_SIZE # 0
        <3>1. chan'[a] = <<>> /\ pos'[b] = next /\ turn'[b] = n
            BY <1>8, <1>12, <1>15, <2>3
        <3>2. Flow(script', chan'[b], turn'[b], pos'[b] + 1, SentPacket(a)', SentAt(a)')
            BY <1>2, <1>4, <1>7, <1>11, <1>12, <1>15, <3>1 DEF NextPacket, NextAt
        <3>3. ASSUME NEW k \in (pos'[b] + 1) .. pos'[a], k % BLOCK_SIZE = 0
              PROVE  k = pos'[a] /\ st'[a] # "bytes"
            <4>1. k \in next .. pos[a]
                BY <1>2, <1>5, <1>8, <3>1
            <4> QED
                BY <1>1, <1>8, <3>3, <4>1
        <3>4. st'[a] = "blockAck" => pos'[b] < pos'[a]
            BY <1>2, <1>4, <1>5, <1>8, <2>3, <3>1
        <3>5. Sending(a, b)'
            BY <1>1, <1>8, <2>1, <3>1, <3>2, <3>3, <3>4 DEF Sending, Stream
        <3> QED
            BY <1>9, <1>10, <3>5, LinkIs DEF Together
    <2> QED
        BY <2>2, <2>3
<1> QED
    BY <1>8, <1>14, <1>15

LEMMA DeliveredSends ==
    ASSUME Unreset, IInv, LinkRest, NEW a \in Ends, NEW b \in Ends, b = Other(a),
           Delivered(a, b), EndStep(b)
    PROVE  Linked' /\ Recorded
<1>1. /\ Writer(a) /\ Packet(a).type # "DEBUG"
      /\ st[a] = "finalAck" \/ (st[a] = "headerAck" /\ Packet(a).len = 0)
      /\ Ahead(b) /\ chan[b] = <<>> /\ chan[a] # <<>> /\ Head(chan[a]) = Ack
      /\ Len(log) = turn[a]
    BY DEF Delivered
<1>2. a # b /\ a = Other(b) /\ chan[a] \in Seq(Bytes \cup Headers) /\ turn[a] \in Nat
    BY TwoEnds DEF IInv, EndsOK, WireOK
<1>3. PICK m \in Nat : m = turn[a] + 1
    BY <1>2
<1>4. PICK units \in Seq(Bytes \cup Headers) : units = Tail(chan[a])
    <2>1. Tail(chan[a]) \in Seq(Bytes \cup Headers)
        BY <1>1, <1>2
    <2> QED
        BY <2>1
<1>5. DebugOf(script, b, m, turn[b]) /\ Stream(units, m, 0, b)
    BY <1>3, <1>4 DEF Delivered
<1>6. Sends(b)
    BY <1>1, Silent
<1>7. /\ script' = script /\ log' = log /\ Recorded
      /\ Ahead(b)' /\ DebugOf(script, b, m, turn'[b]) /\ st'[b] # "data"
      /\ chan'[b] = chan[b]
      /\ turn'[a] = turn[a] /\ st'[a] = st[a] /\ pos'[a] = pos[a]
      /\ buf'[a] = buf[a] /\ hdr'[a] = hdr[a]
      /\ \E s \in Seq(Bytes \cup Headers) :
            /\ chan'[a] = chan[a] \o s
            /\ Flow(script', units \o s, m, 0, SentPacket(b)', SentAt(b)')
    <2>1. PICK z \in Nat : z = 0
        OBVIOUS
    <2>2. Stream(units, m, z, b)
        BY <1>5, <2>1
    <2>3. /\ script' = script /\ log' = log /\ Recorded
          /\ Ahead(b)' /\ DebugOf(script, b, m, turn'[b]) /\ st'[b] # "data"
          /\ chan'[b] = chan[b]
          /\ turn'[Other(b)] = turn[Other(b)] /\ st'[Other(b)] = st[Other(b)]
          /\ pos'[Other(b)] = pos[Other(b)] /\ buf'[Other(b)] = buf[Other(b)]
          /\ hdr'[Other(b)] = hdr[Other(b)]
          /\ \E s \in Seq(Bytes \cup Headers) :
                /\ chan'[Other(b)] = chan[Other(b)] \o s
                /\ Flow(script', units \o s, m, z, SentPacket(b)', SentAt(b)')
        BY <1>1, <1>5, <1>6, <2>2, AheadSends
    <2> QED
        BY <1>2, <2>1, <2>3
<1>8. PICK s \in Seq(Bytes \cup Headers) :
          /\ chan'[a] = chan[a] \o s
          /\ Flow(script', units \o s, m, 0, SentPacket(b)', SentAt(b)')
    BY <1>7
<1>9. /\ chan'[a] # <<>> /\ Head(chan'[a]) = Ack
      /\ Tail(chan'[a]) = units \o s
    <2>1. PICK c \in Seq(Bytes \cup Headers) : c = chan[a]
        BY <1>2
    <2>2. c # <<>> /\ Head(c) = Ack /\ units = Tail(c) /\ chan'[a] = c \o s
        BY <1>1, <1>4, <1>8, <2>1
    <2>3. c \o s # <<>> /\ Head(c \o s) = Head(c) /\ Tail(c \o s) = Tail(c) \o s
        BY <2>2, TailConcat
    <2> QED
        BY <2>2, <2>3
<1>10. ReadInv(a)' /\ ReadInv(b)' /\ LogInv'
    BY <1>7, NotReading, StillRead, StillLogged DEF LinkRest
<1>11. Writer(a)' /\ Packet(a)' = Packet(a) /\ Ack' = Ack
    BY <1>1, <1>7 DEF Writer, Engaged, Packet, Ack, Header
<1>12. Delivered(a, b)'
    BY <1>1, <1>3, <1>7, <1>8, <1>9, <1>11 DEF Delivered, Stream
<1> QED
    BY <1>2, <1>7, <1>10, <1>12, LinkIs DEF Together

LEMMA DeliveredReturns ==
    ASSUME Unreset, IInv, LinkRest, NEW a \in Ends, NEW b \in Ends, b = Other(a),
           Delivered(a, b), EndStep(a)
    PROVE  Linked' /\ Recorded
<1>1. /\ Writer(a) /\ st[a] \in {"finalAck", "headerAck"}
      /\ st[a] = "headerAck" => Packet(a).len = 0
      /\ Ahead(b) /\ chan[b] = <<>> /\ chan[a] # <<>> /\ Head(chan[a]) = Ack
      /\ Len(log) = turn[a] /\ DebugOf(script, b, turn[a] + 1, turn[b])
      /\ Stream(Tail(chan[a]), turn[a] + 1, 0, b)
    BY DEF Delivered
<1>2. a # b /\ a = Other(b) /\ turn[a] \in Nat
      /\ DOMAIN st = Ends /\ DOMAIN turn = Ends /\ DOMAIN pos = Ends
      /\ DOMAIN buf = Ends /\ DOMAIN hdr = Ends
    BY TwoEnds DEF IInv, EndsOK
<1>3. WriteReturns(a, "MSG_OK") /\ Take(a)
    <2>1. Ack.cmd = "ACK"
        BY HeaderTypes
    <2> QED
        BY <1>1, <2>1, WaitingTakes DEF AwaitingAck, HeaderAcked, FinalAcked
<1>4. Recorded
    BY <1>1, <1>2, <1>3, ConfirmStep
<1>5. chan'[a] = Tail(chan[a]) /\ chan'[b] = <<>>
    BY <1>1, <1>2, <1>3, TakeKeeps
<1>6. /\ script' = script /\ log' = log
      /\ turn'[a] = turn[a] + 1 /\ st'[a] = "idle"
      /\ turn'[b] = turn[b] /\ st'[b] = st[b] /\ pos'[b] = pos[b]
      /\ buf'[b] = buf[b] /\ hdr'[b] = hdr[b]
    BY <1>2, <1>3 DEF WriteReturns, Return
<1>7. ReadInv(a)' /\ ReadInv(b)' /\ LogInv'
    BY <1>6, NotReading, StillRead, StillLogged DEF LinkRest
<1>8. SentPacket(b)' = SentPacket(b) /\ SentAt(b)' = SentAt(b) /\ Ahead(b)'
    BY <1>1, <1>6 DEF SentPacket, SentAt, Ahead, Packet
<1>9. Flow(script', chan'[a], turn'[a], 0, SentPacket(b)', SentAt(b)')
    BY <1>1, <1>5, <1>6, <1>8 DEF Stream
<1>10. Flowing(b, a)'
    BY <1>1, <1>2, <1>5, <1>6, <1>8, <1>9 DEF Flowing, Stream
<1> QED
    BY <1>2, <1>4, <1>7, <1>10, LinkIs DEF Together

-----------------------------------------------------------------------------
(***************************************************************************)
(* The ends stay together                                                  *)
(***************************************************************************)
LEMMA TogetherSteps ==
    ASSUME Unreset, IInv, LinkRest, NEW a \in Ends, NEW b \in Ends, b = Other(a),
           Together(a, b), NEW e \in Ends, EndStep(e), ~RejectLength(e)
    PROVE  Linked' /\ Recorded
<1>1. (e = a \/ e = b) /\ a = Other(b)
    BY TwoEnds
<1>2. CASE Flowing(a, b)
    <2>1. CASE e = a
        <3>1. Sends(a)
            BY <1>2, <2>1, Silent DEF Flowing
        <3> QED
            BY <1>2, <3>1, FlowingSends
    <2>2. CASE e = b /\ Sends(b)
        <3>1. Writer(b) /\ st[b] = "idle"
            BY <1>2, <2>2
               DEF Sends, WriteHeader, WriteByte, WriteHexByte, Flowing
        <3>2. Flowing(b, a)
            BY <1>2, <3>1, Swap
        <3> QED
            BY <1>1, <2>2, <3>2, FlowingSends
    <2>3. CASE e = b /\ ~Sends(b)
        BY <1>2, <2>3, FlowingReads
    <2> QED
        BY <1>1, <2>1, <2>2, <2>3
<1>3. CASE HeaderRead(a, b)
    BY <1>1, <1>3, HeaderReadSteps
<1>4. CASE Sending(a, b)
    BY <1>1, <1>4, SendingWrites, SendingReads
<1>5. CASE BlockRead(a, b)
    BY <1>1, <1>5, BlockReadSteps
<1>6. CASE Delivered(a, b)
    BY <1>1, <1>6, DeliveredSends, DeliveredReturns
<1> QED
    BY <1>2, <1>3, <1>4, <1>5, <1>6 DEF Together

LEMMA StutterLink ==
    ASSUME Linked, UNCHANGED vars
    PROVE  Linked' /\ Recorded
<1>1. PICK a \in Ends, b \in Ends : b = Other(a) /\ Together(a, b)
    BY TwoEnds DEF Linked
<1>2. /\ script' = script /\ turn' = turn /\ st' = st /\ pos' = pos /\ buf' = buf
      /\ hdr' = hdr /\ chan' = chan /\ log' = log /\ outcome' = outcome
    BY DEF vars
<1>3. \A e \in Ends :
          /\ Packet(e)' = Packet(e) /\ Writer(e)' = Writer(e) /\ Ahead(e)' = Ahead(e)
          /\ SentPacket(e)' = SentPacket(e) /\ SentAt(e)' = SentAt(e)
    BY <1>2 DEF Packet, Writer, Engaged, Ahead, SentPacket, SentAt
<1>4. \A e, f \in Ends : Within(e, f)' = Within(e, f)
    BY <1>2, <1>3 DEF Within
<1>5. Ack' = Ack
    BY DEF Ack, Header
<1>6. Together(a, b)'
    <2>1. Flowing(a, b) => Flowing(a, b)'
        BY <1>2, <1>3 DEF Flowing, Stream
    <2>2. HeaderRead(a, b) => HeaderRead(a, b)'
        BY <1>2, <1>4, <1>5 DEF HeaderRead
    <2>3. Sending(a, b) => Sending(a, b)'
        BY <1>2, <1>3, <1>4 DEF Sending, Stream
    <2>4. BlockRead(a, b) => BlockRead(a, b)'
        BY <1>2, <1>4, <1>5 DEF BlockRead
    <2>5. Delivered(a, b) => Delivered(a, b)'
        BY <1>2, <1>3, <1>5 DEF Delivered, Stream
    <2> QED
        BY <1>1, <2>1, <2>2, <2>3, <2>4, <2>5 DEF Together
<1>7. ReadInv(a)' /\ ReadInv(b)' /\ LogInv'
    BY <1>2, StillRead, StillLogged DEF Linked
<1> QED
    BY <1>1, <1>2, <1>6, <1>7, LinkIs DEF Recorded

(* What is first on the wire to an end is what the end reads next.         *)
LEMMA InPlace ==
    ASSUME Unreset, IInv, LinkRest, NEW a \in Ends, NEW b \in Ends, b = Other(a),
           Together(a, b), NEW e \in Ends, chan[e] # <<>>
    PROVE  \/ st[e] \in AwaitingAck /\ Head(chan[e]).kind = "header"
           \/ st[e] = "data" /\ Head(chan[e]).kind = "byte"
           \/ /\ st[e] = "idle" /\ turn[e] \in 1 .. Len(script)
              /\ Head(chan[e]) = Unit(script, turn[e], 0)
<1>1. e = a \/ e = b
    BY TwoEnds
<1>2. CASE Flowing(a, b)
    <2>1. e = b /\ st[b] \in {"idle", "data"}
        BY <1>1, <1>2 DEF Flowing
    <2>2. PICK j : j = IF st[b] = "data" THEN pos[b] + 1 ELSE 0
        OBVIOUS
    <2>3. /\ turn[b] \in 1 .. Len(script) /\ j \in 0 .. script[turn[b]].len
          /\ Head(chan[b]) = Unit(script, turn[b], j)
        BY <1>2, <2>1, <2>2, FlowingHead
    <2>4. CASE st[b] = "idle"
        BY <2>1, <2>2, <2>3, <2>4
    <2>5. CASE st[b] = "data"
        <3>1. pos[b] \in Nat
            BY DEF IInv, EndsOK
        <3>2. j # 0
            BY <2>2, <2>5, <3>1
        <3> QED
            BY <2>1, <2>3, <2>5, <3>2 DEF Unit, DataByte
    <2> QED
        BY <2>1, <2>4, <2>5
<1>3. CASE HeaderRead(a, b) \/ BlockRead(a, b) \/ Delivered(a, b)
    <2>1. Head(<<Ack>>) = Ack /\ Ack.kind = "header"
        BY HeaderTypes
    <2> QED
        BY <1>1, <1>3, <2>1 DEF HeaderRead, BlockRead, Delivered, AwaitingAck
<1>4. CASE Sending(a, b)
    <2>1. e = b /\ st[b] = "data" /\ pos[b] \in Nat
        BY <1>1, <1>4 DEF Sending, Within, IInv, EndsOK
    <2>2. Head(chan[b]) = Unit(script, turn[b], pos[b] + 1)
        BY <1>4, <2>1, SendingFacts
    <2>3. pos[b] + 1 # 0
        BY <2>1
    <2> QED
        BY <2>1, <2>2, <2>3 DEF Unit, DataByte
<1> QED
    BY <1>2, <1>3, <1>4 DEF Together

(* So no end loses its place by a step of its own.                         *)
LEMMA InPlaceStays ==
    ASSUME Unreset, IInv, LinkRest, NEW a \in Ends, NEW b \in Ends, b = Other(a),
           Together(a, b), NEW e \in Ends, EndStep(e)
    PROVE  astray' = {}
<1>1. ~Skip(e) /\ ~Garble(e)
    <2>1. st[e] = "idle" => Unit(script, turn[e], 0).kind = "header"
        BY DEF Unit, Header
    <2> QED
        BY <2>1, InPlace DEF Skip, Garble, Has, AwaitingAck
<1>2. astray' = astray
    BY <1>1 DEF EndStep, WriteHeader, HeaderAcked, WriteByte, WriteHexByte, HexBlockAcked,
       BlockAcked, FinalAcked, RejectLength, ReadHeader, ReadByte, WriteReturns,
       StillWriting, ReadReturns
<1> QED
    BY <1>2 DEF LinkRest

LEMMA NoReset == ASSUME Unreset, IInv, NEW e \in Ends PROVE ~Reset(e) /\ ~Overrun(e)
BY DEF Unreset, IInv, RecordOK, Reset, Overrun

(* The ends stay together until a packet is refused.                       *)
LEMMA LinkSteps ==
    ASSUME Unreset, IInv, LinkInv, [Next \/ Terminated]_vars,
           \A e \in Ends : ~RejectLength(e)
    PROVE  LinkInv' /\ Recorded
<1>1. CASE UNCHANGED vars \/ Terminated
    BY <1>1, StutterLink DEF Terminated, LinkInv, vars
<1>2. ASSUME NEW e \in Ends PROVE ~Stray(e)
    BY DEF LinkInv, Stray
<1>3. ASSUME NEW e \in Ends, EndStep(e) PROVE LinkInv' /\ Recorded
    <2>1. PICK a \in Ends, b \in Ends : b = Other(a) /\ Together(a, b)
        BY TwoEnds DEF LinkInv, Linked
    <2>2. LinkRest
        BY DEF LinkInv, Linked, LinkRest
    <2> QED
        BY <1>3, <2>1, <2>2, TogetherSteps, InPlaceStays DEF LinkInv
<1> QED
    BY <1>1, <1>2, <1>3, NoReset DEF Next

(* What fits is not refused.                                               *)
LEMMA Fitting ==
    ASSUME Undisturbed, IInv, LinkInv, NEW e \in Ends
    PROVE  ~RejectLength(e)
<1> SUFFICES ASSUME RejectLength(e) PROVE FALSE
    OBVIOUS
<1>1. PICK a \in Ends, b \in Ends : b = Other(a) /\ Together(a, b)
    BY TwoEnds DEF LinkInv, Linked
<1>2. LinkRest /\ Unreset
    BY DEF LinkInv, Linked, LinkRest, Undisturbed
<1>3. /\ turn[e] \in 1 .. Len(script) /\ st[e] = "idle"
      /\ Head(chan[e]) = Unit(script, turn[e], 0)
    BY <1>1, <1>2, InPlace DEF RejectLength, Has, AwaitingAck
<1>4. Head(chan[e]).len = script[turn[e]].len
    BY <1>3 DEF Unit, Header
<1>5. /\ script[turn[e]].len \in Nat /\ script[turn[e]].limit \in Nat
      /\ script[turn[e]].limit # 0 => script[turn[e]].len <= script[turn[e]].limit
    BY <1>3, PacketFacts DEF Undisturbed, IInv
<1> QED
    BY <1>4, <1>5 DEF RejectLength, TooLong, Packet

LEMMA UndisturbedSteps ==
    ASSUME Undisturbed, IInv, LinkInv, [Next \/ Terminated]_vars
    PROVE  LinkInv' /\ Recorded
BY LinkSteps, Fitting DEF Undisturbed

LEMMA InitLink == ASSUME Init PROVE LinkInv
<1>1. PICK a \in Ends, b \in Ends : b = Other(a)
    <2>1. "hsm" \in Ends /\ "peer" \in Ends /\ "peer" = Other("hsm")
        BY DEF Ends, Other
    <2> QED
        BY <2>1
<1>2. /\ turn[a] = 1 /\ turn[b] = 1 /\ chan[a] = <<>> /\ chan[b] = <<>>
      /\ \A e \in Ends : st[e] = "idle"
      /\ log = <<>> /\ Len(<<>>) = 0
    BY DEF Init
<1>3. Stream(chan[b], 1, 0, a)
    BY <1>2, NoFlow DEF Stream, SentPacket, SentAt
<1>4. DebugOf(script, a, 1, 1)
    BY DEF DebugOf
<1>5. Flowing(a, b)
    BY <1>2, <1>3, <1>4 DEF Flowing, Ahead
<1>6. LogInv /\ \A e \in Ends : ReadInv(e)
    BY <1>2 DEF LogInv, ReadInv
<1> QED
    BY <1>1, <1>5, <1>6 DEF LinkInv, Linked, Together, Init

(* On an undisturbed link the two ends always are in one of the phases of  *)
(* Together, what read_bytes stored is the beginning of the packet being   *)
(* read, and what read_packet returned so far are the first packets of the *)
(* conversation, whole and in order.                                       *)
THEOREM LinkHolds == ASSUME Undisturbed PROVE Spec => []LinkInv
<1>1. Init => LinkInv
    BY InitLink
<1>2. IInv /\ LinkInv /\ [Next \/ Terminated]_vars => LinkInv'
    BY UndisturbedSteps
<1> QED
    BY <1>1, <1>2, Inductive, PTL DEF Spec

(* Between two packets nothing is on the wire: whatever blocks, empty      *)
(* packets and DEBUG packets there were, the writer waited for exactly the *)
(* acknowledgements the reader sent.                                       *)
THEOREM LeavesNothing == ASSUME Undisturbed PROVE Spec => []NothingLeftOver
<1>1. ASSUME IInv, LinkInv, turn["hsm"] = turn["peer"], \A e \in Ends : st[e] = "idle"
      PROVE  \A e \in Ends : chan[e] = <<>>
    <2>1. PICK a \in Ends, b \in Ends : b = Other(a) /\ Together(a, b)
        BY <1>1, TwoEnds DEF LinkInv, Linked
    <2>2. st[a] = "idle" /\ st[b] = "idle" /\ turn[a] = turn[b] /\ Ends = {a, b}
        BY <1>1, <2>1, TwoEnds DEF Ends
    <2>3. Flowing(a, b)
        BY <2>1, <2>2 DEF Together, HeaderRead, Sending, BlockRead, Delivered, Within
    <2>4. /\ script \in Seq(Packets) /\ chan[b] \in Seq(Bytes \cup Headers)
          /\ turn[b] \in Nat /\ 0 \in Nat
        <3>1. script \in Seq(Packets)
            BY <1>1, PacketFacts
        <3>2. chan[b] \in Seq(Bytes \cup Headers)
            BY <1>1 DEF IInv, WireOK
        <3>3. turn[b] \in Nat
            BY <1>1 DEF IInv, EndsOK
        <3> QED
            BY <3>1, <3>2, <3>3
    <2>5. Flow(script, chan[b], turn[b], 0, turn[b], 0)
        BY <2>2, <2>3 DEF Flowing, Stream, SentPacket, SentAt
    <2>6. chan[b] = <<>>
        BY <2>4, <2>5, FlowNone
    <2> QED
        BY <2>2, <2>3, <2>6 DEF Flowing
<1>2. IInv /\ LinkInv => NothingLeftOver
    BY <1>1 DEF NothingLeftOver
<1> QED
    BY <1>2, Inductive, LinkHolds, PTL

(* The UART has no flow control, and needs none within a packet: while     *)
(* anything but a new header or a DEBUG packet is on the wire to an end,   *)
(* that end is in uart_readbyte.                                           *)
THEOREM NothingUnasked == ASSUME Undisturbed PROVE Spec => []Solicited
<1>1. ASSUME IInv, LinkInv, NEW e \in Ends, chan[e] # <<>>
      PROVE  Reading(e)
    <2>1. PICK a \in Ends, b \in Ends : b = Other(a) /\ Together(a, b)
        BY <1>1, TwoEnds DEF LinkInv, Linked
    <2>2. e = a \/ e = b
        BY <2>1, TwoEnds
    <2>3. CASE Flowing(a, b)
        <3>1. e = b /\ st[b] \in {"idle", "data"} /\ chan[b] # <<>>
            BY <1>1, <2>2, <2>3 DEF Flowing
        <3>2. CASE st[b] = "idle"
            <4>1. Engaged(b)
                <5>1. turn[b] \in 1 .. Len(script)
                    BY <1>1, <2>1, <2>3, <3>1, FlowingHead DEF Undisturbed
                <5>2. Len(script) \in Nat
                    BY <1>1, PacketFacts DEF IInv
                <5> QED
                    BY <5>1, <5>2 DEF Engaged
            <4>2. ~Writer(b)
                BY <1>1, <2>1, <2>3, <3>1, <3>2, Swap DEF Flowing, Undisturbed
            <4> QED
                BY <3>1, <3>2, <4>1, <4>2 DEF Reading, Reader, Writer
        <3> QED
            BY <3>1, <3>2 DEF Reading
    <2>4. CASE HeaderRead(a, b) \/ BlockRead(a, b) \/ Delivered(a, b)
        <3>1. e = a /\ st[a] \in AwaitingAck
            BY <1>1, <2>2, <2>4 DEF HeaderRead, BlockRead, Delivered, AwaitingAck
        <3> QED
            BY <3>1 DEF Reading
    <2>5. CASE Sending(a, b)
        BY <1>1, <2>2, <2>5 DEF Sending, Within, Reading
    <2> QED
        BY <2>1, <2>3, <2>4, <2>5 DEF Together
<1>2. IInv /\ LinkInv => Solicited
    <2> SUFFICES ASSUME IInv, LinkInv, NEW e \in Ends, NEW i \in 1 .. Len(chan[e])
                 PROVE  Reading(e)
        BY DEF Solicited
    <2>1. Len(<<>>) = 0
        OBVIOUS
    <2> QED
        BY <1>1, <2>1
<1> QED
    BY <1>2, Inductive, LinkHolds, PTL

(* The two functions implement the hand-over of whole packets: each step   *)
(* hands the next packet over, or tells its writer that it was delivered   *)
(* after it was handed over (a DEBUG packet is not acknowledged), or does  *)
(* neither.                                                                *)
THEOREM HandsOver == ASSUME Undisturbed PROVE Spec => HandoverSpec
<1>1. Init => Handover!Init
    BY DEF Init, Handover!Init
<1>2. IInv /\ LinkInv /\ [Next \/ Terminated]_vars => [Handover!Next]_(Handover!vars)
    <2>1. UNCHANGED <<script, log, outcome>> => UNCHANGED Handover!vars
        BY DEF Handover!vars
    <2> QED
        BY <2>1, UndisturbedSteps DEF Recorded
<1> QED
    BY <1>1, <1>2, Inductive, LinkHolds, PTL DEF Spec, HandoverSpec, Handover!Spec

-----------------------------------------------------------------------------
(***************************************************************************)
(* A link that is disturbed: ends are reset, packets refused, acknowledge- *)
(* ments taken for those of other packets.  What remains is the order of   *)
(* what one end has sent and the other has not read.                       *)
(***************************************************************************)

(* The packets whose header an end has sent, if it wrote them, are those   *)
(* up to this one.                                                         *)
Begun(e) == IF st[e] = "idle" THEN turn[e] - 1 ELSE turn[e]

IsHeader(unit) == unit.kind = "header" /\ unit # Ack

(* The units are acknowledgements and units of packets up to n of end w: a *)
(* byte comes right after the unit before it, and a header after all units *)
(* of earlier packets.                                                     *)
Orderly(sc, units, w, n) ==
    /\ \A k \in 1 .. Len(units) : units[k] # Ack =>
          /\ units[k].packet \in 1 .. n /\ units[k].packet \in 1 .. Len(sc)
          /\ sc[units[k].packet].from = w
          /\ IsHeader(units[k]) => units[k] = Unit(sc, units[k].packet, 0)
    /\ \A k \in 1 .. (Len(units) - 1) : units[k + 1].kind = "byte" =>
          units[k] = Unit(sc, units[k + 1].packet, units[k + 1].at)
    /\ \A i, k \in 1 .. Len(units) :
          i < k /\ units[i] # Ack /\ IsHeader(units[k]) =>
              units[i].packet < units[k].packet

(* What an end has before it: while it reads the contents of a packet, the *)
(* last unit it read of it, and then the units on the wire.                *)
View(sc, state, h, p, units) ==
    IF state = "data" THEN <<Unit(sc, h.packet, p)>> \o units ELSE units

Coming(e) == View(script, st[e], hdr[e], pos[e], chan[e])

WriterAtWork(e) == st[e] \in AwaitingAck \cup {"bytes"}

(* The last of it is the last its writer sent of the packet it is in, and  *)
(* what was read of a packet is its beginning.                             *)
WayInv(e) ==
    /\ Orderly(script, Coming(e), Other(e), Begun(Other(e)))
    /\ WriterAtWork(Other(e)) /\ Len(Coming(e)) > 0 =>
          Coming(e)[Len(Coming(e))] = Unit(script, turn[Other(e)], pos[Other(e)])
    /\ st[e] = "data" =>
          /\ hdr[e] = Unit(script, hdr[e].packet, 0)
          /\ buf[e] = [i \in 1 .. pos[e] |-> DataByte(hdr[e].packet, i - 1)]

(* An end has read packet n: it comes before every packet whose header the *)
(* end has still to read, or has read last.                                *)
HasRead(e, n) ==
    /\ n <= Begun(Other(e))
    /\ \A k \in 1 .. Len(chan[e]) : IsHeader(chan[e][k]) => n < chan[e][k].packet
    /\ st[e] = "data" => n < hdr[e].packet

Packeted == {k \in 1 .. Len(log) : log[k].cmd # "ACK"}

OrderInv ==
    \E f \in [1 .. Len(log) -> 1 .. Len(script)] :
        /\ \A i, j \in Packeted :
              /\ log[i] = WholePacket(f[i])
              /\ i < j /\ script[f[i]].from = script[f[j]].from => f[i] < f[j]
        /\ \A i \in Packeted :
              Other(script[f[i]].from) \notin astray =>
                  HasRead(Other(script[f[i]].from), f[i])

(* All this for the ends that are not astray: nothing is known of what the *)
(* others have before them.                                                *)
DisturbedInv == (\A e \in Ends \ astray : WayInv(e)) /\ OrderInv

(* One sequence is the end of another.                                     *)
EndOf(t, s) ==
    \E d \in 0 .. Len(s) :
        Len(t) = Len(s) - d /\ \A k \in 1 .. Len(t) : t[k] = s[k + d]

LEMMA Units ==
    ASSUME NEW sc, NEW n \in Nat, NEW j \in Nat
    PROVE  /\ Unit(sc, n, j).packet = n
           /\ Unit(sc, n, j) # Ack \/ n = 0
           /\ j = 0 => /\ Unit(sc, n, j).kind = "header"
                       /\ Unit(sc, n, j).cmd = sc[n].type /\ Unit(sc, n, j).len = sc[n].len
           /\ j > 0 => /\ Unit(sc, n, j) = DataByte(n, j - 1)
                       /\ Unit(sc, n, j).kind = "byte" /\ Unit(sc, n, j).at = j - 1
BY DEF Unit, Header, DataByte, Ack

LEMMA SameUnit ==
    ASSUME NEW sc, NEW n \in Nat, NEW j \in Nat, NEW m \in Nat, NEW i \in Nat,
           Unit(sc, n, j) = Unit(sc, m, i)
    PROVE  n = m /\ j = i
<1>1. n = m
    BY DEF Unit, Header, DataByte
<1>2. /\ j = 0 => Unit(sc, n, j).kind = "header"
      /\ i = 0 => Unit(sc, m, i).kind = "header"
      /\ j > 0 => Unit(sc, n, j).kind = "byte" /\ Unit(sc, n, j).at = j - 1
      /\ i > 0 => Unit(sc, m, i).kind = "byte" /\ Unit(sc, m, i).at = i - 1
    BY DEF Unit, Header, DataByte
<1> QED
    BY <1>1, <1>2

LEMMA AckIs == Ack.kind = "header" /\ Ack.cmd = "ACK" /\ Ack.len = 0 /\ ~IsHeader(Ack)
BY DEF Ack, Header, IsHeader

LEMMA ConsFacts ==
    ASSUME NEW S, NEW s \in Seq(S), NEW x
    PROVE  /\ Len(<<x>> \o s) = Len(s) + 1
           /\ (<<x>> \o s)[1] = x
           /\ \A k \in 1 .. Len(s) : (<<x>> \o s)[k + 1] = s[k]
<1>1. s \in Seq(S \cup {x}) /\ <<x>> \in Seq(S \cup {x}) /\ Len(<<x>>) = 1 /\ <<x>>[1] = x
    OBVIOUS
<1>2. Len(s) \in Nat /\ Len(<<x>> \o s) = 1 + Len(s)
    BY <1>1
<1>3. (<<x>> \o s)[1] = x
    BY <1>1, <1>2
<1>4. ASSUME NEW k \in 1 .. Len(s) PROVE (<<x>> \o s)[k + 1] = s[k]
    <2>1. k + 1 \in 1 .. (Len(<<x>>) + Len(s)) /\ k + 1 > Len(<<x>>) /\ (k + 1) - 1 = k
        BY <1>1, <1>2
    <2> QED
        BY <1>1, <1>2, <2>1
<1> QED
    BY <1>2, <1>3, <1>4

LEMMA EndOrderly ==
    ASSUME NEW sc, NEW w, NEW n \in Nat, NEW m \in Nat, n <= m,
           NEW s, Len(s) \in Nat, NEW t, EndOf(t, s), Orderly(sc, s, w, n)
    PROVE  /\ Orderly(sc, t, w, m)
           /\ Len(t) \in Nat
           /\ Len(t) > 0 => Len(s) > 0 /\ t[Len(t)] = s[Len(s)]
<1>1. PICK d \in 0 .. Len(s) :
          Len(t) = Len(s) - d /\ \A k \in 1 .. Len(t) : t[k] = s[k + d]
    BY DEF EndOf
<1>2. Len(t) \in Nat /\ d \in Nat /\ \A k \in 1 .. Len(t) : k + d \in 1 .. Len(s)
    BY <1>1
<1>3. Len(t) > 0 => Len(s) > 0 /\ t[Len(t)] = s[Len(s)]
    <2>1. HAVE Len(t) > 0
    <2>2. Len(t) \in 1 .. Len(t) /\ Len(t) + d = Len(s)
        BY <1>1, <1>2, <2>1
    <2> QED
        BY <1>1, <1>2, <2>1, <2>2
<1>4. ASSUME NEW k \in 1 .. Len(t), t[k] # Ack
      PROVE  /\ t[k].packet \in 1 .. m /\ t[k].packet \in 1 .. Len(sc)
             /\ sc[t[k].packet].from = w
             /\ IsHeader(t[k]) => t[k] = Unit(sc, t[k].packet, 0)
    <2>1. t[k] = s[k + d] /\ k + d \in 1 .. Len(s)
        BY <1>1, <1>2
    <2>2. t[k].packet \in 1 .. n
        BY <1>4, <2>1 DEF Orderly
    <2>3. /\ t[k].packet \in 1 .. Len(sc)
          /\ sc[t[k].packet].from = w
          /\ IsHeader(t[k]) => t[k] = Unit(sc, t[k].packet, 0)
        BY <1>4, <2>1 DEF Orderly
    <2> QED
        BY <2>2, <2>3
<1>5. ASSUME NEW k \in 1 .. (Len(t) - 1), t[k + 1].kind = "byte"
      PROVE  t[k] = Unit(sc, t[k + 1].packet, t[k + 1].at)
    <2>1. /\ t[k] = s[k + d] /\ t[k + 1] = s[(k + d) + 1]
          /\ k + d \in 1 .. (Len(s) - 1)
        BY <1>1, <1>2
    <2>2. s[(k + d) + 1].kind = "byte"
        BY <1>5, <2>1
    <2>3. s[k + d] = Unit(sc, s[(k + d) + 1].packet, s[(k + d) + 1].at)
        BY <2>1, <2>2 DEF Orderly
    <2> QED
        BY <2>1, <2>3
<1>6. ASSUME NEW i \in 1 .. Len(t), NEW k \in 1 .. Len(t), i < k, t[i] # Ack, IsHeader(t[k])
      PROVE  t[i].packet < t[k].packet
    <2>1. /\ t[i] = s[i + d] /\ i + d \in 1 .. Len(s)
          /\ t[k] = s[k + d] /\ k + d \in 1 .. Len(s) /\ i + d < k + d
        BY <1>1, <1>2, <1>6
    <2>2. s[i + d] # Ack /\ IsHeader(s[k + d])
        BY <1>6, <2>1
    <2>3. s[i + d].packet < s[k + d].packet
        BY <2>1, <2>2 DEF Orderly
    <2> QED
        BY <2>1, <2>3
<1> QED
    BY <1>2, <1>3, <1>4, <1>5, <1>6 DEF Orderly

(* Unit x, of a packet up to m, may come after units of packets up to n.   *)
MayFollow(sc, s, w, n, m, x) ==
    /\ x # Ack => /\ x.packet \in 1 .. m /\ x.packet \in 1 .. Len(sc)
                  /\ sc[x.packet].from = w
    /\ IsHeader(x) => x = Unit(sc, x.packet, 0) /\ n < x.packet
    /\ x.kind = "byte" /\ Len(s) > 0 => s[Len(s)] = Unit(sc, x.packet, x.at)

IsAppend(t, s, x) ==
    /\ Len(s) \in Nat /\ Len(t) = Len(s) + 1
    /\ \A k \in 1 .. Len(s) : t[k] = s[k]
    /\ t[Len(s) + 1] = x

LEMMA AppendOrderly ==
    ASSUME NEW sc, NEW w, NEW n \in Nat, NEW m \in Nat, n <= m,
           NEW s, NEW x, NEW t, IsAppend(t, s, x),
           Orderly(sc, s, w, n), MayFollow(sc, s, w, n, m, x)
    PROVE  Orderly(sc, t, w, m)
<1> USE DEF MayFollow, IsAppend
<1>1. ASSUME NEW k \in 1 .. Len(t), t[k] # Ack
      PROVE  /\ t[k].packet \in 1 .. m /\ t[k].packet \in 1 .. Len(sc)
             /\ sc[t[k].packet].from = w
             /\ IsHeader(t[k]) => t[k] = Unit(sc, t[k].packet, 0)
    <2>1. CASE k = Len(s) + 1
        BY <1>1, <2>1
    <2>2. CASE k \in 1 .. Len(s)
        <3>1. t[k] = s[k]
            BY <2>2
        <3>2. /\ s[k].packet \in 1 .. n /\ s[k].packet \in 1 .. Len(sc)
              /\ sc[s[k].packet].from = w
              /\ IsHeader(s[k]) => s[k] = Unit(sc, s[k].packet, 0)
            BY <1>1, <2>2, <3>1 DEF Orderly
        <3> QED
            BY <3>1, <3>2
    <2> QED
        BY <2>1, <2>2
<1>2. ASSUME NEW k \in 1 .. (Len(t) - 1), t[k + 1].kind = "byte"
      PROVE  t[k] = Unit(sc, t[k + 1].packet, t[k + 1].at)
    <2>1. k \in 1 .. Len(s) /\ t[k] = s[k]
        OBVIOUS
    <2>2. CASE k = Len(s)
        BY <1>2, <2>1, <2>2
    <2>3. CASE k \in 1 .. (Len(s) - 1)
        <3>1. k + 1 \in 1 .. Len(s) /\ t[k + 1] = s[k + 1]
            <4>1. k + 1 \in 1 .. Len(s)
                BY <2>3
            <4> QED
                BY <4>1
        <3>2. s[k] = Unit(sc, s[k + 1].packet, s[k + 1].at)
            BY <1>2, <2>3, <3>1 DEF Orderly
        <3> QED
            BY <2>1, <3>1, <3>2
    <2> QED
        BY <2>1, <2>2, <2>3
<1>3. ASSUME NEW i \in 1 .. Len(t), NEW k \in 1 .. Len(t), i < k, t[i] # Ack, IsHeader(t[k])
      PROVE  t[i].packet < t[k].packet
    <2>1. i \in 1 .. Len(s) /\ t[i] = s[i] /\ s[i] # Ack
        BY <1>3
    <2>2. CASE k = Len(s) + 1
        <3>1. s[i].packet \in 1 .. n
            BY <2>1 DEF Orderly
        <3>2. t[k].packet \in 1 .. m /\ n < t[k].packet
            BY <1>3, <2>2 DEF IsHeader
        <3> QED
            BY <2>1, <3>1, <3>2
    <2>3. CASE k \in 1 .. Len(s)
        <3>1. t[k] = s[k] /\ IsHeader(s[k])
            BY <1>3, <2>3
        <3>2. s[i].packet < s[k].packet
            BY <1>3, <2>1, <2>3, <3>1 DEF Orderly
        <3> QED
            BY <2>1, <3>1, <3>2
    <2> QED
        BY <2>2, <2>3
<1> QED
    BY <1>1, <1>2, <1>3 DEF Orderly

LEMMA ViewIs ==
    ASSUME NEW S, NEW units \in Seq(S), NEW sc, NEW state, NEW h, NEW p
    PROVE  LET v == View(sc, state, h, p, units) IN
           /\ Len(v) \in Nat
           /\ state # "data" => v = units
           /\ state = "data" => /\ Len(v) = Len(units) + 1
                                /\ v[1] = Unit(sc, h.packet, p)
                                /\ \A k \in 1 .. Len(units) : v[k + 1] = units[k]
<1>1. CASE state # "data"
    BY <1>1 DEF View
<1>2. CASE state = "data"
    <2> DEFINE x == Unit(sc, h.packet, p)
    <2>1. View(sc, state, h, p, units) = <<x>> \o units
        BY <1>2 DEF View
    <2>2. Len(units) \in Nat
        OBVIOUS
    <2> HIDE DEF x
    <2>3. /\ Len(<<x>> \o units) = Len(units) + 1 /\ (<<x>> \o units)[1] = x
          /\ \A k \in 1 .. Len(units) : (<<x>> \o units)[k + 1] = units[k]
        BY ConsFacts
    <2> QED
        BY <1>2, <2>1, <2>2, <2>3 DEF x
<1> QED
    BY <1>1, <1>2

LEMMA ViewGrows ==
    ASSUME NEW S, NEW units \in Seq(S), NEW y \in S, NEW sc, NEW state, NEW h, NEW p
    PROVE  LET v == View(sc, state, h, p, units)
               t == View(sc, state, h, p, Append(units, y))
           IN  IsAppend(t, v, y)
<1> DEFINE more == Append(units, y)
           v == View(sc, state, h, p, units)
           t == View(sc, state, h, p, more)
<1>1. /\ more \in Seq(S) /\ Len(units) \in Nat /\ Len(more) = Len(units) + 1
      /\ \A k \in 1 .. Len(units) : more[k] = units[k]
      /\ more[Len(units) + 1] = y
    OBVIOUS
<1> HIDE DEF more
<1>2. /\ Len(v) \in Nat
      /\ state # "data" => v = units
      /\ state = "data" => /\ Len(v) = Len(units) + 1
                           /\ v[1] = Unit(sc, h.packet, p)
                           /\ \A k \in 1 .. Len(units) : v[k + 1] = units[k]
    BY ViewIs
<1>3. /\ Len(t) \in Nat
      /\ state # "data" => t = more
      /\ state = "data" => /\ Len(t) = Len(more) + 1
                           /\ t[1] = Unit(sc, h.packet, p)
                           /\ \A k \in 1 .. Len(more) : t[k + 1] = more[k]
    BY <1>1, ViewIs
<1> HIDE DEF v, t
<1>4. /\ Len(v) \in Nat /\ Len(t) = Len(v) + 1
      /\ \A k \in 1 .. Len(v) : t[k] = v[k]
      /\ t[Len(v) + 1] = y
    <2>1. CASE state # "data"
        BY <1>1, <1>2, <1>3, <2>1
    <2>2. CASE state = "data"
        <3>1. Len(t) = Len(v) + 1 /\ t[Len(v) + 1] = y
            BY <1>1, <1>2, <1>3, <2>2
        <3>2. ASSUME NEW k \in 1 .. Len(v) PROVE t[k] = v[k]
            <4>1. CASE k = 1
                BY <1>2, <1>3, <2>2, <4>1
            <4>2. CASE k # 1
                <5>1. PICK i \in 1 .. Len(units) : k = i + 1
                    BY <1>1, <1>2, <2>2, <4>2
                <5>2. t[i + 1] = more[i] /\ v[i + 1] = units[i] /\ more[i] = units[i]
                    BY <1>1, <1>2, <1>3, <2>2, <5>1
                <5> QED
                    BY <5>1, <5>2
            <4> QED
                BY <4>1, <4>2
        <3> QED
            BY <1>2, <3>1, <3>2
    <2> QED
        BY <2>1, <2>2
<1> QED
    BY <1>4 DEF v, t, more, IsAppend

-----------------------------------------------------------------------------
(***************************************************************************)
(* What a step does to what an end has before it                           *)
(***************************************************************************)
(* What end e has before it stays in order, and what it has read stays     *)
(* before it.                                                              *)
Keeps(e) ==
    /\ WayInv(e)'
    /\ \A n \in Nat : HasRead(e, n) => HasRead(e, n)'

Kept(e) == WayInv(e) => Keeps(e)

BegunGrows(e) == Begun(e) <= Begun(e)'

LEMMA BegunType ==
    ASSUME IInv, NEW e \in Ends
    PROVE  /\ Begun(e) \in Nat
           /\ st[e] # "idle" => Begun(e) = turn[e]
           /\ st[e] = "idle" => Begun(e) = turn[e] - 1
BY PacketFacts DEF Begun, IInv, EndsOK

LEMMA BegunNext ==
    ASSUME IInv, IInv', script' = script, NEW e \in Ends,
           \/ turn'[e] = turn[e] /\ (st[e] # "idle" => st'[e] # "idle")
           \/ turn'[e] = turn[e] + 1
    PROVE  BegunGrows(e) /\ Begun(e)' \in Nat
<1>1. turn[e] \in Nat /\ turn[e] >= 1 /\ turn'[e] \in Nat /\ turn'[e] >= 1
    <2>1. Len(script) \in Nat
        BY PacketFacts
    <2>2. /\ turn \in [Ends -> 1 .. (Len(script) + 1)]
          /\ turn' \in [Ends -> 1 .. (Len(script) + 1)]
        BY DEF IInv, EndsOK
    <2> QED
        BY <2>1, <2>2
<1> QED
    BY <1>1 DEF BegunGrows, Begun

(* The end takes units, or loses them, and nothing comes.                  *)
LEMMA Shrinks ==
    ASSUME IInv, IInv', script' = script, NEW e \in Ends, NEW w \in Ends, w = Other(e),
           BegunGrows(w),
           EndOf(Coming(e)', Coming(e)), EndOf(chan'[e], chan[e]),
           WriterAtWork(w)' => /\ WriterAtWork(w)
                               /\ turn'[w] = turn[w] /\ pos'[w] = pos[w],
           st'[e] = "data" =>
              /\ hdr'[e] = Unit(script, hdr'[e].packet, 0)
              /\ buf'[e] = [i \in 1 .. pos'[e] |-> DataByte(hdr'[e].packet, i - 1)]
              /\ \/ st[e] = "data" /\ hdr'[e] = hdr[e]
                 \/ /\ Len(chan[e]) > 0 /\ hdr'[e] = chan[e][1]
                    /\ IsHeader(chan[e][1])
    PROVE  Kept(e)
<1> SUFFICES ASSUME WayInv(e) PROVE Keeps(e)
    BY DEF Kept
<1>1. Begun(w) \in Nat /\ Begun(w)' \in Nat /\ Begun(w) <= Begun(w)'
    <2>1. turn'[w] \in 1 .. (Len(script) + 1) /\ Len(script) \in Nat
        BY PacketFacts DEF IInv, EndsOK
    <2> QED
        BY <2>1, BegunType DEF BegunGrows, Begun
<1>2. Len(Coming(e)) \in Nat /\ chan[e] \in Seq(Bytes \cup Headers)
    <2>1. chan[e] \in Seq(Bytes \cup Headers)
        BY DEF IInv, WireOK
    <2> QED
        BY <2>1, ViewIs DEF Coming
<1> DEFINE s == Coming(e)
           t == Coming(e)'
<1>3. Orderly(script, s, w, Begun(w)) /\ EndOf(t, s) /\ Len(s) \in Nat
    BY <1>2 DEF WayInv
<1> HIDE DEF s, t
<1>4. /\ Orderly(script, t, w, Begun(w)') /\ Len(t) \in Nat
      /\ Len(t) > 0 => Len(s) > 0 /\ t[Len(t)] = s[Len(s)]
    BY <1>1, <1>3, EndOrderly
<1>5. WriterAtWork(w)' /\ Len(t) > 0 => t[Len(t)] = Unit(script, turn'[w], pos'[w])
    BY <1>4 DEF WayInv, s
<1>6. WayInv(e)'
    BY <1>4, <1>5 DEF WayInv, t
<1>7. ASSUME NEW n \in Nat, HasRead(e, n) PROVE HasRead(e, n)'
    <2>1. n <= Begun(w)'
        BY <1>1, <1>7 DEF HasRead
    <2>2. PICK d \in 0 .. Len(chan[e]) :
             /\ Len(chan'[e]) = Len(chan[e]) - d
             /\ \A k \in 1 .. Len(chan'[e]) : chan'[e][k] = chan[e][k + d]
        BY DEF EndOf
    <2>3. ASSUME NEW k \in 1 .. Len(chan'[e]), IsHeader(chan'[e][k])
          PROVE  n < chan'[e][k].packet
        <3>1. Len(chan[e]) \in Nat
            BY <1>2
        <3>2. chan'[e][k] = chan[e][k + d] /\ k + d \in 1 .. Len(chan[e])
            BY <2>2, <3>1
        <3> QED
            BY <1>7, <2>3, <3>2 DEF HasRead
    <2>4. st'[e] = "data" => n < hdr'[e].packet
        <3>1. Len(chan[e]) > 0 => 1 \in 1 .. Len(chan[e])
            BY <1>2
        <3> QED
            BY <1>7, <3>1 DEF HasRead
    <2> QED
        BY <2>1, <2>3, <2>4 DEF HasRead
<1> QED
    BY <1>6, <1>7 DEF Keeps

(* A unit comes.                                                           *)
LEMMA Grows ==
    ASSUME IInv, IInv', script' = script, NEW e \in Ends, NEW w \in Ends, w = Other(e),
           BegunGrows(w), NEW x \in Bytes \cup Headers,
           chan'[e] = Append(chan[e], x),
           st'[e] = st[e], hdr'[e] = hdr[e], pos'[e] = pos[e], buf'[e] = buf[e],
           x # Ack => /\ x.packet \in 1 .. Begun(w)' /\ x.packet \in 1 .. Len(script)
                      /\ script[x.packet].from = w,
           IsHeader(x) => x = Unit(script, x.packet, 0) /\ Begun(w) < x.packet,
           x.kind = "byte" => WriterAtWork(w) /\ x = DataByte(turn[w], pos[w]),
           WriterAtWork(w)' => x = Unit(script, turn'[w], pos'[w])
    PROVE  Kept(e)
<1> SUFFICES ASSUME WayInv(e) PROVE Keeps(e)
    BY DEF Kept
<1>1. Begun(w) \in Nat /\ Begun(w)' \in Nat /\ Begun(w) <= Begun(w)'
    <2>1. turn'[w] \in 1 .. (Len(script) + 1) /\ Len(script) \in Nat
        BY PacketFacts DEF IInv, EndsOK
    <2> QED
        BY <2>1, BegunType DEF BegunGrows, Begun
<1>2. chan[e] \in Seq(Bytes \cup Headers)
    BY DEF IInv, WireOK
<1> DEFINE s == Coming(e)
           t == Coming(e)'
<1>3. t = View(script, st[e], hdr[e], pos[e], Append(chan[e], x))
    BY DEF Coming
<1>4. IsAppend(t, s, x)
    BY <1>2, <1>3, ViewGrows DEF Coming
<1>5. Orderly(script, s, w, Begun(w))
    BY DEF WayInv
<1>6. x.kind = "byte" /\ Len(s) > 0 => s[Len(s)] = Unit(script, x.packet, x.at)
    BY DEF WayInv, DataByte
<1> HIDE DEF s, t
<1>7. Orderly(script, t, w, Begun(w)')
    <2>1. PICK n \in Nat, m \in Nat : n = Begun(w) /\ m = Begun(w)'
        BY <1>1
    <2>2. MayFollow(script, s, w, n, m, x)
        BY <1>6, <2>1 DEF MayFollow
    <2>3. Orderly(script, s, w, n) /\ n <= m
        BY <1>1, <1>5, <2>1
    <2>4. Orderly(script, t, w, m)
        BY <1>4, <2>2, <2>3, AppendOrderly
    <2> QED
        BY <2>1, <2>4
<1>8. Len(t) \in Nat /\ t[Len(t)] = x
    BY <1>4 DEF IsAppend
<1>9. WayInv(e)'
    <2>1. st'[e] = "data" =>
             /\ hdr'[e] = Unit(script, hdr'[e].packet, 0)
             /\ buf'[e] = [i \in 1 .. pos'[e] |-> DataByte(hdr'[e].packet, i - 1)]
        BY DEF WayInv
    <2> QED
        BY <1>7, <1>8, <2>1 DEF WayInv, t
<1>10. ASSUME NEW n \in Nat, HasRead(e, n) PROVE HasRead(e, n)'
    <2>1. n <= Begun(w) /\ n <= Begun(w)'
        BY <1>1, <1>10 DEF HasRead
    <2>2. ASSUME NEW k \in 1 .. Len(chan'[e]), IsHeader(chan'[e][k])
          PROVE  n < chan'[e][k].packet
        <3>1. CASE k = Len(chan[e]) + 1
            <4>1. chan'[e][k] = x
                BY <1>2, <3>1
            <4>2. IsHeader(x) /\ x # Ack
                BY <2>2, <4>1 DEF IsHeader
            <4> QED
                BY <1>1, <2>1, <4>1, <4>2
        <3>2. CASE k \in 1 .. Len(chan[e])
            BY <1>2, <1>10, <2>2, <3>2 DEF HasRead
        <3> QED
            BY <1>2, <3>1, <3>2
    <2> QED
        BY <1>10, <2>1, <2>2 DEF HasRead
<1> QED
    BY <1>9, <1>10 DEF Keeps

LEMMA ComingIs ==
    ASSUME IInv, NEW e \in Ends
    PROVE  /\ chan[e] \in Seq(Bytes \cup Headers)
           /\ Len(Coming(e)) \in Nat
           /\ st[e] # "data" => Coming(e) = chan[e]
           /\ st[e] = "data" =>
                 /\ Len(Coming(e)) = Len(chan[e]) + 1
                 /\ Coming(e)[1] = Unit(script, hdr[e].packet, pos[e])
                 /\ \A k \in 1 .. Len(chan[e]) : Coming(e)[k + 1] = chan[e][k]
<1>1. chan[e] \in Seq(Bytes \cup Headers)
    BY DEF IInv, WireOK
<1> QED
    BY <1>1, ViewIs DEF Coming

LEMMA ComingNext ==
    ASSUME IInv', script' = script, NEW e \in Ends
    PROVE  /\ chan'[e] \in Seq(Bytes \cup Headers)
           /\ Len(Coming(e)') \in Nat
           /\ st'[e] # "data" => Coming(e)' = chan'[e]
           /\ st'[e] = "data" =>
                 /\ Len(Coming(e)') = Len(chan'[e]) + 1
                 /\ Coming(e)'[1] = Unit(script, hdr'[e].packet, pos'[e])
                 /\ \A k \in 1 .. Len(chan'[e]) : Coming(e)'[k + 1] = chan'[e][k]
<1>1. chan'[e] \in Seq(Bytes \cup Headers)
    BY DEF IInv, WireOK, Bytes, Headers
<1>2. Coming(e)' = View(script, st'[e], hdr'[e], pos'[e], chan'[e])
    BY DEF Coming
<1> DEFINE v == View(script, st'[e], hdr'[e], pos'[e], chan'[e])
<1>3. /\ Len(v) \in Nat
      /\ st'[e] # "data" => v = chan'[e]
      /\ st'[e] = "data" =>
            /\ Len(v) = Len(chan'[e]) + 1
            /\ v[1] = Unit(script, hdr'[e].packet, pos'[e])
            /\ \A k \in 1 .. Len(chan'[e]) : v[k + 1] = chan'[e][k]
    BY <1>1, ViewIs
<1> QED
    BY <1>1, <1>2, <1>3

LEMMA Ending ==
    /\ \A s : Len(s) \in Nat => EndOf(s, s)
    /\ \A s : s \in Seq(Bytes \cup Headers) => EndOf(<<>>, s)
    /\ \A s : s \in Seq(Bytes \cup Headers) /\ s # <<>> => EndOf(Tail(s), s)
<1>1. ASSUME NEW s, Len(s) \in Nat PROVE EndOf(s, s)
    <2>1. PICK d \in 0 .. Len(s) : d = 0
        BY <1>1
    <2>2. Len(s) = Len(s) - d /\ \A k \in 1 .. Len(s) : s[k] = s[k + d]
        BY <1>1, <2>1
    <2> QED
        BY <2>2 DEF EndOf
<1>2. ASSUME NEW s, s \in Seq(Bytes \cup Headers) PROVE EndOf(<<>>, s)
    <2>1. /\ Len(s) \in 0 .. Len(s) /\ Len(<<>>) = Len(s) - Len(s)
          /\ \A k \in 1 .. Len(<<>>) : <<>>[k] = s[k + Len(s)]
        BY <1>2
    <2> QED
        BY <2>1 DEF EndOf
<1>3. ASSUME NEW s, s \in Seq(Bytes \cup Headers), s # <<>> PROVE EndOf(Tail(s), s)
    <2>1. /\ 1 \in 0 .. Len(s) /\ Len(Tail(s)) = Len(s) - 1
          /\ \A k \in 1 .. Len(Tail(s)) : Tail(s)[k] = s[k + 1]
        BY <1>3
    <2> QED
        BY <2>1 DEF EndOf
<1> QED
    BY <1>1, <1>2, <1>3

(* What an end that leaves contents has before it, or that was not in any. *)
LEMMA ComingEnds ==
    ASSUME IInv, IInv', script' = script, NEW e \in Ends, st'[e] # "data",
           EndOf(chan'[e], chan[e])
    PROVE  EndOf(Coming(e)', Coming(e))
<1>1. CASE st[e] # "data"
    BY <1>1, ComingIs, ComingNext
<1>2. CASE st[e] = "data"
    <2>1. PICK d \in 0 .. Len(chan[e]) :
             /\ Len(chan'[e]) = Len(chan[e]) - d
             /\ \A k \in 1 .. Len(chan'[e]) : chan'[e][k] = chan[e][k + d]
        BY DEF EndOf
    <2> DEFINE s == Coming(e)
               t == Coming(e)'
    <2>2. /\ Len(chan[e]) \in Nat /\ Len(s) = Len(chan[e]) + 1
          /\ \A k \in 1 .. Len(chan[e]) : s[k + 1] = chan[e][k]
          /\ t = chan'[e]
        BY <1>2, ComingIs, ComingNext
    <2> HIDE DEF s, t
    <2>3. d + 1 \in 0 .. Len(s) /\ Len(t) = Len(s) - (d + 1)
        BY <2>1, <2>2
    <2>4. ASSUME NEW k \in 1 .. Len(t) PROVE t[k] = s[k + (d + 1)]
        <3>1. t[k] = chan[e][k + d] /\ k + d \in 1 .. Len(chan[e])
            BY <2>1, <2>2
        <3>2. s[(k + d) + 1] = chan[e][k + d] /\ (k + d) + 1 = k + (d + 1)
            BY <2>1, <2>2, <3>1
        <3> QED
            BY <3>1, <3>2
    <2>5. EndOf(t, s)
        BY <2>3, <2>4 DEF EndOf
    <2> QED
        BY <2>5 DEF s, t
<1> QED
    BY <1>1, <1>2

(* The end that does not move, if nothing is sent to it.                   *)
LEMMA StillKept ==
    ASSUME IInv, IInv', script' = script, NEW a \in Ends, NEW b \in Ends, b = Other(a),
           BegunGrows(a), chan'[b] = chan[b],
           st'[b] = st[b], pos'[b] = pos[b], buf'[b] = buf[b], hdr'[b] = hdr[b],
           WriterAtWork(a)' => /\ WriterAtWork(a)
                               /\ turn'[a] = turn[a] /\ pos'[a] = pos[a]
    PROVE  Kept(b)
<1> SUFFICES ASSUME WayInv(b) PROVE Kept(b)
    BY DEF Kept
<1>1. a = Other(b)
    BY TwoEnds
<1>2. Coming(b)' = Coming(b)
    BY DEF Coming
<1>3. EndOf(Coming(b)', Coming(b)) /\ EndOf(chan'[b], chan[b])
    BY <1>2, ComingIs, Ending
<1>4. st'[b] = "data" =>
         /\ hdr'[b] = Unit(script, hdr'[b].packet, 0)
         /\ buf'[b] = [i \in 1 .. pos'[b] |-> DataByte(hdr'[b].packet, i - 1)]
         /\ st[b] = "data" /\ hdr'[b] = hdr[b]
    BY DEF WayInv
<1> QED
    BY <1>1, <1>3, <1>4, Shrinks

(* The end that moves, if it leaves contents or was in none.               *)
LEMMA LeavingKept ==
    ASSUME IInv, IInv', script' = script, NEW a \in Ends, NEW b \in Ends, b = Other(a),
           st'[a] # "data", EndOf(chan'[a], chan[a]),
           turn'[b] = turn[b], st'[b] = st[b], pos'[b] = pos[b]
    PROVE  Kept(a)
<1>1. BegunGrows(b) /\ (WriterAtWork(b)' <=> WriterAtWork(b))
    <2>1. Begun(b)' = Begun(b)
        BY DEF Begun
    <2> QED
        BY <2>1, BegunType DEF BegunGrows, WriterAtWork
<1>2. EndOf(Coming(a)', Coming(a))
    BY ComingEnds
<1> QED
    BY <1>1, <1>2, Shrinks

(* What a step of one end leaves as it was: the other.                     *)
Aside(b) ==
    /\ turn'[b] = turn[b] /\ st'[b] = st[b] /\ pos'[b] = pos[b]
    /\ buf'[b] = buf[b] /\ hdr'[b] = hdr[b]

LEMMA ReturnSteps ==
    ASSUME IInv, NEW a \in Ends, NEW b \in Ends, b = Other(a), Return(a)
    PROVE  Aside(b) /\ turn'[a] = turn[a] + 1 /\ st'[a] = "idle"
<1>1. a # b
    BY TwoEnds
<1> QED
    BY <1>1 DEF Return, Aside, IInv, EndsOK

LEMMA WriteOnSteps ==
    ASSUME IInv, NEW a \in Ends, NEW b \in Ends, b = Other(a), NEW state,
           StillWriting(a, state), NEW i, pos' = [pos EXCEPT ![a] = i]
    PROVE  /\ Aside(b) /\ turn'[a] = turn[a] /\ st'[a] = state /\ pos'[a] = i
           /\ script' = script /\ log' = log
<1>1. a # b
    BY TwoEnds
<1> QED
    BY <1>1 DEF StillWriting, Goto, Aside, IInv, EndsOK

LEMMA ReadOnSteps ==
    ASSUME IInv, NEW a \in Ends, NEW b \in Ends, b = Other(a), NEW state,
           Goto(a, state), NEW i, pos' = [pos EXCEPT ![a] = i],
           NEW s, buf' = [buf EXCEPT ![a] = s], NEW h, hdr' = [hdr EXCEPT ![a] = h]
    PROVE  /\ Aside(b) /\ turn'[a] = turn[a] /\ st'[a] = state
           /\ pos'[a] = i /\ buf'[a] = s /\ hdr'[a] = h
<1>1. a # b
    BY TwoEnds
<1> QED
    BY <1>1 DEF Goto, Aside, IInv, EndsOK

LEMMA SameFields ==
    ASSUME IInv, NEW a \in Ends
    PROVE  /\ UNCHANGED pos => pos' = [pos EXCEPT ![a] = pos[a]]
           /\ UNCHANGED buf => buf' = [buf EXCEPT ![a] = buf[a]]
           /\ UNCHANGED hdr => hdr' = [hdr EXCEPT ![a] = hdr[a]]
BY DEF IInv, EndsOK

(* An end takes a unit and is not in contents then.                        *)
LEMMA TakesKept ==
    ASSUME IInv, IInv', script' = script, NEW a \in Ends, NEW b \in Ends, b = Other(a),
           chan[a] # <<>>, Take(a),
           Aside(b), st'[a] # "data", BegunGrows(a),
           WriterAtWork(a)' => /\ WriterAtWork(a)
                               /\ turn'[a] = turn[a] /\ pos'[a] = pos[a]
    PROVE  Kept(a) /\ Kept(b)
<1>1. chan'[a] = Tail(chan[a]) /\ chan'[b] = chan[b]
    BY TakeKeeps
<1>2. EndOf(chan'[a], chan[a])
    BY <1>1, ComingIs, Ending
<1>3. Kept(a)
    BY <1>2, LeavingKept DEF Aside
<1>4. Kept(b)
    BY <1>1, StillKept DEF Aside
<1> QED
    BY <1>3, <1>4

(* An end takes a unit, acknowledges it and is not in contents then.       *)
LEMMA AnswersKept ==
    ASSUME IInv, IInv', script' = script, NEW a \in Ends, NEW b \in Ends, b = Other(a),
           chan[a] # <<>>, TakeAndSend(a, Ack),
           Aside(b), st'[a] # "data", BegunGrows(a), ~WriterAtWork(a)'
    PROVE  Kept(a) /\ Kept(b)
<1>1. /\ chan'[a] = Tail(chan[a]) /\ chan'[b] = Append(chan[b], Ack)
      /\ Ack \in Bytes \cup Headers
    BY TakeAndSendKeeps, HeaderTypes
<1>2. EndOf(chan'[a], chan[a])
    BY <1>1, ComingIs, Ending
<1>3. Kept(a)
    BY <1>2, LeavingKept DEF Aside
<1>4. a = Other(b) /\ ~IsHeader(Ack) /\ Ack.kind # "byte"
    BY TwoEnds, AckIs
<1>5. Kept(b)
    BY <1>1, <1>4, Grows DEF Aside
<1> QED
    BY <1>3, <1>5

LEMMA WriteHeaderKept ==
    ASSUME IInv, IInv', NEW a \in Ends, NEW b \in Ends, b = Other(a),
           WriteHeader(a)
    PROVE  Kept(a) /\ Kept(b) /\ log' = log /\ script' = script
<1> DEFINE x == Header(turn[a], Packet(a).type, Packet(a).len)
<1>1. /\ Writer(a) /\ st[a] = "idle" /\ Send(a, x) /\ x \in Bytes \cup Headers
      /\ turn[a] \in 1 .. Len(script) /\ script[turn[a]].from = a /\ Len(script) \in Nat
    BY WriterFacts, PacketFacts DEF WriteHeader, Writer, Packet
<1>2. chan'[b] = Append(chan[b], x) /\ chan'[a] = chan[a]
    BY <1>1, SendKeeps
<1>3. pos[a] = 0
    BY <1>1 DEF IInv, EndsOK, EndInv
<1>4. /\ Aside(b) /\ script' = script /\ log' = log
      /\ \/ turn'[a] = turn[a] /\ st'[a] \in {"headerAck", "bytes"} /\ pos'[a] = 0
         \/ turn'[a] = turn[a] + 1 /\ st'[a] = "idle"
    <2>1. CASE UNCHANGED pos /\ \E state \in {"headerAck", "bytes"} : StillWriting(a, state)
        BY <1>3, <2>1, SameFields, WriteOnSteps
    <2>2. CASE WriteReturns(a, "MSG_OK")
        BY <2>2, ReturnSteps DEF WriteReturns
    <2> QED
        BY <2>1, <2>2 DEF WriteHeader
<1>5. /\ BegunGrows(a) /\ Begun(a)' = turn[a] /\ Begun(a) = turn[a] - 1
    BY <1>1, <1>4, BegunNext DEF Begun
<1>6. Kept(a)
    <2>1. EndOf(chan'[a], chan[a])
        BY <1>2, ComingIs, Ending
    <2>2. st'[a] # "data"
        BY <1>4
    <2> QED
        BY <1>4, <2>1, <2>2, LeavingKept DEF Aside
<1>7. /\ x = Unit(script, turn[a], 0) /\ x.packet = turn[a] /\ x.kind = "header"
    BY <1>1 DEF Unit, Header, Packet
<1>8. WriterAtWork(a)' => x = Unit(script, turn'[a], pos'[a])
    BY <1>4, <1>7 DEF WriterAtWork, AwaitingAck
<1>9. a = Other(b)
    BY TwoEnds
<1> HIDE DEF x
<1>10. Kept(b)
    <2>1. x.packet \in 1 .. Begun(a)' /\ Begun(a) < x.packet
        BY <1>1, <1>5, <1>7
    <2> QED
        BY <1>1, <1>2, <1>4, <1>5, <1>7, <1>8, <1>9, <2>1, Grows DEF Aside
<1> QED
    BY <1>4, <1>6, <1>10

LEMMA WriteByteKept ==
    ASSUME IInv, IInv', NEW a \in Ends, NEW b \in Ends, b = Other(a),
           WriteByte(a)
    PROVE  Kept(a) /\ Kept(b) /\ log' = log /\ script' = script
<1> DEFINE x == DataByte(turn[a], pos[a])
<1>1. Writer(a) /\ st[a] = "bytes"
    BY DEF WriteByte, IInv, EndsOK, EndInv
<1>2. /\ Send(a, x) /\ x \in Bytes \cup Headers /\ pos[a] \in Nat
      /\ turn[a] \in 1 .. Len(script) /\ script[turn[a]].from = a /\ Len(script) \in Nat
    BY <1>1, WriterFacts, PacketFacts DEF WriteByte, Writer, Packet
<1>3. chan'[b] = Append(chan[b], x) /\ chan'[a] = chan[a]
    BY <1>2, SendKeeps
<1>4. /\ Aside(b) /\ script' = script /\ log' = log
      /\ \/ /\ turn'[a] = turn[a] /\ st'[a] \in {"bytes", "blockAck", "finalAck"}
            /\ pos'[a] = pos[a] + 1
         \/ turn'[a] = turn[a] + 1 /\ st'[a] = "idle"
    <2>1. CASE /\ pos' = [pos EXCEPT ![a] = pos[a] + 1]
               /\ \E state \in {"bytes", "blockAck", "finalAck"} : StillWriting(a, state)
        <3>1. PICK i : i = pos[a] + 1
            OBVIOUS
        <3>2. PICK state \in {"bytes", "blockAck", "finalAck"} : StillWriting(a, state)
            BY <2>1
        <3>3. pos' = [pos EXCEPT ![a] = i]
            BY <2>1, <3>1
        <3>4. /\ Aside(b) /\ turn'[a] = turn[a] /\ st'[a] = state /\ pos'[a] = i
              /\ script' = script /\ log' = log
            BY <3>2, <3>3, WriteOnSteps
        <3> QED
            BY <3>1, <3>2, <3>4
    <2>2. CASE WriteReturns(a, "MSG_OK")
        BY <2>2, ReturnSteps DEF WriteReturns
    <2> QED
        BY <2>1, <2>2 DEF WriteByte
<1>5. BegunGrows(a) /\ Begun(a)' = turn[a] /\ Begun(a) = turn[a]
    BY <1>1, <1>2, <1>4, BegunNext DEF Begun
<1>6. Kept(a)
    <2>1. EndOf(chan'[a], chan[a])
        BY <1>3, ComingIs, Ending
    <2>2. st'[a] # "data"
        BY <1>4
    <2> QED
        BY <1>4, <2>1, <2>2, LeavingKept DEF Aside
<1>7. /\ x = Unit(script, turn[a], pos[a] + 1) /\ x.packet = turn[a] /\ x.kind = "byte"
      /\ ~IsHeader(x)
    BY <1>2 DEF Unit, DataByte, IsHeader
<1>8. WriterAtWork(a)' => x = Unit(script, turn'[a], pos'[a])
    BY <1>4, <1>7 DEF WriterAtWork, AwaitingAck
<1>9. a = Other(b) /\ WriterAtWork(a)
    BY <1>1, TwoEnds DEF WriterAtWork
<1>10. x.packet \in 1 .. Begun(a)'
    BY <1>2, <1>5, <1>7
<1>11. Kept(b)
    BY <1>2, <1>3, <1>4, <1>5, <1>7, <1>8, <1>9, <1>10, Grows DEF Aside
<1> QED
    BY <1>4, <1>6, <1>11

LEMMA WriteHexByteKept ==
    ASSUME IInv, IInv', NEW a \in Ends, NEW b \in Ends, b = Other(a),
           WriteHexByte(a)
    PROVE  Kept(a) /\ Kept(b) /\ log' = log /\ script' = script
<1> DEFINE x == DataByte(turn[a], pos[a])
           y == DataByte(turn[a], pos[a] + 1)
           n == turn[a]
<1>1. Writer(a) /\ st[a] = "bytes"
    BY DEF WriteHexByte, IInv, EndsOK, EndInv
<1>2. /\ pos[a] \in Nat /\ pos[a] + 1 \in Nat
      /\ n \in 1 .. Len(script) /\ script[n].from = a /\ Len(script) \in Nat
    BY <1>1, WriterFacts, PacketFacts DEF Writer, Packet
<1>3. x \in Bytes \cup Headers /\ y \in Bytes \cup Headers
    BY <1>1, <1>2, WriterFacts
<1>4. a = Other(b) /\ a # b /\ WriterAtWork(a)
    BY <1>1, TwoEnds DEF WriterAtWork
<1>5. /\ chan'[b] = Append(Append(chan[b], x), y) /\ chan'[a] = chan[a]
      /\ chan[b] \in Seq(Bytes \cup Headers)
      /\ Append(chan[b], x) \in Seq(Bytes \cup Headers)
    <2>1. chan \in [Ends -> Seq(Bytes \cup Headers)]
        BY DEF IInv, WireOK
    <2>2. chan' = [chan EXCEPT ![b] = @ \o <<x, y>>]
        BY DEF WriteHexByte
    <2>3. chan'[b] = chan[b] \o <<x, y>> /\ chan'[a] = chan[a]
        BY <1>4, <2>1, <2>2
    <2>4. chan[b] \in Seq(Bytes \cup Headers)
        BY <2>1
    <2> HIDE DEF x, y
    <2>5. chan[b] \o <<x, y>> = Append(Append(chan[b], x), y)
        BY <1>3, <2>4, Concats
    <2> QED
        BY <1>3, <2>3, <2>4, <2>5
<1>6. /\ Aside(b) /\ script' = script /\ log' = log
      /\ \/ /\ turn'[a] = n /\ st'[a] \in {"bytes", "hexAck"}
            /\ pos'[a] = pos[a] + 2
         \/ turn'[a] = n + 1 /\ st'[a] = "idle"
    <2>1. CASE /\ pos' = [pos EXCEPT ![a] = pos[a] + 2]
               /\ \E state \in {"bytes", "hexAck"} : StillWriting(a, state)
        <3>1. PICK i : i = pos[a] + 2
            OBVIOUS
        <3>2. PICK state \in {"bytes", "hexAck"} : StillWriting(a, state)
            BY <2>1
        <3>3. pos' = [pos EXCEPT ![a] = i]
            BY <2>1, <3>1
        <3>4. /\ Aside(b) /\ turn'[a] = turn[a] /\ st'[a] = state /\ pos'[a] = i
              /\ script' = script /\ log' = log
            BY <3>2, <3>3, WriteOnSteps
        <3> QED
            BY <1>3, <3>1, <3>2, <3>4
    <2>2. CASE WriteReturns(a, "MSG_OK")
        BY <2>2, ReturnSteps DEF WriteReturns
    <2> QED
        BY <2>1, <2>2 DEF WriteHexByte
<1>7. BegunGrows(a) /\ Begun(a)' = n /\ Begun(a) = n
    BY <1>1, <1>2, <1>6, BegunNext DEF Begun
<1>8. Kept(a)
    <2>1. EndOf(chan'[a], chan[a])
        BY <1>5, ComingIs, Ending
    <2>2. st'[a] # "data"
        BY <1>6
    <2> QED
        BY <1>6, <2>1, <2>2, LeavingKept DEF Aside
<1>9. Kept(b)
    <2> SUFFICES ASSUME WayInv(b) PROVE Keeps(b)
        BY DEF Kept
    <2>1. /\ x = Unit(script, n, pos[a] + 1) /\ x.packet = n /\ x.kind = "byte" /\ x.at = pos[a]
          /\ y = Unit(script, n, pos[a] + 2) /\ y.packet = n /\ y.kind = "byte"
          /\ y.at = pos[a] + 1
          /\ ~IsHeader(x) /\ ~IsHeader(y)
        BY <1>2 DEF Unit, DataByte, IsHeader
    <2>2. n \in Nat /\ n \in 1 .. n
        BY <1>2
    <2> DEFINE s == Coming(b)
               u == View(script, st[b], hdr[b], pos[b], Append(chan[b], x))
               t == Coming(b)'
    <2>3. IsAppend(u, s, x)
        BY <1>3, <1>5, ViewGrows DEF Coming
    <2>4. IsAppend(t, u, y)
        <3>1. t = View(script, st[b], hdr[b], pos[b], Append(Append(chan[b], x), y))
            BY <1>5, <1>6 DEF Coming, Aside
        <3> QED
            BY <1>3, <1>5, <3>1, ViewGrows
    <2>5. Orderly(script, s, a, n) /\ (Len(s) > 0 => s[Len(s)] = Unit(script, n, pos[a]))
        BY <1>4, <1>7 DEF WayInv
    <2> HIDE DEF s, u, t, x, y, n
    <2>6. Orderly(script, u, a, n)
        <3>1. MayFollow(script, s, a, n, n, x)
            BY <1>2, <2>1, <2>2, <2>5 DEF MayFollow
        <3>2. n <= n
            BY <2>2
        <3> QED
            BY <2>2, <2>3, <2>5, <3>1, <3>2, AppendOrderly
    <2>7. Orderly(script, t, a, n) /\ t[Len(t)] = y
        <3>1. u[Len(u)] = x
            BY <2>3 DEF IsAppend
        <3>2. MayFollow(script, u, a, n, n, y)
            BY <1>2, <2>1, <2>2, <3>1 DEF MayFollow
        <3>3. n <= n
            BY <2>2
        <3>4. Orderly(script, t, a, n)
            BY <2>2, <2>4, <2>6, <3>2, <3>3, AppendOrderly
        <3> QED
            BY <2>4, <3>4 DEF IsAppend
    <2>8. WayInv(b)'
        <3>1. WriterAtWork(a)' => y = Unit(script, turn'[a], pos'[a])
            BY <1>6, <2>1 DEF WriterAtWork, AwaitingAck
        <3>2. st'[b] = "data" =>
                 /\ hdr'[b] = Unit(script, hdr'[b].packet, 0)
                 /\ buf'[b] = [i \in 1 .. pos'[b] |-> DataByte(hdr'[b].packet, i - 1)]
            BY <1>6 DEF WayInv, Aside
        <3> QED
            BY <1>4, <1>6, <1>7, <2>7, <3>1, <3>2 DEF WayInv, t
    <2>9. ASSUME NEW k \in Nat, HasRead(b, k) PROVE HasRead(b, k)'
        <3>1. ASSUME NEW i \in 1 .. Len(chan'[b]), IsHeader(chan'[b][i])
              PROVE  i \in 1 .. Len(chan[b]) /\ chan'[b][i] = chan[b][i]
            <4>1. /\ Len(chan'[b]) = Len(chan[b]) + 2 /\ Len(chan[b]) \in Nat
                  /\ chan'[b][Len(chan[b]) + 1] = x /\ chan'[b][Len(chan[b]) + 2] = y
                  /\ \A j \in 1 .. Len(chan[b]) : chan'[b][j] = chan[b][j]
                BY <1>3, <1>5
            <4> QED
                BY <2>1, <3>1, <4>1
        <3> QED
            BY <1>4, <1>6, <1>7, <2>9, <3>1 DEF HasRead, Aside
    <2> QED
        BY <2>8, <2>9 DEF Keeps
<1> QED
    BY <1>6, <1>8, <1>9

(* The steps that take an acknowledgement, or whatever came for one.       *)
LEMMA AckedKept ==
    ASSUME IInv, IInv', NEW a \in Ends, NEW b \in Ends, b = Other(a),
           HeaderAcked(a) \/ HexBlockAcked(a) \/ BlockAcked(a) \/ FinalAcked(a)
    PROVE  Kept(a) /\ Kept(b) /\ log' = log /\ script' = script
<1>1. /\ chan[a] # <<>> /\ Take(a) /\ WriterAtWork(a) /\ st[a] # "idle"
    BY DEF HeaderAcked, HexBlockAcked, BlockAcked, FinalAcked, Has, WriterAtWork, AwaitingAck
<1>2. \/ UNCHANGED pos /\ StillWriting(a, "bytes")
      \/ \E result \in {"MSG_OK", "MSG_NO_ACK"} : WriteReturns(a, result)
    BY DEF HeaderAcked, HexBlockAcked, BlockAcked, FinalAcked
<1>3. /\ Aside(b) /\ script' = script /\ log' = log
      /\ \/ turn'[a] = turn[a] /\ st'[a] = "bytes" /\ pos'[a] = pos[a]
         \/ turn'[a] = turn[a] + 1 /\ st'[a] = "idle"
    <2>1. CASE UNCHANGED pos /\ StillWriting(a, "bytes")
        BY <2>1, SameFields, WriteOnSteps
    <2>2. CASE \E result \in {"MSG_OK", "MSG_NO_ACK"} : WriteReturns(a, result)
        BY <2>2, ReturnSteps DEF WriteReturns
    <2> QED
        BY <1>2, <2>1, <2>2
<1>4. BegunGrows(a) /\ st'[a] # "data"
    BY <1>1, <1>3, BegunNext
<1>5. WriterAtWork(a)' => turn'[a] = turn[a] /\ pos'[a] = pos[a]
    BY <1>3 DEF WriterAtWork, AwaitingAck
<1> QED
    BY <1>1, <1>3, <1>4, <1>5, TakesKept

LEMMA PassingKept ==
    ASSUME IInv, IInv', NEW a \in Ends, NEW b \in Ends, b = Other(a),
           RejectLength(a) \/ Skip(a) \/ Garble(a) \/ Reset(a)
    PROVE  Kept(a) /\ Kept(b) /\ log' = log /\ script' = script /\ astray \subseteq astray'
<1>1. CASE RejectLength(a)
    <2>1. /\ chan[a] # <<>> /\ Take(a) /\ Aside(b) /\ script' = script /\ log' = log
          /\ turn'[a] = turn[a] + 1 /\ st'[a] = "idle" /\ astray' = astray
        BY <1>1, ReturnSteps DEF RejectLength, Has
    <2>2. BegunGrows(a) /\ ~WriterAtWork(a)' /\ st'[a] # "data"
        BY <2>1, BegunNext DEF WriterAtWork, AwaitingAck
    <2> QED
        BY <2>1, <2>2, TakesKept
<1>2. CASE Skip(a)
    <2>1. /\ chan[a] # <<>> /\ Take(a) /\ script' = script /\ log' = log
          /\ st[a] # "data" /\ astray \subseteq astray'
          /\ UNCHANGED <<turn, st, pos, buf, hdr>>
        BY <1>2 DEF Skip, Has, GoesAstray
    <2>2. /\ Aside(b) /\ BegunGrows(a) /\ st'[a] # "data"
          /\ WriterAtWork(a)' => WriterAtWork(a)
        BY <2>1, BegunNext DEF WriterAtWork, Aside
    <2> QED
        BY <2>1, <2>2, TakesKept
<1>3. CASE Garble(a)
    <2>1. /\ script' = script /\ log' = log /\ astray \subseteq astray'
          /\ UNCHANGED <<turn, st, pos, buf, hdr, chan>>
        BY <1>3 DEF Garble, GoesAstray
    <2>2. \A e \in Ends : BegunGrows(e) /\ (WriterAtWork(e)' => WriterAtWork(e))
        BY <2>1, BegunNext DEF WriterAtWork
    <2>3. Kept(b)
        BY <2>1, <2>2, StillKept
    <2>4. Kept(a)
        <3>1. a = Other(b)
            BY TwoEnds
        <3> QED
            BY <2>1, <2>2, <3>1, StillKept
    <2> QED
        BY <2>1, <2>3, <2>4
<1>4. CASE Reset(a)
    <2>1. /\ Aside(b) /\ script' = script /\ log' = log /\ astray \subseteq astray'
          /\ st'[a] = "idle" /\ turn'[a] = turn[a] + 1
        BY <1>4, ReturnSteps DEF Reset
    <2>2. chan' \in {chan, [chan EXCEPT ![a] = <<>>]}
        BY <1>4 DEF Reset
    <2>3. chan'[b] = chan[b] /\ chan'[a] \in {chan[a], <<>>}
        BY <2>2, TwoEnds DEF IInv, WireOK
    <2>4. EndOf(chan'[a], chan[a])
        BY <2>3, ComingIs, Ending
    <2>5. BegunGrows(a) /\ ~WriterAtWork(a)' /\ st'[a] # "data"
        BY <2>1, BegunNext DEF WriterAtWork, AwaitingAck
    <2>6. Kept(a)
        BY <2>1, <2>4, <2>5, LeavingKept DEF Aside
    <2>7. Kept(b)
        BY <2>1, <2>3, <2>5, StillKept DEF Aside
    <2> QED
        BY <2>1, <2>6, <2>7
<1> QED
    BY <1>1, <1>2, <1>3, <1>4

(* An end that is astray, or loses what was on its wire and is astray      *)
(* then, leaves what the other has before it in order.                     *)
LEMMA AstrayKept ==
    ASSUME IInv, IInv', NEW a \in Ends, NEW b \in Ends, b = Other(a),
           Stray(a) \/ Overrun(a)
    PROVE  /\ a \in astray' /\ astray \subseteq astray'
           /\ Kept(b) /\ log' = log /\ script' = script
<1>1. /\ script' = script /\ log' = log /\ a \in astray' /\ astray \subseteq astray'
      /\ UNCHANGED <<turn, st, pos, buf, hdr>>
    BY DEF Stray, Overrun, GoesAstray
<1>2. \E units : chan' = [chan EXCEPT ![a] = units]
    BY DEF Stray, Overrun
<1>3. chan'[b] = chan[b]
    BY <1>2, TwoEnds DEF IInv, WireOK
<1>4. BegunGrows(a) /\ (WriterAtWork(a)' => WriterAtWork(a))
    BY <1>1, BegunNext DEF WriterAtWork
<1>5. Kept(b)
    BY <1>1, <1>3, <1>4, StillKept
<1> QED
    BY <1>1, <1>5

(* So it does when it reads: nothing but acknowledgements goes out.        *)
LEMMA AstrayReadsKept ==
    ASSUME IInv, IInv', NEW a \in Ends, NEW b \in Ends, b = Other(a), a \in astray,
           ReadHeader(a) \/ ReadByte(a)
    PROVE  Kept(b) /\ log' = log /\ script' = script /\ astray' = astray
<1>1. /\ script' = script /\ log' = log /\ astray' = astray
      /\ chan[a] # <<>> /\ (Take(a) \/ TakeAndSend(a, Ack))
    BY DEF ReadHeader, ReadByte, ReadReturns, Has
<1>2. \/ Return(a)
      \/ /\ Goto(a, "data")
         /\ \A e \in Ends \ {a} : pos'[e] = pos[e] /\ buf'[e] = buf[e] /\ hdr'[e] = hdr[e]
    BY DEF ReadHeader, ReadByte, ReadReturns, IInv, EndsOK
<1>3. a # b
    BY TwoEnds
<1>4. /\ Aside(b) /\ ~WriterAtWork(a)' /\ st[a] \in {"idle", "data"}
      /\ \/ turn'[a] = turn[a] /\ st'[a] = "data"
         \/ turn'[a] = turn[a] + 1
    <2>1. st[a] \in {"idle", "data"}
        BY DEF ReadHeader, ReadByte
    <2>2. CASE Return(a)
        BY <2>1, <2>2, ReturnSteps DEF WriterAtWork, AwaitingAck
    <2>3. CASE /\ Goto(a, "data")
               /\ \A e \in Ends \ {a} : pos'[e] = pos[e] /\ buf'[e] = buf[e] /\ hdr'[e] = hdr[e]
        <3>1. turn' = turn /\ st'[a] = "data" /\ st'[b] = st[b]
            BY <1>3, <2>3 DEF Goto, IInv, EndsOK
        <3> QED
            BY <1>3, <2>1, <2>3, <3>1 DEF Aside, WriterAtWork, AwaitingAck
    <2> QED
        BY <1>2, <2>2, <2>3
<1>5. BegunGrows(a)
    BY <1>1, <1>4, BegunNext
<1>6. CASE Take(a)
    <2>1. chan'[b] = chan[b]
        BY <1>1, <1>6, TakeKeeps
    <2> QED
        BY <1>1, <1>4, <1>5, <2>1, StillKept DEF Aside
<1>7. CASE TakeAndSend(a, Ack)
    <2>1. chan'[b] = Append(chan[b], Ack) /\ Ack \in Bytes \cup Headers
        BY <1>1, <1>7, TakeAndSendKeeps, HeaderTypes
    <2>2. a = Other(b) /\ ~IsHeader(Ack) /\ Ack.kind # "byte"
        BY TwoEnds, AckIs
    <2> QED
        BY <1>1, <1>4, <1>5, <2>1, <2>2, Grows DEF Aside
<1> QED
    BY <1>1, <1>6, <1>7

(* The head of what comes to an end that is in no contents.                *)
LEMMA HeaderCame ==
    ASSUME IInv, NEW a \in Ends, NEW b \in Ends, b = Other(a), WayInv(a),
           st[a] # "data", chan[a] # <<>>, Head(chan[a]).kind = "header"
    PROVE  LET h == Head(chan[a])
               m == h.packet
           IN
           /\ h = chan[a][1] /\ Len(chan[a]) > 0 /\ h \in Headers
           /\ h.cmd = "ACK" => h = Ack
           /\ h.cmd # "ACK" =>
                 /\ IsHeader(h) /\ h = Unit(script, m, 0)
                 /\ m \in 1 .. Len(script) /\ script[m].from = b
                 /\ m <= Begun(b)
                 /\ \A k \in 1 .. Len(Tail(chan[a])) :
                       IsHeader(Tail(chan[a])[k]) => m < Tail(chan[a])[k].packet
<1> DEFINE h == Head(chan[a])
<1>1. /\ chan[a] \in Seq(Bytes \cup Headers) /\ Coming(a) = chan[a]
      /\ h = chan[a][1] /\ Len(chan[a]) > 0 /\ Len(chan[a]) \in Nat /\ h \in Headers
    BY ComingIs, HeadUnit
<1>2. Orderly(script, chan[a], b, Begun(b)) /\ Begun(b) \in Nat
    BY <1>1, BegunType DEF WayInv
<1>3. CASE h = Ack
    BY <1>1, <1>3, AckIs
<1>4. CASE h # Ack
    <2>1. IsHeader(h) /\ 1 \in 1 .. Len(chan[a])
        BY <1>1, <1>4 DEF IsHeader
    <2>2. /\ h.packet \in 1 .. Begun(b) /\ h.packet \in 1 .. Len(script)
          /\ script[h.packet].from = b /\ h = Unit(script, h.packet, 0)
        BY <1>1, <1>2, <1>4, <2>1 DEF Orderly
    <2>3. h.cmd # "ACK"
        BY <2>2, PacketFacts DEF Unit, Header
    <2>4. ASSUME NEW k \in 1 .. Len(Tail(chan[a])), IsHeader(Tail(chan[a])[k])
          PROVE  h.packet < Tail(chan[a])[k].packet
        <3>1. Tail(chan[a])[k] = chan[a][k + 1] /\ k + 1 \in 1 .. Len(chan[a]) /\ 1 < k + 1
            BY <1>1
        <3> QED
            BY <1>1, <1>2, <1>4, <2>1, <2>4, <3>1 DEF Orderly
    <2> QED
        BY <1>1, <1>2, <2>1, <2>2, <2>3, <2>4
<1> QED
    BY <1>3, <1>4

(* Packet m was handed over by read_packet, and comes after those before.  *)
Delivers(a, m) ==
    /\ m \in 1 .. Len(script) /\ script[m].from = Other(a)
    /\ log' = Append(log, WholePacket(m))
    /\ HasRead(a, m)'
    /\ \A n \in Nat : HasRead(a, n) => n < m

Logs(a) ==
    \/ log' = log
    \/ \E entry : entry.cmd = "ACK" /\ log' = Append(log, entry) /\ Len(script) > 0
    \/ \E m \in Nat : Delivers(a, m)

LEMMA ReadHeaderKept ==
    ASSUME IInv, IInv', NEW a \in Ends, NEW b \in Ends, b = Other(a),
           WayInv(a), a \notin astray, ReadHeader(a)
    PROVE  /\ Kept(a) /\ Kept(b) /\ Logs(a)
           /\ script' = script /\ astray' = astray
<1> DEFINE h == Head(chan[a])
           m == h.packet
<1>1. /\ st[a] = "idle" /\ chan[a] # <<>> /\ h.kind = "header"
      /\ TakeAndSend(a, Ack) \/ Take(a)
    BY DEF ReadHeader, Has
<1>2. /\ h = chan[a][1] /\ Len(chan[a]) > 0 /\ h \in Headers
      /\ h.cmd = "ACK" => h = Ack
      /\ h.cmd # "ACK" =>
            /\ IsHeader(h) /\ h = Unit(script, m, 0)
            /\ m \in 1 .. Len(script) /\ script[m].from = b
            /\ m <= Begun(b)
            /\ \A k \in 1 .. Len(Tail(chan[a])) :
                  IsHeader(Tail(chan[a])[k]) => m < Tail(chan[a])[k].packet
    BY <1>1, HeaderCame
<1>3. /\ chan'[a] = Tail(chan[a])
      /\ chan[a] \in Seq(Bytes \cup Headers)
    BY <1>1, TakeKeeps, TakeAndSendKeeps, HeaderTypes, ComingIs
<1>4. pos[a] = 0 /\ buf[a] = <<>> /\ Engaged(a) /\ Len(script) > 0
    BY <1>1, PacketFacts DEF ReadHeader, Reader, IInv, EndsOK, EndInv
<1>5. CASE /\ h.cmd # "ACK" /\ h.len > 0 /\ Goto(a, "data")
           /\ hdr' = [hdr EXCEPT ![a] = h]
           /\ UNCHANGED <<script, pos, buf, astray, log, outcome, refused, resets>>
    <2>1. /\ Aside(b) /\ turn'[a] = turn[a] /\ st'[a] = "data" /\ pos'[a] = 0
          /\ buf'[a] = <<>> /\ hdr'[a] = h /\ script' = script /\ log' = log
        <3>1. pos' = [pos EXCEPT ![a] = 0] /\ buf' = [buf EXCEPT ![a] = <<>>]
            BY <1>4, <1>5, SameFields
        <3>2. Goto(a, "data") /\ hdr' = [hdr EXCEPT ![a] = h]
            BY <1>5
        <3>3. script' = script /\ log' = log
            BY <1>5
        <3> HIDE DEF h
        <3>4. /\ Aside(b) /\ turn'[a] = turn[a] /\ st'[a] = "data"
              /\ pos'[a] = 0 /\ buf'[a] = <<>> /\ hdr'[a] = h
            BY <3>1, <3>2, ReadOnSteps
        <3> QED
            BY <3>3, <3>4
    <2>2. BegunGrows(a) /\ ~WriterAtWork(a)' /\ BegunGrows(b)
        BY <1>1, <2>1, BegunNext DEF WriterAtWork, AwaitingAck, Aside
    <2>3. WriterAtWork(b)' => WriterAtWork(b)
        BY <2>1 DEF Aside, WriterAtWork
    <2>4. EndOf(Coming(a)', Coming(a)) /\ EndOf(chan'[a], chan[a])
        <3> DEFINE s == Coming(a)
                   t == Coming(a)'
        <3>1. /\ s = chan[a] /\ Len(s) \in Nat /\ Len(t) = Len(chan'[a]) + 1
              /\ t[1] = h
              /\ \A k \in 1 .. Len(chan'[a]) : t[k + 1] = chan'[a][k]
            BY <1>1, <1>2, <1>5, <2>1, ComingIs, ComingNext
        <3> HIDE DEF s, t
        <3>2. /\ Len(chan'[a]) = Len(s) - 1
              /\ \A k \in 1 .. Len(chan'[a]) : chan'[a][k] = s[k + 1]
            BY <1>1, <1>3, <3>1
        <3>3. Len(t) = Len(s) /\ Len(chan'[a]) \in Nat
            BY <1>2, <3>1, <3>2
        <3>4. ASSUME NEW k \in 1 .. Len(t) PROVE t[k] = s[k]
            <4>1. CASE k = 1
                BY <1>2, <3>1, <4>1
            <4>2. CASE k # 1
                <5>1. k - 1 \in 1 .. Len(chan'[a]) /\ (k - 1) + 1 = k
                    BY <3>1, <3>3, <4>2
                <5>2. t[(k - 1) + 1] = s[(k - 1) + 1]
                    BY <3>1, <3>2, <5>1
                <5> QED
                    BY <5>1, <5>2
            <4> QED
                BY <4>1, <4>2
        <3>5. /\ 0 \in 0 .. Len(s) /\ Len(t) = Len(s) - 0
              /\ \A k \in 1 .. Len(t) : t[k] = s[k + 0]
            BY <3>1, <3>3, <3>4
        <3>6. EndOf(t, s)
            BY <3>5 DEF EndOf
        <3>7. EndOf(chan'[a], chan[a])
            BY <1>1, <1>3, Ending
        <3> QED
            BY <3>6, <3>7 DEF s, t
    <2>5. hdr'[a] = Unit(script, hdr'[a].packet, 0)
        BY <1>2, <1>5, <2>1
    <2>6. buf'[a] = [i \in 1 .. pos'[a] |-> DataByte(hdr'[a].packet, i - 1)]
        <3>1. [i \in 1 .. 0 |-> DataByte(hdr'[a].packet, i - 1)] = <<>>
            OBVIOUS
        <3> QED
            BY <2>1, <3>1
    <2>7. Kept(a)
        <3>1. /\ Len(chan[a]) > 0 /\ hdr'[a] = chan[a][1] /\ IsHeader(chan[a][1])
            BY <1>2, <1>5, <2>1
        <3> QED
            BY <2>1, <2>2, <2>3, <2>4, <2>5, <2>6, <3>1, Shrinks DEF Aside
    <2>8. Kept(b)
        <3>1. CASE Take(a)
            <4>1. chan'[b] = chan[b]
                BY <1>1, <3>1, TakeKeeps
            <4> QED
                BY <2>1, <2>2, <4>1, StillKept DEF Aside
        <3>2. CASE TakeAndSend(a, Ack)
            <4>1. chan'[b] = Append(chan[b], Ack) /\ Ack \in Bytes \cup Headers
                BY <1>1, <3>2, TakeAndSendKeeps, HeaderTypes
            <4>2. a = Other(b) /\ ~IsHeader(Ack) /\ Ack.kind # "byte"
                BY TwoEnds, AckIs
            <4> QED
                BY <2>1, <2>2, <4>1, <4>2, Grows DEF Aside
        <3> QED
            BY <1>1, <3>1, <3>2
    <2> QED
        BY <1>5, <2>1, <2>7, <2>8 DEF Logs
<1>6. CASE (h.cmd = "ACK" \/ h.len = 0) /\ ReadReturns(a, h.cmd, <<>>)
    <2>1. /\ Aside(b) /\ turn'[a] = turn[a] + 1 /\ st'[a] = "idle" /\ script' = script
          /\ log' = Append(log, [cmd |-> h.cmd, bytes |-> <<>>]) /\ astray' = astray
        BY <1>6, ReturnSteps DEF ReadReturns
    <2>2. BegunGrows(a) /\ ~WriterAtWork(a)' /\ st'[a] # "data"
        BY <2>1, BegunNext DEF WriterAtWork, AwaitingAck
    <2>3. Kept(a) /\ Kept(b)
        BY <1>1, <2>1, <2>2, TakesKept, AnswersKept
    <2>4. CASE h.cmd = "ACK"
        BY <1>4, <2>1, <2>3, <2>4 DEF Logs
    <2>5. CASE h.cmd # "ACK"
        <3>1. h.cmd = script[m].type /\ script[m].len = 0 /\ m \in Nat
            BY <1>2, <1>6, <2>5 DEF Unit, Header
        <3>2. WholePacket(m) = [cmd |-> h.cmd, bytes |-> <<>>]
            <4>1. [i \in 1 .. 0 |-> DataByte(m, i - 1)] = <<>>
                OBVIOUS
            <4> QED
                BY <3>1, <4>1 DEF WholePacket
        <3>3. PICK c \in Nat : c = m
            BY <3>1
        <3>4. HasRead(a, c)'
            <4>1. Begun(b)' = Begun(b)
                BY <2>1 DEF Begun, Aside
            <4>2. c <= Begun(Other(a))'
                BY <1>2, <2>5, <3>3, <4>1
            <4>3. \A k \in 1 .. Len(chan'[a]) :
                     IsHeader(chan'[a][k]) => c < chan'[a][k].packet
                BY <1>2, <1>3, <2>5, <3>3
            <4>4. st'[a] # "data"
                BY <2>1
            <4> QED
                BY <4>2, <4>3, <4>4 DEF HasRead
        <3>5. ASSUME NEW n \in Nat, HasRead(a, n) PROVE n < c
            <4>1. 1 \in 1 .. Len(chan[a])
                BY <1>2, <1>3
            <4> QED
                BY <1>2, <2>5, <3>3, <3>5, <4>1 DEF HasRead
        <3>6. log' = Append(log, WholePacket(c))
            BY <2>1, <3>2, <3>3
        <3>7. c \in 1 .. Len(script) /\ script[c].from = Other(a)
            BY <1>2, <2>5, <3>3
        <3>8. Delivers(a, c)
            BY <3>4, <3>5, <3>6, <3>7 DEF Delivers
        <3> QED
            BY <2>1, <2>3, <3>8 DEF Logs
    <2> QED
        BY <2>4, <2>5
<1> QED
    BY <1>5, <1>6 DEF ReadHeader

(* The next byte of what an end reads.                                     *)
LEMMA ByteCame ==
    ASSUME IInv, NEW a \in Ends, NEW b \in Ends, b = Other(a), WayInv(a),
           st[a] = "data", chan[a] # <<>>, Head(chan[a]).kind = "byte",
           NEW m \in Nat, m = hdr[a].packet
    PROVE  /\ Head(chan[a]) = DataByte(m, pos[a]) /\ pos[a] \in Nat
           /\ hdr[a].cmd = script[m].type /\ hdr[a].len = script[m].len
           /\ m \in 1 .. Len(script) /\ script[m].from = b /\ m <= Begun(b)
           /\ \A k \in 1 .. Len(chan[a]) : IsHeader(chan[a][k]) => m < chan[a][k].packet
<1> DEFINE x == Head(chan[a])
           s == Coming(a)
<1>1. /\ chan[a] \in Seq(Bytes \cup Headers) /\ Len(chan[a]) \in Nat /\ Len(chan[a]) > 0
      /\ x = chan[a][1] /\ x \in Bytes
      /\ Len(s) = Len(chan[a]) + 1 /\ s[1] = Unit(script, m, pos[a])
      /\ \A k \in 1 .. Len(chan[a]) : s[k + 1] = chan[a][k]
    <2>1. /\ Len(s) = Len(chan[a]) + 1 /\ s[1] = Unit(script, m, pos[a])
          /\ \A k \in 1 .. Len(chan[a]) : s[k + 1] = chan[a][k]
        BY ComingIs
    <2>2. chan[a] \in Seq(Bytes \cup Headers)
        BY ComingIs
    <2>3. /\ Len(chan[a]) \in Nat /\ Len(chan[a]) > 0
          /\ x = chan[a][1] /\ x \in Bytes
        BY <2>2, HeadUnit
    <2> QED
        BY <2>1, <2>2, <2>3
<1>2. /\ pos[a] \in Nat /\ hdr[a].cmd # "ACK" /\ hdr[a] = Unit(script, m, 0)
      /\ Orderly(script, s, b, Begun(b)) /\ Begun(b) \in Nat
    BY BegunType DEF WayInv, IInv, EndsOK, EndInv
<1> HIDE DEF s
<1>3. x.packet \in Nat /\ x.at \in Nat /\ x = DataByte(x.packet, x.at)
    BY <1>1 DEF Bytes, DataByte
<1>4. Unit(script, m, pos[a]) = Unit(script, x.packet, x.at)
    <2>1. 1 \in 1 .. (Len(s) - 1) /\ s[1 + 1] = x
        BY <1>1
    <2> QED
        BY <1>1, <1>2, <2>1 DEF Orderly
<1>5. x = DataByte(m, pos[a])
    BY <1>2, <1>3, <1>4, SameUnit
<1>6. hdr[a].cmd = script[m].type /\ hdr[a].len = script[m].len
    BY <1>2 DEF Unit, Header
<1>7. s[1] # Ack /\ s[1].packet = m
    <2>1. CASE pos[a] = 0
        BY <1>1, <1>2, <2>1, AckIs
    <2>2. CASE pos[a] # 0
        BY <1>1, <1>2, <2>2, AckIs DEF Unit, DataByte
    <2> QED
        BY <2>1, <2>2
<1>8. m \in 1 .. Len(script) /\ script[m].from = b /\ m <= Begun(b)
    <2>1. 1 \in 1 .. Len(s)
        BY <1>1
    <2>2. /\ s[1].packet \in 1 .. Begun(b) /\ s[1].packet \in 1 .. Len(script)
          /\ script[s[1].packet].from = b
        BY <1>2, <1>7, <2>1 DEF Orderly
    <2>3. m \in 1 .. Begun(b) /\ m \in 1 .. Len(script) /\ script[m].from = b
        BY <1>7, <2>2
    <2> QED
        BY <1>2, <2>3
<1>9. ASSUME NEW k \in 1 .. Len(chan[a]), IsHeader(chan[a][k])
      PROVE  m < chan[a][k].packet
    <2>1. /\ 1 \in 1 .. Len(s) /\ k + 1 \in 1 .. Len(s) /\ 1 < k + 1
          /\ s[k + 1] = chan[a][k]
        BY <1>1
    <2> QED
        BY <1>2, <1>7, <1>9, <2>1 DEF Orderly
<1> QED
    BY <1>2, <1>5, <1>6, <1>8, <1>9

LEMMA ReadByteKept ==
    ASSUME IInv, IInv', NEW a \in Ends, NEW b \in Ends, b = Other(a),
           WayInv(a), a \notin astray, ReadByte(a)
    PROVE  /\ Kept(a) /\ Kept(b) /\ Logs(a)
           /\ script' = script /\ astray' = astray
<1>1. /\ st[a] = "data" /\ chan[a] # <<>> /\ Head(chan[a]).kind = "byte"
      /\ TakeAndSend(a, Ack) \/ Take(a)
    BY DEF ReadByte, Has
<1>2. PICK m \in Nat : m = hdr[a].packet
    BY DEF IInv, EndsOK, Headers
<1>3. PICK p \in Nat : p = pos[a]
    BY DEF IInv, EndsOK
<1> DEFINE x == DataByte(m, p)
           read == [i \in 1 .. (p + 1) |-> DataByte(m, i - 1)]
<1>4. /\ Head(chan[a]) = x /\ hdr[a].cmd = script[m].type /\ hdr[a].len = script[m].len
      /\ m \in 1 .. Len(script) /\ script[m].from = b /\ m <= Begun(b)
      /\ \A k \in 1 .. Len(chan[a]) : IsHeader(chan[a][k]) => m < chan[a][k].packet
    BY <1>1, <1>2, <1>3, ByteCame
<1>5. Append(buf[a], Head(chan[a])) = read
    BY <1>1, <1>2, <1>3, <1>4, MoreBytes DEF WayInv
<1>6. /\ chan'[a] = Tail(chan[a]) /\ chan[a] \in Seq(Bytes \cup Headers)
      /\ EndOf(chan'[a], chan[a])
    <2>1. Ack \in Bytes \cup Headers
        BY HeaderTypes
    <2>2. chan'[a] = Tail(chan[a])
        BY <1>1, <2>1, TakeKeeps, TakeAndSendKeeps
    <2>3. chan[a] \in Seq(Bytes \cup Headers)
        BY ComingIs
    <2> QED
        BY <1>1, <2>2, <2>3, Ending
<1> HIDE DEF x, read
<1>7. CASE /\ Goto(a, "data") /\ pos' = [pos EXCEPT ![a] = p + 1]
           /\ buf' = [buf EXCEPT ![a] = read]
           /\ UNCHANGED <<script, hdr, astray, log, outcome, refused, resets>>
    <2>1. script' = script /\ log' = log /\ hdr' = [hdr EXCEPT ![a] = hdr[a]]
        BY <1>7, SameFields
    <2>2. /\ Aside(b) /\ turn'[a] = turn[a] /\ st'[a] = "data" /\ pos'[a] = p + 1
          /\ buf'[a] = read /\ hdr'[a] = hdr[a]
        <3>1. PICK h : h = hdr[a]
            OBVIOUS
        <3>2. PICK i : i = p + 1
            OBVIOUS
        <3>3. PICK bytes : bytes = read
            OBVIOUS
        <3>4. /\ Goto(a, "data") /\ pos' = [pos EXCEPT ![a] = i]
              /\ buf' = [buf EXCEPT ![a] = bytes] /\ hdr' = [hdr EXCEPT ![a] = h]
            BY <1>7, <2>1, <3>1, <3>2, <3>3
        <3>5. /\ Aside(b) /\ turn'[a] = turn[a] /\ st'[a] = "data"
              /\ pos'[a] = i /\ buf'[a] = bytes /\ hdr'[a] = h
            BY <3>4, ReadOnSteps
        <3> QED
            BY <3>1, <3>2, <3>3, <3>5
    <2>3. BegunGrows(a) /\ ~WriterAtWork(a)' /\ BegunGrows(b)
        BY <1>1, <2>1, <2>2, BegunNext DEF WriterAtWork, AwaitingAck, Aside
    <2>4. WriterAtWork(b)' => WriterAtWork(b)
        BY <2>2 DEF Aside, WriterAtWork
    <2>5. EndOf(Coming(a)', Coming(a))
        <3> DEFINE s == Coming(a)
                   t == Coming(a)'
        <3>1. /\ Len(s) = Len(chan[a]) + 1 /\ \A k \in 1 .. Len(chan[a]) : s[k + 1] = chan[a][k]
              /\ Len(t) = Len(chan'[a]) + 1 /\ t[1] = Unit(script, m, p + 1)
              /\ \A k \in 1 .. Len(chan'[a]) : t[k + 1] = chan'[a][k]
            BY <1>1, <1>2, <2>1, <2>2, ComingIs, ComingNext
        <3> HIDE DEF s, t
        <3>2. t[1] = chan[a][1]
            BY <1>1, <1>4, <1>6, <3>1 DEF Unit, x
        <3>3. /\ Len(chan[a]) \in Nat /\ Len(chan[a]) > 0
              /\ Len(chan'[a]) = Len(chan[a]) - 1
              /\ \A k \in 1 .. Len(chan'[a]) : chan'[a][k] = chan[a][k + 1]
            BY <1>1, <1>6
        <3>4. 1 \in 0 .. Len(s) /\ Len(t) = Len(s) - 1
            BY <3>1, <3>3
        <3>5. ASSUME NEW k \in 1 .. Len(t) PROVE t[k] = s[k + 1]
            <4>1. CASE k = 1
                BY <3>1, <3>2, <3>3, <4>1
            <4>2. CASE k # 1
                <5>1. k - 1 \in 1 .. Len(chan'[a]) /\ (k - 1) + 1 = k
                    BY <3>1, <3>3, <4>2
                <5>2. PICK i \in 1 .. Len(chan'[a]) : i = k - 1 /\ i + 1 = k
                    BY <5>1
                <5>3. t[i + 1] = chan[a][i + 1] /\ i + 1 \in 1 .. Len(chan[a])
                    <6>1. t[i + 1] = chan'[a][i]
                        BY <3>1
                    <6>2. chan'[a][i] = chan[a][i + 1]
                        BY <3>3
                    <6>3. i + 1 \in 1 .. Len(chan[a])
                        BY <3>3
                    <6> QED
                        BY <6>1, <6>2, <6>3
                <5>4. t[k] = chan[a][k] /\ k \in 1 .. Len(chan[a])
                    BY <5>2, <5>3
                <5> QED
                    BY <3>1, <5>4
            <4> QED
                BY <4>1, <4>2
        <3>6. EndOf(t, s)
            BY <3>4, <3>5 DEF EndOf
        <3> QED
            BY <3>6 DEF s, t
    <2>6. /\ hdr'[a] = Unit(script, hdr'[a].packet, 0)
          /\ buf'[a] = [i \in 1 .. pos'[a] |-> DataByte(hdr'[a].packet, i - 1)]
        BY <1>1, <1>2, <2>2 DEF WayInv, read
    <2>7. Kept(a)
        BY <1>1, <1>6, <2>1, <2>2, <2>3, <2>4, <2>5, <2>6, Shrinks DEF Aside
    <2>8. Kept(b)
        <3>1. CASE Take(a)
            <4>1. chan'[b] = chan[b]
                BY <1>1, <3>1, TakeKeeps
            <4> QED
                BY <2>1, <2>2, <2>3, <4>1, StillKept DEF Aside
        <3>2. CASE TakeAndSend(a, Ack)
            <4>1. chan'[b] = Append(chan[b], Ack) /\ Ack \in Bytes \cup Headers
                BY <1>1, <3>2, TakeAndSendKeeps, HeaderTypes
            <4>2. a = Other(b) /\ ~IsHeader(Ack) /\ Ack.kind # "byte"
                BY TwoEnds, AckIs
            <4> QED
                BY <2>1, <2>2, <2>3, <4>1, <4>2, Grows DEF Aside
        <3> QED
            BY <1>1, <3>1, <3>2
    <2> QED
        BY <1>7, <2>1, <2>7, <2>8 DEF Logs
<1>8. CASE hdr[a].len = p + 1 /\ ReadReturns(a, hdr[a].cmd, read)
    <2>1. /\ Aside(b) /\ turn'[a] = turn[a] + 1 /\ st'[a] = "idle" /\ script' = script
          /\ log' = Append(log, [cmd |-> hdr[a].cmd, bytes |-> read]) /\ astray' = astray
        BY <1>8, ReturnSteps DEF ReadReturns
    <2>2. BegunGrows(a) /\ ~WriterAtWork(a)' /\ st'[a] # "data"
        BY <2>1, BegunNext DEF WriterAtWork, AwaitingAck
    <2>3. Kept(a) /\ Kept(b)
        BY <1>1, <2>1, <2>2, TakesKept, AnswersKept
    <2>4. log' = Append(log, WholePacket(m))
        BY <1>4, <1>8, <2>1 DEF WholePacket, read
    <2>5. HasRead(a, m)'
        <3>1. Begun(b)' = Begun(b)
            BY <2>1 DEF Begun, Aside
        <3>2. m <= Begun(Other(a))'
            BY <1>4, <3>1
        <3>3. ASSUME NEW k \in 1 .. Len(chan'[a]), IsHeader(chan'[a][k])
              PROVE  m < chan'[a][k].packet
            <4>1. chan'[a][k] = chan[a][k + 1] /\ k + 1 \in 1 .. Len(chan[a])
                BY <1>1, <1>6
            <4> QED
                BY <1>4, <3>3, <4>1
        <3> QED
            BY <2>2, <3>2, <3>3 DEF HasRead
    <2>6. ASSUME NEW n \in Nat, HasRead(a, n) PROVE n < m
        BY <1>1, <1>2, <2>6 DEF HasRead
    <2>7. Delivers(a, m)
        BY <1>4, <2>4, <2>5, <2>6 DEF Delivers
    <2> QED
        BY <2>1, <2>3, <2>7 DEF Logs
<1> QED
    BY <1>3, <1>5, <1>7, <1>8 DEF ReadByte

-----------------------------------------------------------------------------
(***************************************************************************)
(* The order of what was handed over                                       *)
(***************************************************************************)
LEMMA OrderStill ==
    ASSUME OrderInv, IInv, script' = script, log' = log, astray \subseteq astray',
           \A e \in Ends \ astray' : Keeps(e)
    PROVE  OrderInv'
<1>1. PICK f \in [1 .. Len(log) -> 1 .. Len(script)] :
          /\ \A i, j \in Packeted :
                /\ log[i] = WholePacket(f[i])
                /\ i < j /\ script[f[i]].from = script[f[j]].from => f[i] < f[j]
          /\ \A i \in Packeted :
                Other(script[f[i]].from) \notin astray =>
                    HasRead(Other(script[f[i]].from), f[i])
    BY DEF OrderInv
<1>2. f \in [1 .. Len(log') -> 1 .. Len(script')] /\ Packeted' = Packeted
    BY DEF Packeted
<1>3. \A i, j \in Packeted' :
         /\ log'[i] = WholePacket(f[i])'
         /\ i < j /\ script'[f[i]].from = script'[f[j]].from => f[i] < f[j]
    BY <1>1, <1>2 DEF WholePacket
<1>4. ASSUME NEW i \in Packeted, Other(script[f[i]].from) \notin astray'
      PROVE  HasRead(Other(script[f[i]].from), f[i])'
    <2>1. PICK n \in Nat : n = f[i] /\ n \in 1 .. Len(script)
        BY PacketFacts DEF Packeted
    <2>2. PICK e \in Ends : e = Other(script[n].from)
        BY <2>1, PacketFacts, TwoEnds
    <2>3. HasRead(e, n) /\ e \notin astray'
        BY <1>1, <1>4, <2>1, <2>2
    <2>4. HasRead(e, n)'
        BY <2>3 DEF Keeps
    <2> QED
        BY <2>1, <2>2, <2>4
<1> QED
    BY <1>2, <1>3, <1>4 DEF OrderInv

LEMMA OrderMore ==
    ASSUME OrderInv, IInv, script' = script, astray \subseteq astray',
           \A e \in Ends \ astray' : Keeps(e), NEW a \in Ends \ astray,
           NEW entry, log' = Append(log, entry), NEW m \in 1 .. Len(script),
           entry.cmd # "ACK" => entry = WholePacket(m) /\ Delivers(a, m)
    PROVE  OrderInv'
<1>1. PICK f \in [1 .. Len(log) -> 1 .. Len(script)] :
          /\ \A i, j \in Packeted :
                /\ log[i] = WholePacket(f[i])
                /\ i < j /\ script[f[i]].from = script[f[j]].from => f[i] < f[j]
          /\ \A i \in Packeted :
                Other(script[f[i]].from) \notin astray =>
                    HasRead(Other(script[f[i]].from), f[i])
    BY DEF OrderInv
<1>2. PICK last \in Nat : last = Len(log) + 1 /\ Len(log) \in Nat
    BY DEF IInv, RecordOK
<1> DEFINE g == [i \in 1 .. last |-> IF i = last THEN m ELSE f[i]]
<1>3. /\ Len(log') = last /\ log'[last] = entry
      /\ \A i \in 1 .. Len(log) : log'[i] = log[i]
    BY <1>2 DEF IInv, RecordOK
<1>4. /\ g \in [1 .. last -> 1 .. Len(script)] /\ g[last] = m
      /\ \A i \in 1 .. Len(log) : g[i] = f[i] /\ i # last
    BY <1>2
<1> HIDE DEF g
<1>5. ASSUME NEW i \in Packeted'
      PROVE  \/ i \in Packeted /\ g[i] = f[i] /\ log'[i] = log[i] /\ i < last
             \/ i = last /\ entry.cmd # "ACK" /\ g[i] = m /\ log'[i] = entry
    <2>1. i \in 1 .. last /\ log'[i].cmd # "ACK"
        BY <1>3 DEF Packeted
    <2>2. CASE i = last
        BY <1>3, <1>4, <2>1, <2>2
    <2>3. CASE i # last
        <3>1. i \in 1 .. Len(log) /\ i < last
            BY <1>2, <2>1, <2>3
        <3> QED
            BY <1>3, <1>4, <2>1, <3>1 DEF Packeted
    <2> QED
        BY <2>2, <2>3
<1>6. ASSUME NEW i \in Packeted PROVE f[i] \in 1 .. Len(script) /\ f[i] \in Nat
    BY PacketFacts DEF Packeted
<1>7. \A i \in Packeted' : log'[i] = WholePacket(g[i])'
    <2>1. TAKE i \in Packeted'
    <2>2. log'[i] = WholePacket(g[i])
        BY <1>1, <1>5
    <2> QED
        BY <2>2 DEF WholePacket
<1>8. ASSUME NEW i \in Packeted', NEW j \in Packeted', i < j,
             script[g[i]].from = script[g[j]].from
      PROVE  g[i] < g[j]
    <2>1. CASE j \in Packeted /\ g[j] = f[j] /\ j < last
        <3>1. i \in Packeted /\ g[i] = f[i]
            BY <1>2, <1>5, <1>8, <2>1 DEF Packeted
        <3> QED
            BY <1>1, <1>8, <2>1, <3>1
    <2>2. CASE j = last /\ entry.cmd # "ACK" /\ g[j] = m
        <3>1. i \in Packeted /\ g[i] = f[i]
            BY <1>2, <1>5, <1>8, <2>2
        <3>2. PICK n \in Nat : n = f[i]
            BY <1>6, <3>1
        <3>3. Delivers(a, m) /\ script[m].from = Other(a)
            BY <2>2 DEF Delivers
        <3>4. Other(script[n].from) = a
            BY <1>8, <2>2, <3>1, <3>2, <3>3, TwoEnds
        <3>5. HasRead(a, n)
            BY <1>1, <3>1, <3>2, <3>4
        <3>6. n < m
            BY <3>3, <3>5 DEF Delivers
        <3> QED
            BY <2>2, <3>1, <3>2, <3>6
    <2> QED
        BY <1>5, <2>1, <2>2
<1>9. ASSUME NEW i \in Packeted', Other(script[g[i]].from) \notin astray'
      PROVE  HasRead(Other(script[g[i]].from), g[i])'
    <2>1. CASE i \in Packeted /\ g[i] = f[i]
        <3>1. PICK n \in Nat : n = f[i] /\ n \in 1 .. Len(script)
            BY <1>6, <2>1
        <3>2. PICK e \in Ends : e = Other(script[n].from)
            BY <3>1, PacketFacts, TwoEnds
        <3>3. HasRead(e, n) /\ e \notin astray'
            BY <1>1, <1>9, <2>1, <3>1, <3>2
        <3>4. HasRead(e, n)'
            BY <3>3 DEF Keeps
        <3> QED
            BY <2>1, <3>1, <3>2, <3>4
    <2>2. CASE i = last /\ entry.cmd # "ACK" /\ g[i] = m
        <3>1. script[m].from = Other(a) /\ HasRead(a, m)'
            BY <2>2 DEF Delivers
        <3>2. Other(script[m].from) = a
            BY <3>1, TwoEnds
        <3> QED
            BY <2>2, <3>1, <3>2
    <2> QED
        BY <1>5, <2>1, <2>2
<1>10. /\ g \in [1 .. Len(log') -> 1 .. Len(script')]
       /\ \A i, j \in Packeted' :
             /\ log'[i] = WholePacket(g[i])'
             /\ i < j /\ script'[g[i]].from = script'[g[j]].from => g[i] < g[j]
       /\ \A i \in Packeted' :
             Other(script[g[i]].from) \notin astray' =>
                 HasRead(Other(script[g[i]].from), g[i])'
    BY <1>3, <1>4, <1>7, <1>8, <1>9
<1> QED
    BY <1>10 DEF OrderInv

-----------------------------------------------------------------------------
(* What a step of an end does to the ends that are not astray.             *)
LEMMA StepKept ==
    ASSUME IInv, IInv', DisturbedInv, NEW a \in Ends, NEW b \in Ends, b = Other(a),
           EndStep(a) \/ Stray(a) \/ Reset(a) \/ Overrun(a)
    PROVE  /\ \A e \in Ends \ astray' : Keeps(e)
           /\ log' = log \/ (a \notin astray /\ Logs(a))
           /\ script' = script /\ astray \subseteq astray'
<1>1. Ends = {a, b}
    BY TwoEnds
<1>2. ASSUME Kept(a) \/ a \in astray', Kept(b), astray \subseteq astray'
      PROVE  \A e \in Ends \ astray' : Keeps(e)
    BY <1>1, <1>2 DEF Kept, DisturbedInv
<1>3. CASE Stray(a) \/ Overrun(a)
    BY <1>2, <1>3, AstrayKept
<1>4. CASE (ReadHeader(a) \/ ReadByte(a)) /\ a \in astray
    BY <1>2, <1>4, AstrayReadsKept
<1>5. CASE (ReadHeader(a) \/ ReadByte(a)) /\ a \notin astray
    <2>1. WayInv(a)
        BY <1>5 DEF DisturbedInv
    <2> QED
        BY <1>2, <1>5, <2>1, ReadHeaderKept, ReadByteKept
<1>6. CASE WriteHeader(a) \/ WriteByte(a) \/ WriteHexByte(a)
    <2>1. astray' = astray
        BY <1>6 DEF WriteHeader, WriteByte, WriteHexByte, StillWriting, WriteReturns
    <2> QED
        BY <1>2, <1>6, <2>1, WriteHeaderKept, WriteByteKept, WriteHexByteKept
<1>7. CASE HeaderAcked(a) \/ HexBlockAcked(a) \/ BlockAcked(a) \/ FinalAcked(a)
    <2>1. astray' = astray
        BY <1>7 DEF HeaderAcked, HexBlockAcked, BlockAcked, FinalAcked, StillWriting,
           WriteReturns
    <2> QED
        BY <1>2, <1>7, <2>1, AckedKept
<1>8. CASE RejectLength(a) \/ Skip(a) \/ Garble(a) \/ Reset(a)
    BY <1>2, <1>8, PassingKept
<1> QED
    BY <1>3, <1>4, <1>5, <1>6, <1>7, <1>8 DEF EndStep

LEMMA DisturbedSteps ==
    ASSUME IInv, IInv', DisturbedInv, [Next \/ Terminated]_vars
    PROVE  DisturbedInv'
<1>1. CASE UNCHANGED vars
    <2>1. UNCHANGED <<script, turn, st, pos, buf, hdr, chan, astray, log>>
        BY <1>1 DEF vars
    <2>2. \A e \in Ends \ astray' : WayInv(e)'
        BY <2>1 DEF DisturbedInv, WayInv, Coming, Begun, WriterAtWork
    <2>3. \A e \in Ends : \A n \in Nat : HasRead(e, n) => HasRead(e, n)'
        BY <2>1 DEF HasRead, Begun
    <2>4. OrderInv'
        BY <2>1, <2>2, <2>3, OrderStill DEF DisturbedInv, Keeps
    <2> QED
        BY <2>2, <2>4 DEF DisturbedInv
<1>2. CASE Next
    <2>1. PICK a \in Ends : EndStep(a) \/ Stray(a) \/ Reset(a) \/ Overrun(a)
        BY <1>2 DEF Next
    <2>2. PICK b \in Ends : b = Other(a)
        BY TwoEnds
    <2>3. /\ \A e \in Ends \ astray' : Keeps(e)
          /\ log' = log \/ (a \notin astray /\ Logs(a))
          /\ script' = script /\ astray \subseteq astray'
        BY <2>1, <2>2, StepKept
    <2>4. \A e \in Ends \ astray' : WayInv(e)'
        BY <2>3 DEF Keeps
    <2>5. OrderInv'
        <3>1. OrderInv
            BY DEF DisturbedInv
        <3>2. CASE log' = log
            BY <2>3, <3>1, <3>2, OrderStill
        <3>3. CASE /\ a \notin astray
                   /\ \E entry : /\ entry.cmd = "ACK" /\ log' = Append(log, entry)
                                 /\ Len(script) > 0
            <4>1. PICK entry : entry.cmd = "ACK" /\ log' = Append(log, entry)
                BY <3>3
            <4>2. 1 \in 1 .. Len(script)
                BY <3>3, PacketFacts
            <4> QED
                BY <2>3, <3>1, <3>3, <4>1, <4>2, OrderMore
        <3>4. CASE a \notin astray /\ \E m \in Nat : Delivers(a, m)
            <4>1. PICK m \in Nat : Delivers(a, m)
                BY <3>4
            <4>2. m \in 1 .. Len(script) /\ log' = Append(log, WholePacket(m))
                BY <4>1 DEF Delivers
            <4> QED
                BY <2>3, <3>1, <3>4, <4>1, <4>2, OrderMore
        <3> QED
            BY <2>3, <3>2, <3>3, <3>4 DEF Logs
    <2> QED
        BY <2>4, <2>5 DEF DisturbedInv
<1> QED
    BY <1>1, <1>2 DEF Terminated

LEMMA InitDisturbed == ASSUME Init PROVE DisturbedInv
<1>1. ASSUME NEW e \in Ends PROVE WayInv(e)
    <2>1. Coming(e) = <<>> /\ st[e] = "idle" /\ Len(<<>>) = 0
        BY DEF Init, Coming, View
    <2>2. Orderly(script, <<>>, Other(e), Begun(Other(e)))
        BY <2>1 DEF Orderly
    <2> QED
        BY <2>1, <2>2 DEF WayInv
<1>2. OrderInv
    <2>1. log = <<>> /\ Len(log) = 0 /\ Packeted = {}
        BY DEF Init, Packeted
    <2> DEFINE f == [i \in 1 .. Len(log) |-> 1]
    <2>2. f \in [1 .. Len(log) -> 1 .. Len(script)]
        BY <2>1
    <2> QED
        BY <2>1, <2>2 DEF OrderInv
<1> QED
    BY <1>1, <1>2 DEF DisturbedInv

(* Whatever happens on the link, read_packet returns to an end that is not *)
(* astray only whole packets of the conversation, and those of each writer *)
(* once and in order, whatever becomes of the other end.                   *)
THEOREM KeepsOrder == Spec => []InOrder
<1>1. Init => DisturbedInv
    BY InitDisturbed
<1>2. IInv /\ IInv' /\ DisturbedInv /\ [Next \/ Terminated]_vars => DisturbedInv'
    BY DisturbedSteps
<1>3. DisturbedInv => InOrder
    BY DEF DisturbedInv, OrderInv, InOrder, Packeted
<1> QED
    BY <1>1, <1>2, <1>3, Inductive, PTL DEF Spec

-----------------------------------------------------------------------------
(***************************************************************************)
(* A link without resets on which packets may be refused                   *)
(***************************************************************************)
(* A writer waits for an ACK.                                              *)
AckDue(e) == Writer(e) /\ Packet(e).type # "DEBUG" /\ st[e] \in AwaitingAck

AckComes(e) == \E i \in 1 .. Len(chan[e]) : chan[e][i] = Ack

(* A unit that is acknowledged when it is read.                            *)
Demands(sc, unit) ==
    /\ unit # Ack
    /\ sc[unit.packet].type # "DEBUG"
    /\ unit.kind = "byte" =>
          \/ (unit.at + 1) % BLOCK_SIZE = 0
          \/ unit.at + 1 = sc[unit.packet].len

(* An end is not ahead of what it reads: it has not turned from a packet   *)
(* whose header it has still to read, or that is still to be sent.         *)
NotAhead(e) ==
    /\ \A k \in 1 .. Len(chan[e]) : IsHeader(chan[e][k]) => turn[e] <= chan[e][k].packet
    /\ st[e] = "data" => turn[e] <= hdr[e].packet
    /\ \A n \in 1 .. Len(script) :
          script[n].from # e /\ n < turn[e] => n <= Begun(Other(e))

(* Of the packet the other end is at, only bytes before pos were sent.     *)
SentOnly(e) ==
    \A k \in 1 .. Len(chan[e]) :
        chan[e][k].kind = "byte" /\ chan[e][k].packet = turn[Other(e)] =>
            chan[e][k].at < pos[Other(e)]

(* An ACK on its way to an end is the one the end waits for: all was read  *)
(* before it was sent, and no header comes before it.                      *)
AckIsDue(e) ==
    /\ AckComes(e) => AckDue(e) /\ chan[Other(e)] = <<>>
    /\ \A i, k \in 1 .. Len(chan[e]) :
          chan[e][i] = Ack /\ chan[e][k].kind = "header" => i <= k

(* What has to be acknowledged is the last an end has sent, and it waits.  *)
DemandIsLast(e) ==
    \A k \in 1 .. Len(chan[Other(e)]) :
        Demands(script, chan[Other(e)][k]) =>
            /\ AckDue(e)
            /\ k = Len(chan[Other(e)])
            /\ chan[Other(e)][k].packet = turn[e]

(* An end that sends contents, or is about to, is being read.              *)
Accepted(e) ==
    /\ Writer(e) /\ Packet(e).type # "DEBUG"
    /\ \/ st[e] \in {"bytes", "blockAck"}
       \/ st[e] = "headerAck" /\ Packet(e).len > 0 /\ AckComes(e)
    => /\ turn[Other(e)] <= turn[e]
       /\ st[Other(e)] = "data" /\ hdr[Other(e)].packet = turn[e]

(* What a reader has turned from was read.                                 *)
TurnedFrom(e) == AckDue(e) /\ turn[Other(e)] > turn[e] => chan[Other(e)] = <<>>

AnswerInv(e) ==
    /\ NotAhead(e)
    /\ SentOnly(e)
    /\ AckIsDue(e)
    /\ DemandIsLast(e)
    /\ Accepted(e)
    /\ TurnedFrom(e)

(* The writer w of packet n has given up, or waits for an ACK that does    *)
(* not come.                                                               *)
Unsent(n, w) ==
    /\ outcome[n] # "MSG_OK"
    /\ \A e \in Ends : \A i \in 1 .. Len(chan[e]) :
          chan[e][i].kind = "byte" => chan[e][i].packet # n
    /\ \/ turn[w] > n
       \/ /\ turn[w] = n /\ st[w] = "headerAck"
          /\ chan[Other(w)] = <<>> /\ ~AckComes(w)

RefusedInv ==
    \A n \in refused :
        /\ n \in 1 .. Len(script)
        /\ script[n].type # "DEBUG" => Unsent(n, script[n].from)

UnresetInv == (\A e \in Ends : AnswerInv(e)) /\ RefusedInv

(* An end reads contents that wait to be accepted only while they are      *)
(* sent, and none come to an end that does not read them.                  *)
Held(e) ==
    LET w == Other(e) IN
    /\ st[e] = "data" /\ script[hdr[e].packet].type # "DEBUG" =>
          /\ hdr[e].packet = turn[w] /\ Writer(w)
          /\ \/ st[w] \in {"bytes", "blockAck", "finalAck"}
             \/ st[w] = "headerAck" /\ AckComes(w)
    /\ \A k \in 1 .. Len(chan[e]) : chan[e][k].kind = "byte" =>
          /\ script[chan[e][k].packet].len > 0
          /\ script[chan[e][k].packet].type # "DEBUG" =>
                /\ st[e] = "data" /\ hdr[e].packet = chan[e][k].packet
                /\ chan[e][k].packet = turn[w]

(* What comes to an end was sent by the other.                             *)
LEMMA WireUnits ==
    ASSUME IInv, NEW e \in Ends, NEW w \in Ends, w = Other(e), WayInv(e),
           NEW k \in 1 .. Len(chan[e]), chan[e][k] # Ack
    PROVE  /\ chan[e][k].packet \in Nat /\ chan[e][k].packet <= Begun(w)
           /\ chan[e][k].packet \in 1 .. Len(script)
           /\ script[chan[e][k].packet].from = w
           /\ IsHeader(chan[e][k]) => chan[e][k] = Unit(script, chan[e][k].packet, 0)
<1>1. PICK i \in 1 .. Len(Coming(e)) : Coming(e)[i] = chan[e][k]
    <2>1. Len(chan[e]) \in Nat /\ k + 1 \in 1 .. (Len(chan[e]) + 1)
        BY ComingIs
    <2> QED
        BY <2>1, ComingIs
<1>2. /\ Coming(e)[i].packet \in 1 .. Begun(w)
      /\ Coming(e)[i].packet \in 1 .. Len(script)
      /\ script[Coming(e)[i].packet].from = w
      /\ IsHeader(Coming(e)[i]) => Coming(e)[i] = Unit(script, Coming(e)[i].packet, 0)
    BY <1>1 DEF WayInv, Orderly
<1>3. Begun(w) \in Nat
    BY BegunType
<1> QED
    BY <1>1, <1>2, <1>3

LEMMA WireUnitsNext ==
    ASSUME IInv, IInv', script' = script, NEW e \in Ends, NEW w \in Ends, w = Other(e),
           WayInv(e)', NEW k \in 1 .. Len(chan'[e]), chan'[e][k] # Ack,
           Begun(w)' \in Nat
    PROVE  /\ chan'[e][k].packet \in Nat /\ chan'[e][k].packet <= Begun(w)'
           /\ chan'[e][k].packet \in 1 .. Len(script)
           /\ script[chan'[e][k].packet].from = w
<1>1. PICK i \in 1 .. Len(Coming(e)') : Coming(e)'[i] = chan'[e][k]
    <2>1. Len(chan'[e]) \in Nat /\ k + 1 \in 1 .. (Len(chan'[e]) + 1)
        BY ComingNext
    <2> QED
        BY <2>1, ComingNext
<1>2. /\ Coming(e)'[i].packet \in 1 .. Begun(w)'
      /\ Coming(e)'[i].packet \in 1 .. Len(script)
      /\ script[Coming(e)'[i].packet].from = w
    BY <1>1 DEF WayInv, Orderly
<1> QED
    BY <1>1, <1>2

LEMMA WriterIs ==
    ASSUME IInv, NEW e \in Ends
    PROVE  /\ turn[e] \in Nat /\ turn[e] > 0
           /\ pos[e] \in Nat
           /\ Engaged(e) <=> turn[e] \in 1 .. Len(script)
           /\ Writer(e) <=> turn[e] \in 1 .. Len(script) /\ script[turn[e]].from = e
           /\ Reader(e) <=> turn[e] \in 1 .. Len(script) /\ script[turn[e]].from # e
           /\ Writer(e) => Packet(e) = script[turn[e]]
BY PacketFacts DEF IInv, EndsOK, Writer, Reader, Packet

(* An end that is read is not of the same packet's writer.                 *)
LEMMA NonEmpty ==
    ASSUME IInv, NEW e \in Ends, st[e] = "bytes"
    PROVE  Packet(e).len > 0
<1>1. Writer(e) /\ pos[e] < Packet(e).len /\ pos[e] \in Nat
    BY DEF IInv, EndsOK, EndInv
<1>2. Packet(e).len \in Nat
    BY <1>1, WriterIs, PacketFacts
<1> QED
    BY <1>1, <1>2

LEMMA TwoWriters ==
    ASSUME IInv, NEW a \in Ends, NEW b \in Ends, b = Other(a), Writer(a), Writer(b)
    PROVE  turn[a] # turn[b]
BY WriterIs, TwoEnds

(* What an end still has to read of the headers.                           *)
LEMMA NotAheadStill ==
    ASSUME IInv, IInv', script' = script, NEW e \in Ends, NEW w \in Ends, w = Other(e),
           NotAhead(e), BegunGrows(w), Begun(w)' \in Nat,
           \/ turn'[e] = turn[e]
           \/ /\ turn'[e] = turn[e] + 1
              /\ script[turn[e]].from # e => turn[e] <= Begun(w)',
           \A k \in 1 .. Len(chan'[e]) :
               IsHeader(chan'[e][k]) => turn'[e] <= chan'[e][k].packet,
           st'[e] = "data" => turn'[e] <= hdr'[e].packet
    PROVE  NotAhead(e)'
<1>1. ASSUME NEW n \in 1 .. Len(script), script[n].from # e, n < turn'[e]
      PROVE  n <= Begun(w)'
    <2>1. turn[e] \in Nat /\ Begun(w) \in Nat /\ Begun(w) <= Begun(w)' /\ Len(script) \in Nat
        BY WriterIs, BegunType, PacketFacts DEF BegunGrows
    <2>2. CASE n < turn[e]
        <3>1. n <= Begun(w)
            BY <1>1, <2>2 DEF NotAhead
        <3> QED
            BY <2>1, <3>1
    <2>3. CASE n = turn[e]
        BY <1>1, <2>1, <2>3
    <2> QED
        BY <1>1, <2>1, <2>2, <2>3
<1>2. \A n \in 1 .. Len(script') : script'[n].from # e /\ n < turn'[e] => n <= Begun(Other(e))'
    BY <1>1
<1> QED
    BY <1>2 DEF NotAhead

(* A unit that a writer sends, the last of its step or not.                *)
Sent(a, unit, last) ==
    /\ unit # Ack /\ unit.packet = turn[a]
    /\ IsHeader(unit) => st[a] = "idle"
    /\ unit.kind = "byte" => Packet(a).len > 0 /\ st[a] = "bytes"
    /\ unit.kind = "byte" /\ turn'[a] = turn[a] => unit.at < pos'[a]
    /\ Demands(script, unit) =>
          /\ last /\ turn'[a] = turn[a]
          /\ st'[a] \in AwaitingAck /\ Packet(a).type # "DEBUG"

OutcomeKept(a) ==
    \A n \in 1 .. Len(script) : n # turn[a] => outcome'[n] = outcome[n]

(* The steps of a writer that sends.                                       *)
SendsOn(a, b) ==
    /\ Aside(b) /\ script' = script /\ refused' = refused /\ OutcomeKept(a)
    /\ Writer(a) /\ st[a] \in {"idle", "bytes"}
    /\ chan'[a] = chan[a]
    /\ Len(chan[b]) <= Len(chan'[b])
    /\ \A k \in 1 .. Len(chan[b]) : chan'[b][k] = chan[b][k]
    /\ \A k \in 1 .. Len(chan'[b]) :
          k \in 1 .. Len(chan[b]) \/ Sent(a, chan'[b][k], k = Len(chan'[b]))
    /\ \/ /\ turn'[a] = turn[a] /\ pos[a] <= pos'[a] /\ outcome' = outcome
          /\ st'[a] \in AwaitingAck \cup {"bytes"}
          /\ st[a] = "idle" /\ Packet(a).type # "DEBUG" => st'[a] = "headerAck"
          /\ st[a] = "bytes" => st'[a] \in {"bytes", "blockAck", "finalAck"}
       \/ turn'[a] = turn[a] + 1 /\ st'[a] = "idle" /\ Packet(a).type = "DEBUG"

LEMMA SendsKeepWriter ==
    ASSUME IInv, IInv', NEW a \in Ends, NEW b \in Ends, b = Other(a),
           WayInv(a), WayInv(b), WayInv(b)', AnswerInv(a), AnswerInv(b),
           BegunGrows(a), SendsOn(a, b)
    PROVE  /\ NotAhead(a)' /\ SentOnly(a)' /\ AckIsDue(a)'
           /\ DemandIsLast(a)' /\ Accepted(a)' /\ TurnedFrom(a)'
<1>1. /\ a = Other(b) /\ a # b /\ Writer(a) /\ st[a] \in {"idle", "bytes"}
      /\ chan'[a] = chan[a] /\ Aside(b) /\ script' = script
      /\ turn[a] \in Nat /\ turn[b] \in Nat
      /\ script[turn[a]].from = a /\ Packet(a) = script[turn[a]]
      /\ turn[a] \in 1 .. Len(script)
    BY TwoEnds, WriterIs DEF SendsOn
<1>2. ~AckDue(a)
    BY <1>1 DEF AckDue, AwaitingAck
<1>3. ~AckComes(a)
    BY <1>2 DEF AnswerInv, AckIsDue
<1>4. \/ turn'[a] = turn[a] /\ st'[a] \in AwaitingAck \cup {"bytes"}
      \/ turn'[a] = turn[a] + 1 /\ st'[a] = "idle"
    BY DEF SendsOn
<1>5. Begun(b)' = Begun(b) /\ Begun(b) \in Nat /\ BegunGrows(b)
    BY <1>1, BegunType DEF Aside, Begun, BegunGrows
<1>6. NotAhead(a)'
    <2>1. ASSUME NEW k \in 1 .. Len(chan'[a]), IsHeader(chan'[a][k])
          PROVE  turn'[a] <= chan'[a][k].packet
        <3>1. PICK p \in Nat : p = chan[a][k].packet /\ script[p].from = b
            BY <1>1, <2>1, WireUnits DEF IsHeader
        <3>2. turn[a] <= p
            BY <1>1, <2>1, <3>1 DEF AnswerInv, NotAhead
        <3>3. turn[a] # p
            BY <1>1, <3>1
        <3> QED
            BY <1>1, <1>4, <3>1, <3>2, <3>3
    <2>2. st'[a] # "data"
        BY <1>4 DEF AwaitingAck
    <2> QED
        BY <1>1, <1>4, <1>5, <2>1, <2>2, NotAheadStill DEF AnswerInv
<1>7. SentOnly(a)'
    BY <1>1 DEF AnswerInv, SentOnly, Aside
<1>8. AckIsDue(a)'
    BY <1>1, <1>3 DEF AckIsDue, AckComes
<1>9. DemandIsLast(a)'
    <2>1. ASSUME NEW k \in 1 .. Len(chan'[b]), Demands(script', chan'[b][k])
          PROVE  /\ AckDue(a)' /\ k = Len(chan'[b])
                 /\ chan'[b][k].packet = turn'[a]
        <3>1. PICK u : u = chan'[b][k]
            OBVIOUS
        <3>2. Demands(script, u)
            BY <1>1, <2>1, <3>1
        <3>3. k \notin 1 .. Len(chan[b])
            <4>1. SUFFICES ASSUME k \in 1 .. Len(chan[b]) PROVE FALSE
                OBVIOUS
            <4>2. u = chan[b][k]
                BY <3>1, <4>1 DEF SendsOn
            <4> QED
                BY <1>1, <1>2, <3>2, <4>1, <4>2 DEF AnswerInv, DemandIsLast
        <3>4. Sent(a, u, k = Len(chan'[b]))
            BY <3>1, <3>3 DEF SendsOn
        <3>5. /\ k = Len(chan'[b]) /\ turn'[a] = turn[a] /\ u.packet = turn[a]
              /\ st'[a] \in AwaitingAck /\ Packet(a).type # "DEBUG"
            BY <3>2, <3>4 DEF Sent
        <3>6. AckDue(a)'
            BY <1>1, <3>5 DEF AckDue, Writer, Engaged, Packet
        <3> QED
            BY <3>1, <3>5, <3>6
    <2> QED
        BY <1>1, <2>1 DEF DemandIsLast
<1>10. turn'[a] = turn[a] /\ Packet(a).type # "DEBUG" /\ st[a] = "bytes" =>
          /\ turn[b] <= turn[a]
          /\ st[b] = "data" /\ hdr[b].packet = turn[a]
    BY <1>1 DEF AnswerInv, Accepted
<1>11. Accepted(a)'
    <2>1. SUFFICES ASSUME /\ Writer(a)' /\ Packet(a)'.type # "DEBUG"
                          /\ \/ st'[a] \in {"bytes", "blockAck"}
                             \/ st'[a] = "headerAck" /\ AckComes(a)'
                   PROVE  /\ turn'[b] <= turn'[a]
                          /\ st'[b] = "data" /\ hdr'[b].packet = turn'[a]
        BY <1>1 DEF Accepted
    <2>2. ~AckComes(a)'
        BY <1>1, <1>3 DEF AckComes
    <2>3. turn'[a] = turn[a] /\ Packet(a)' = Packet(a)
        BY <1>1, <1>4, <2>1, <2>2 DEF Packet
    <2>4. st[a] = "bytes"
        BY <1>1, <2>1, <2>2, <2>3 DEF SendsOn
    <2> QED
        BY <1>1, <1>10, <2>1, <2>3, <2>4 DEF Aside
<1>12. TurnedFrom(a)'
    <2>1. SUFFICES ASSUME AckDue(a)', turn'[b] > turn'[a] PROVE FALSE
        BY <1>1 DEF TurnedFrom
    <2>2. turn'[a] = turn[a] /\ Packet(a)' = Packet(a)
        BY <1>1, <1>4, <2>1 DEF AckDue, AwaitingAck, Packet
    <2>3. turn[b] > turn[a]
        BY <1>1, <2>1, <2>2 DEF Aside
    <2>4. CASE st[a] = "idle"
        <3>1. turn[a] <= Begun(a)
            BY <1>1, <2>3 DEF AnswerInv, NotAhead
        <3> QED
            BY <1>1, <2>4, <3>1, BegunType
    <2>5. CASE st[a] = "bytes"
        BY <1>1, <1>10, <2>1, <2>2, <2>3, <2>5 DEF AckDue
    <2> QED
        BY <1>1, <2>4, <2>5
<1> QED
    BY <1>6, <1>7, <1>8, <1>9, <1>11, <1>12

(* What an end that does not move has to wait for, when the other reads    *)
(* from its wire or leaves it.                                             *)
LEMMA DemandStill ==
    ASSUME IInv, script' = script, NEW a \in Ends, NEW b \in Ends, b = Other(a), Aside(b),
           DemandIsLast(b),
           \/ chan'[a] = chan[a]
           \/ chan[a] # <<>> /\ chan'[a] = Tail(chan[a])
    PROVE  DemandIsLast(b)' /\ (AckDue(b)' <=> AckDue(b))
<1>1. a = Other(b) /\ chan[a] \in Seq(Bytes \cup Headers)
    BY TwoEnds, ComingIs
<1>2. AckDue(b)' <=> AckDue(b)
    BY DEF AckDue, Writer, Engaged, Packet, Aside
<1>3. ASSUME NEW k \in 1 .. Len(chan'[a]), Demands(script', chan'[a][k])
      PROVE  /\ AckDue(b)' /\ k = Len(chan'[a])
             /\ chan'[a][k].packet = turn'[b]
    <2>1. CASE chan'[a] = chan[a]
        BY <1>1, <1>2, <1>3, <2>1 DEF DemandIsLast, Aside
    <2>2. CASE chan[a] # <<>> /\ chan'[a] = Tail(chan[a])
        <3>1. /\ chan'[a][k] = chan[a][k + 1] /\ k + 1 \in 1 .. Len(chan[a])
              /\ Len(chan'[a]) = Len(chan[a]) - 1 /\ Len(chan[a]) \in Nat
            BY <1>1, <2>2
        <3>2. PICK i \in 1 .. Len(chan[a]) : i = k + 1 /\ chan'[a][k] = chan[a][i]
            BY <3>1
        <3>3. Demands(script, chan[a][i])
            BY <1>3, <3>2
        <3>4. AckDue(b) /\ i = Len(chan[a]) /\ chan[a][i].packet = turn[b]
            BY <1>1, <3>2, <3>3 DEF DemandIsLast
        <3>5. k = Len(chan'[a])
            BY <3>1, <3>2, <3>4
        <3> QED
            BY <1>2, <3>2, <3>4, <3>5 DEF Aside
    <2> QED
        BY <2>1, <2>2
<1> QED
    BY <1>1, <1>2, <1>3 DEF DemandIsLast

(* An end that is not acknowledged and does not move.                      *)
LEMMA AcceptedStill ==
    ASSUME IInv, script' = script, NEW a \in Ends, NEW b \in Ends, b = Other(a), Aside(b),
           Accepted(b), AckComes(b)' => AckComes(b), st[a] # "data"
    PROVE  Accepted(b)'
<1>1. SUFFICES ASSUME /\ Writer(b)' /\ Packet(b)'.type # "DEBUG"
                      /\ \/ st'[b] \in {"bytes", "blockAck"}
                         \/ st'[b] = "headerAck" /\ Packet(b)'.len > 0 /\ AckComes(b)'
               PROVE  FALSE
    BY DEF Accepted
<1>2. a = Other(b) /\ Packet(b)' = Packet(b) /\ (Writer(b)' <=> Writer(b)) /\ st'[b] = st[b]
    BY TwoEnds DEF Packet, Writer, Engaged, Aside
<1> QED
    BY <1>1, <1>2 DEF Accepted

LEMMA SendsKeepReader ==
    ASSUME IInv, IInv', NEW a \in Ends, NEW b \in Ends, b = Other(a),
           WayInv(a), WayInv(b), WayInv(b)', AnswerInv(a), AnswerInv(b),
           BegunGrows(a), Begun(a)' \in Nat, SendsOn(a, b)
    PROVE  /\ NotAhead(b)' /\ SentOnly(b)' /\ AckIsDue(b)'
           /\ DemandIsLast(b)' /\ Accepted(b)' /\ TurnedFrom(b)'
<1>1. /\ a = Other(b) /\ a # b /\ Writer(a) /\ st[a] \in {"idle", "bytes"}
      /\ chan'[a] = chan[a] /\ Aside(b) /\ script' = script
      /\ turn[a] \in Nat /\ turn[b] \in Nat
      /\ script[turn[a]].from = a /\ turn[a] \in 1 .. Len(script)
      /\ pos[a] \in Nat /\ pos'[a] \in Nat
    BY TwoEnds, WriterIs DEF SendsOn, IInv, EndsOK
<1>2. \/ turn'[a] = turn[a] /\ pos[a] <= pos'[a] /\ st'[a] \in AwaitingAck \cup {"bytes"}
      \/ turn'[a] = turn[a] + 1 /\ st'[a] = "idle"
    BY DEF SendsOn
<1>3. ASSUME NEW k \in 1 .. Len(chan'[b])
      PROVE  \/ k \in 1 .. Len(chan[b]) /\ chan'[b][k] = chan[b][k]
             \/ Sent(a, chan'[b][k], k = Len(chan'[b])) /\ k > Len(chan[b])
    <2>1. Len(chan[b]) \in Nat
        BY ComingIs
    <2> QED
        BY <2>1 DEF SendsOn
<1>4. NotAhead(b)'
    <2>1. ASSUME NEW k \in 1 .. Len(chan'[b]), IsHeader(chan'[b][k])
          PROVE  turn'[b] <= chan'[b][k].packet
        <3>1. CASE k \in 1 .. Len(chan[b]) /\ chan'[b][k] = chan[b][k]
            BY <1>1, <2>1, <3>1 DEF AnswerInv, NotAhead, Aside
        <3>2. CASE Sent(a, chan'[b][k], k = Len(chan'[b]))
            <4>1. chan'[b][k].packet = turn[a] /\ st[a] = "idle"
                BY <2>1, <3>2 DEF Sent
            <4>2. ~(turn[a] < turn[b])
                <5>1. Begun(a) = turn[a] - 1
                    BY <4>1, BegunType
                <5> QED
                    BY <1>1, <5>1 DEF AnswerInv, NotAhead
            <4> QED
                BY <1>1, <4>1, <4>2 DEF Aside
        <3> QED
            BY <1>3, <3>1, <3>2
    <2>2. st'[b] = "data" => turn'[b] <= hdr'[b].packet
        BY <1>1 DEF AnswerInv, NotAhead, Aside
    <2> QED
        BY <1>1, <2>1, <2>2, NotAheadStill DEF AnswerInv, Aside
<1>5. SentOnly(b)'
    <2>1. ASSUME NEW k \in 1 .. Len(chan'[b]), chan'[b][k].kind = "byte",
                 chan'[b][k].packet = turn'[a]
          PROVE  chan'[b][k].at < pos'[a]
        <3>1. chan'[b][k] # Ack
            BY <2>1, AckIs
        <3>2. PICK p \in Nat : p = chan'[b][k].packet /\ p <= Begun(a)'
            BY <1>1, <3>1, WireUnitsNext
        <3>3. turn'[a] = turn[a]
            <4>1. st'[a] # "idle"
                BY <1>1, <1>2, <2>1, <3>2 DEF Begun
            <4> QED
                BY <1>2, <4>1
        <3>4. CASE k \in 1 .. Len(chan[b]) /\ chan'[b][k] = chan[b][k]
            <4>1. chan[b][k].at < pos[a]
                BY <1>1, <2>1, <3>3, <3>4 DEF AnswerInv, SentOnly
            <4>2. chan[b][k].at \in Nat
                <5>1. chan[b] \in Seq(Bytes \cup Headers)
                    BY ComingIs
                <5>2. chan[b][k] \in Bytes
                    BY <2>1, <3>4, <5>1 DEF Headers
                <5> QED
                    BY <5>2 DEF Bytes
            <4>3. pos[a] <= pos'[a]
                BY <1>1, <1>2, <3>3
            <4> QED
                BY <1>1, <3>4, <4>1, <4>2, <4>3
        <3>5. CASE Sent(a, chan'[b][k], k = Len(chan'[b]))
            BY <2>1, <3>3, <3>5 DEF Sent
        <3> QED
            BY <1>3, <3>4, <3>5
    <2> QED
        BY <1>1, <2>1 DEF SentOnly
<1>6. AckComes(b)' => AckComes(b)
    BY <1>3 DEF AckComes, Sent
<1>7. AckDue(b)' <=> AckDue(b)
    BY <1>1, DemandStill DEF AnswerInv
<1>8. AckIsDue(b)'
    <2>1. AckComes(b)' => AckDue(b)' /\ chan'[a] = <<>>
        BY <1>1, <1>6, <1>7 DEF AnswerInv, AckIsDue
    <2>2. ASSUME NEW i \in 1 .. Len(chan'[b]), NEW k \in 1 .. Len(chan'[b]),
                 chan'[b][i] = Ack, chan'[b][k].kind = "header"
          PROVE  i <= k
        <3>1. i \in 1 .. Len(chan[b]) /\ chan[b][i] = Ack
            BY <1>3, <2>2 DEF Sent
        <3>2. CASE k \in 1 .. Len(chan[b]) /\ chan'[b][k] = chan[b][k]
            BY <2>2, <3>1, <3>2 DEF AnswerInv, AckIsDue
        <3>3. CASE k > Len(chan[b])
            <4>1. Len(chan[b]) \in Nat
                BY ComingIs
            <4> QED
                BY <3>1, <3>3, <4>1
        <3> QED
            BY <1>3, <3>2, <3>3
    <2> QED
        BY <1>1, <2>1, <2>2 DEF AckIsDue
<1>9. DemandIsLast(b)'
    BY <1>1, DemandStill DEF AnswerInv
<1>10. Accepted(b)'
    <2>1. st[a] # "data"
        BY <1>1
    <2> QED
        BY <1>1, <1>6, <2>1, AcceptedStill DEF AnswerInv
<1>11. TurnedFrom(b)'
    <2>1. SUFFICES ASSUME AckDue(b), turn'[a] > turn'[b] PROVE chan'[a] = <<>>
        BY <1>1, <1>7 DEF TurnedFrom
    <2>2. turn[a] # turn[b]
        BY <1>1, <2>1, TwoWriters DEF AckDue
    <2>3. turn[a] > turn[b]
        BY <1>1, <1>2, <2>1, <2>2 DEF Aside
    <2> QED
        BY <1>1, <2>1, <2>3 DEF AnswerInv, TurnedFrom
<1> QED
    BY <1>4, <1>5, <1>8, <1>9, <1>10, <1>11

LEMMA SendsKeep ==
    ASSUME IInv, IInv', NEW a \in Ends, NEW b \in Ends, b = Other(a),
           WayInv(a), WayInv(b), WayInv(b)', AnswerInv(a), AnswerInv(b),
           BegunGrows(a), Begun(a)' \in Nat, SendsOn(a, b)
    PROVE  AnswerInv(a)' /\ AnswerInv(b)'
BY SendsKeepWriter, SendsKeepReader DEF AnswerInv

(* The steps of a writer that gets an answer.                              *)
GetsAnswer(a, b) ==
    /\ Aside(b) /\ script' = script /\ refused' = refused /\ OutcomeKept(a)
    /\ AckDue(a)
    /\ chan[a] # <<>> /\ Head(chan[a]).kind = "header"
    /\ chan'[a] = Tail(chan[a]) /\ chan'[b] = chan[b]
    /\ \/ /\ turn'[a] = turn[a] /\ st'[a] = "bytes" /\ outcome' = outcome
          /\ \/ st[a] = "headerAck" /\ Head(chan[a]) = Ack /\ Packet(a).len > 0
             \/ st[a] = "blockAck"
       \/ /\ turn'[a] = turn[a] + 1 /\ st'[a] = "idle"
          /\ st[a] # "blockAck"
          /\ st[a] = "headerAck" /\ Head(chan[a]) = Ack => Packet(a).len = 0
          /\ st[a] = "headerAck" /\ Head(chan[a]) # Ack =>
                outcome'[turn[a]] = "MSG_NO_ACK"

LEMMA TailFacts ==
    ASSUME IInv, NEW a \in Ends, chan[a] # <<>>, chan'[a] = Tail(chan[a])
    PROVE  /\ Head(chan[a]) = chan[a][1] /\ 1 \in 1 .. Len(chan[a])
           /\ Len(chan[a]) \in Nat /\ Len(chan'[a]) = Len(chan[a]) - 1
           /\ \A k \in 1 .. Len(chan'[a]) :
                 k + 1 \in 1 .. Len(chan[a]) /\ chan'[a][k] = chan[a][k + 1]
<1>1. chan[a] \in Seq(Bytes \cup Headers)
    BY ComingIs
<1> QED
    BY <1>1

(* An end that waits and gets a header has been heard: the wire from it is *)
(* empty, and no ACK comes after that header.                              *)
LEMMA Answered ==
    ASSUME IInv, NEW a \in Ends, NEW b \in Ends, b = Other(a), WayInv(a),
           AnswerInv(a), AnswerInv(b), AckDue(a),
           chan[a] # <<>>, Head(chan[a]).kind = "header", chan'[a] = Tail(chan[a])
    PROVE  chan[b] = <<>> /\ ~AckComes(a)'
<1>1. /\ a # b /\ Head(chan[a]) = chan[a][1] /\ 1 \in 1 .. Len(chan[a])
      /\ Len(chan[a]) \in Nat /\ Len(chan'[a]) = Len(chan[a]) - 1
      /\ \A k \in 1 .. Len(chan'[a]) :
            k + 1 \in 1 .. Len(chan[a]) /\ chan'[a][k] = chan[a][k + 1]
      /\ turn[a] \in Nat /\ turn[b] \in Nat /\ script[turn[a]].from = a
    BY TwoEnds, TailFacts, WriterIs DEF AckDue
<1>2. ~AckComes(a)'
    <2>1. SUFFICES ASSUME NEW k \in 1 .. Len(chan'[a]), chan'[a][k] = Ack PROVE FALSE
        BY DEF AckComes
    <2>2. PICK i \in 1 .. Len(chan[a]) : i = k + 1 /\ chan[a][i] = Ack
        BY <1>1, <2>1
    <2>3. i <= 1
        BY <1>1, <2>2 DEF AnswerInv, AckIsDue
    <2> QED
        BY <2>2, <2>3
<1>3. CASE Head(chan[a]) = Ack
    BY <1>1, <1>2, <1>3 DEF AnswerInv, AckIsDue, AckComes
<1>4. CASE Head(chan[a]) # Ack
    <2>1. PICK p \in Nat : /\ p = chan[a][1].packet /\ p <= Begun(b)
                           /\ script[p].from = b
        BY <1>1, <1>4, WireUnits
    <2>2. turn[a] <= p
        BY <1>1, <1>4, <2>1 DEF AnswerInv, NotAhead, IsHeader
    <2>3. p # turn[a] /\ Begun(b) <= turn[b] /\ Begun(b) \in Nat
        BY <1>1, <2>1, BegunType, WriterIs
    <2>4. turn[b] > turn[a]
        BY <1>1, <2>1, <2>2, <2>3
    <2> QED
        BY <1>2, <2>4 DEF AnswerInv, TurnedFrom
<1> QED
    BY <1>2, <1>3, <1>4

LEMMA AnswersKeep ==
    ASSUME IInv, IInv', NEW a \in Ends, NEW b \in Ends, b = Other(a),
           WayInv(a), WayInv(b), AnswerInv(a), AnswerInv(b),
           BegunGrows(a), Begun(a)' \in Nat, GetsAnswer(a, b)
    PROVE  AnswerInv(a)' /\ AnswerInv(b)'
<1>1. /\ a = Other(b) /\ a # b /\ Writer(a) /\ AckDue(a) /\ st[a] \in AwaitingAck
      /\ chan'[b] = chan[b] /\ Aside(b) /\ script' = script
      /\ turn[a] \in Nat /\ turn[b] \in Nat
      /\ script[turn[a]].from = a /\ turn[a] \in 1 .. Len(script)
      /\ Packet(a).type # "DEBUG" /\ Packet(a) = script[turn[a]]
      /\ chan[a] # <<>> /\ chan'[a] = Tail(chan[a])
    BY TwoEnds, WriterIs DEF GetsAnswer, AckDue
<1>2. \/ turn'[a] = turn[a] /\ st'[a] = "bytes"
      \/ turn'[a] = turn[a] + 1 /\ st'[a] = "idle"
    BY DEF GetsAnswer
<1>3. /\ Len(chan[a]) \in Nat /\ Len(chan'[a]) = Len(chan[a]) - 1
      /\ \A k \in 1 .. Len(chan'[a]) :
            k + 1 \in 1 .. Len(chan[a]) /\ chan'[a][k] = chan[a][k + 1]
    BY <1>1, TailFacts
<1>4. chan[b] = <<>> /\ ~AckComes(a)' /\ Len(<<>>) = 0
    BY <1>1, Answered DEF GetsAnswer
<1>5. Begun(b)' = Begun(b) /\ Begun(b) \in Nat /\ BegunGrows(b)
    BY <1>1, BegunType DEF Aside, Begun, BegunGrows
<1>6. NotAhead(a)'
    <2>1. ASSUME NEW k \in 1 .. Len(chan'[a]), IsHeader(chan'[a][k])
          PROVE  turn'[a] <= chan'[a][k].packet
        <3>1. PICK i \in 1 .. Len(chan[a]) : chan'[a][k] = chan[a][i]
            BY <1>3
        <3>2. PICK p \in Nat : p = chan[a][i].packet /\ script[p].from = b
            BY <2>1, <3>1, WireUnits DEF IsHeader
        <3>3. turn[a] <= p
            BY <1>1, <2>1, <3>1, <3>2 DEF AnswerInv, NotAhead
        <3>4. turn[a] # p
            BY <1>1, <3>2
        <3> QED
            BY <1>1, <1>2, <3>1, <3>2, <3>3, <3>4
    <2>2. st'[a] # "data"
        BY <1>2
    <2> QED
        BY <1>1, <1>2, <1>5, <2>1, <2>2, NotAheadStill DEF AnswerInv
<1>7. SentOnly(a)'
    BY <1>1, <1>3 DEF AnswerInv, SentOnly, Aside
<1>8. AckIsDue(a)'
    BY <1>1, <1>4 DEF AckIsDue, AckComes
<1>9. DemandIsLast(a)' /\ TurnedFrom(a)'
    BY <1>1, <1>4 DEF DemandIsLast, TurnedFrom
<1>10. Accepted(a)'
    <2>1. SUFFICES ASSUME st'[a] \in {"bytes", "blockAck"}
                   PROVE  /\ turn'[b] <= turn'[a]
                          /\ st'[b] = "data" /\ hdr'[b].packet = turn'[a]
        BY <1>1, <1>4 DEF Accepted
    <2>2. /\ turn'[a] = turn[a]
          /\ \/ st[a] = "headerAck" /\ Packet(a).len > 0 /\ AckComes(a)
             \/ st[a] = "blockAck"
        <3>1. Head(chan[a]) = Ack => AckComes(a)
            BY <1>1, TailFacts DEF AckComes
        <3>2. turn'[a] = turn[a]
            BY <1>2, <2>1
        <3>3. turn'[a] # turn[a] + 1
            BY <1>1, <3>2
        <3> QED
            BY <3>1, <3>2, <3>3 DEF GetsAnswer
    <2>3. /\ turn[b] <= turn[a]
          /\ st[b] = "data" /\ hdr[b].packet = turn[a]
        BY <1>1, <2>2 DEF AnswerInv, Accepted
    <2> QED
        BY <1>1, <2>2, <2>3 DEF Aside
<1>12. NotAhead(b)'
    <2>1. \A k \in 1 .. Len(chan'[b]) :
             IsHeader(chan'[b][k]) => turn'[b] <= chan'[b][k].packet
        BY <1>1, <1>4
    <2>2. st'[b] = "data" => turn'[b] <= hdr'[b].packet
        BY <1>1 DEF AnswerInv, NotAhead, Aside
    <2> QED
        BY <1>1, <2>1, <2>2, NotAheadStill DEF AnswerInv, Aside
<1>13. SentOnly(b)' /\ AckIsDue(b)'
    BY <1>1, <1>4 DEF SentOnly, AckIsDue, AckComes
<1>14. DemandIsLast(b)' /\ (AckDue(b)' <=> AckDue(b))
    BY <1>1, DemandStill DEF AnswerInv
<1>15. Accepted(b)'
    <2>1. st[a] # "data" /\ (AckComes(b)' => AckComes(b))
        BY <1>1 DEF AckComes, AwaitingAck
    <2> QED
        BY <1>1, <2>1, AcceptedStill DEF AnswerInv
<1>16. TurnedFrom(b)'
    <2>1. SUFFICES ASSUME AckDue(b), turn'[a] > turn'[b] PROVE FALSE
        BY <1>1, <1>14 DEF TurnedFrom
    <2>2. turn[a] # turn[b]
        BY <1>1, <2>1, TwoWriters DEF AckDue
    <2>3. turn[a] > turn[b]
        BY <1>1, <1>2, <2>1, <2>2 DEF Aside
    <2> QED
        BY <1>1, <2>1, <2>3 DEF AnswerInv, TurnedFrom
<1> QED
    BY <1>6, <1>7, <1>8, <1>9, <1>10, <1>12, <1>13, <1>14, <1>15, <1>16 DEF AnswerInv

(* The step of an end that skips a byte.                                   *)
Skips(a, b) ==
    /\ Aside(b) /\ script' = script /\ refused' = refused /\ outcome' = outcome
    /\ turn'[a] = turn[a] /\ pos'[a] = pos[a]
    /\ AckDue(a) \/ (st[a] = "idle" /\ Reader(a))
    /\ st'[a] = st[a]
    /\ chan[a] # <<>> /\ Head(chan[a]).kind = "byte"
    /\ chan'[a] = Tail(chan[a]) /\ chan'[b] = chan[b]

(* An end that takes a unit has not been heard: no ACK comes to the other. *)
LEMMA Unheard ==
    ASSUME IInv, NEW a \in Ends, NEW b \in Ends, b = Other(a), chan[a] # <<>>, AnswerInv(b)
    PROVE  /\ ~AckComes(b)
           /\ AckDue(b) => turn[a] <= turn[b]
<1>1. a = Other(b) /\ turn[a] \in Nat /\ turn[b] \in Nat
    BY TwoEnds, WriterIs
<1> QED
    BY <1>1 DEF AnswerInv, AckIsDue, TurnedFrom

LEMMA SkipsKeep ==
    ASSUME IInv, IInv', NEW a \in Ends, NEW b \in Ends, b = Other(a),
           WayInv(a), WayInv(b), AnswerInv(a), AnswerInv(b),
           BegunGrows(a), Begun(a)' \in Nat, Skips(a, b)
    PROVE  AnswerInv(a)' /\ AnswerInv(b)'
<1>1. /\ a = Other(b) /\ a # b /\ turn'[a] = turn[a]
      /\ chan'[b] = chan[b] /\ Aside(b) /\ script' = script /\ outcome' = outcome
      /\ turn[a] \in Nat /\ turn[b] \in Nat
      /\ chan[a] # <<>> /\ chan'[a] = Tail(chan[a])
      /\ st[a] \in AwaitingAck \cup {"idle"} /\ st'[a] = st[a]
    BY TwoEnds, WriterIs DEF Skips, AckDue
<1>2. /\ Len(chan[a]) \in Nat /\ Len(chan'[a]) = Len(chan[a]) - 1
      /\ \A k \in 1 .. Len(chan'[a]) :
            k + 1 \in 1 .. Len(chan[a]) /\ chan'[a][k] = chan[a][k + 1]
    BY <1>1, TailFacts
<1>3. /\ Writer(a)' <=> Writer(a)
      /\ Packet(a)' = Packet(a)
    BY <1>1 DEF Writer, Engaged, Packet
<1>4. AckDue(a)' <=> AckDue(a)
    <2>1. CASE AckDue(a)
        BY <1>1, <1>3, <2>1 DEF AckDue
    <2>2. CASE st[a] = "idle" /\ Reader(a)
        BY <1>1, <1>3, <2>2 DEF AckDue, Reader, Writer, AwaitingAck
    <2> QED
        BY <2>1, <2>2 DEF Skips
<1>5. Begun(b)' = Begun(b) /\ Begun(b) \in Nat /\ BegunGrows(b)
    BY <1>1, BegunType DEF Aside, Begun, BegunGrows
<1>6. AckComes(a)' => AckComes(a)
    BY <1>2 DEF AckComes
<1>7. NotAhead(a)'
    <2>1. ASSUME NEW k \in 1 .. Len(chan'[a]), IsHeader(chan'[a][k])
          PROVE  turn'[a] <= chan'[a][k].packet
        BY <1>1, <1>2, <2>1 DEF AnswerInv, NotAhead
    <2>2. st'[a] # "data"
        BY <1>1 DEF AwaitingAck
    <2> QED
        BY <1>1, <1>5, <2>1, <2>2, NotAheadStill DEF AnswerInv
<1>8. SentOnly(a)'
    BY <1>1, <1>2 DEF AnswerInv, SentOnly, Aside
<1>9. AckIsDue(a)'
    <2>1. AckComes(a)' => AckDue(a)' /\ chan'[b] = <<>>
        BY <1>1, <1>4, <1>6 DEF AnswerInv, AckIsDue
    <2>2. ASSUME NEW i \in 1 .. Len(chan'[a]), NEW k \in 1 .. Len(chan'[a]),
                 chan'[a][i] = Ack, chan'[a][k].kind = "header"
          PROVE  i <= k
        <3>1. PICK j \in 1 .. Len(chan[a]), l \in 1 .. Len(chan[a]) :
                 /\ j = i + 1 /\ l = k + 1
                 /\ chan[a][j] = Ack /\ chan[a][l].kind = "header"
            BY <1>2, <2>2
        <3>2. j <= l
            BY <3>1 DEF AnswerInv, AckIsDue
        <3> QED
            BY <3>1, <3>2
    <2> QED
        BY <2>1, <2>2 DEF AckIsDue
<1>10. DemandIsLast(a)'
    BY <1>1, <1>4 DEF AnswerInv, DemandIsLast
<1>11. Accepted(a)'
    <2>1. SUFFICES ASSUME /\ Writer(a)' /\ Packet(a)'.type # "DEBUG"
                          /\ \/ st'[a] \in {"bytes", "blockAck"}
                             \/ st'[a] = "headerAck" /\ Packet(a)'.len > 0 /\ AckComes(a)'
                   PROVE  /\ turn'[b] <= turn'[a]
                          /\ st'[b] = "data" /\ hdr'[b].packet = turn'[a]
        BY <1>1 DEF Accepted
    <2>2. st[a] = st'[a]
        BY <1>1, <2>1
    <2>3. /\ turn[b] <= turn[a]
          /\ st[b] = "data" /\ hdr[b].packet = turn[a]
        BY <1>3, <1>6, <2>1, <2>2 DEF AnswerInv, Accepted
    <2> QED
        BY <1>1, <2>3 DEF Aside
<1>12. TurnedFrom(a)'
    BY <1>1, <1>4 DEF AnswerInv, TurnedFrom, Aside
<1>14. NotAhead(b)'
    <2>1. \A k \in 1 .. Len(chan'[b]) :
             IsHeader(chan'[b][k]) => turn'[b] <= chan'[b][k].packet
        BY <1>1 DEF AnswerInv, NotAhead, Aside
    <2>2. st'[b] = "data" => turn'[b] <= hdr'[b].packet
        BY <1>1 DEF AnswerInv, NotAhead, Aside
    <2> QED
        BY <1>1, <2>1, <2>2, NotAheadStill DEF AnswerInv, Aside
<1>15. SentOnly(b)'
    BY <1>1 DEF AnswerInv, SentOnly, Skips
<1>16. AckIsDue(b)'
    BY <1>1, Unheard DEF AckIsDue, AckComes
<1>17. DemandIsLast(b)' /\ (AckDue(b)' <=> AckDue(b))
    BY <1>1, DemandStill DEF AnswerInv
<1>18. Accepted(b)'
    <2>1. st[a] # "data" /\ (AckComes(b)' => AckComes(b))
        BY <1>1 DEF AckComes, AwaitingAck
    <2> QED
        BY <1>1, <2>1, AcceptedStill DEF AnswerInv
<1>19. TurnedFrom(b)'
    BY <1>1, <1>17, Unheard DEF TurnedFrom, Aside
<1> QED
    BY <1>7, <1>8, <1>9, <1>10, <1>11, <1>12, <1>14, <1>15, <1>16, <1>17, <1>18,
       <1>19 DEF AnswerInv

(* The steps of a reader that takes a unit of packet m.                    *)
ReadsOn(a, b, m) ==
    /\ Aside(b) /\ script' = script /\ outcome' = outcome
    /\ Reader(a) /\ m \in 1 .. Len(script) /\ script[m].from = b
    /\ turn[a] <= m /\ m <= Begun(b)
    /\ chan[a] # <<>> /\ chan'[a] = Tail(chan[a])
    /\ Head(chan[a]) # Ack /\ Head(chan[a]).packet = m
    /\ \/ st[a] = "idle" /\ Head(chan[a]).kind = "header"
       \/ st[a] = "data" /\ Head(chan[a]).kind = "byte" /\ hdr[a].packet = m
    /\ \A k \in 1 .. Len(chan'[a]) : IsHeader(chan'[a][k]) => m < chan'[a][k].packet
    /\ \/ chan'[b] = chan[b]
       \/ chan'[b] = Append(chan[b], Ack) /\ Demands(script, Head(chan[a]))
    /\ \/ /\ turn'[a] = turn[a] /\ st'[a] = "data" /\ hdr'[a].packet = m
          /\ st[a] = "idle" /\ script[m].type # "DEBUG" =>
                chan'[b] = Append(chan[b], Ack)
       \/ /\ turn'[a] = turn[a] + 1 /\ st'[a] = "idle"
          /\ script[m].type # "DEBUG" => Demands(script, Head(chan[a]))
          /\ st[a] = "data" => Head(chan[a]).at + 1 = script[m].len
          /\ st[a] = "idle" /\ chan'[b] # chan[b] => script[m].len = 0

(* What has to be acknowledged, and is taken, was all there was.           *)
LEMMA DemandTaken ==
    ASSUME IInv, NEW a \in Ends, NEW b \in Ends, b = Other(a), AnswerInv(b),
           chan[a] # <<>>, Demands(script, Head(chan[a]))
    PROVE  /\ AckDue(b) /\ Head(chan[a]).packet = turn[b]
           /\ Len(chan[a]) = 1 /\ Tail(chan[a]) = <<>>
<1>1. /\ a = Other(b) /\ chan[a] \in Seq(Bytes \cup Headers)
      /\ Head(chan[a]) = chan[a][1] /\ 1 \in 1 .. Len(chan[a])
    BY TwoEnds, ComingIs
<1>2. AckDue(b) /\ 1 = Len(chan[a]) /\ chan[a][1].packet = turn[b]
    BY <1>1 DEF AnswerInv, DemandIsLast
<1>3. Tail(chan[a]) = <<>>
    <2>1. Tail(chan[a]) \in Seq(Bytes \cup Headers) /\ Len(Tail(chan[a])) = 0
        BY <1>1, <1>2
    <2> QED
        BY <2>1, EmptySeq
<1> QED
    BY <1>1, <1>2, <1>3

LEMMA ReadsKeepReader ==
    ASSUME IInv, IInv', NEW a \in Ends, NEW b \in Ends, b = Other(a),
           WayInv(a), WayInv(b), AnswerInv(a), AnswerInv(b),
           BegunGrows(a), Begun(a)' \in Nat, NEW m \in Nat, ReadsOn(a, b, m)
    PROVE  AnswerInv(a)'
<1>1. /\ a = Other(b) /\ a # b /\ Aside(b) /\ script' = script /\ outcome' = outcome
      /\ turn[a] \in Nat /\ turn[b] \in Nat /\ turn[a] <= m
      /\ Reader(a) /\ st[a] \in {"idle", "data"}
      /\ chan[a] # <<>> /\ chan'[a] = Tail(chan[a])
    BY TwoEnds, WriterIs DEF ReadsOn
<1>2. /\ Len(chan[a]) \in Nat /\ Len(chan'[a]) = Len(chan[a]) - 1
      /\ \A k \in 1 .. Len(chan'[a]) :
            k + 1 \in 1 .. Len(chan[a]) /\ chan'[a][k] = chan[a][k + 1]
    BY <1>1, TailFacts
<1>3. ~AckDue(a) /\ ~AckComes(a)
    <2>1. ~AckDue(a)
        BY <1>1 DEF AckDue, AwaitingAck
    <2> QED
        BY <2>1 DEF AnswerInv, AckIsDue
<1>4. /\ st'[a] \in {"idle", "data"} /\ ~AckDue(a)'
      /\ turn'[a] = turn[a] \/ turn'[a] = turn[a] + 1
      /\ st'[a] = "data" => turn'[a] = turn[a] /\ hdr'[a].packet = m
    <2>1. \/ turn'[a] = turn[a] /\ st'[a] = "data" /\ hdr'[a].packet = m
          \/ turn'[a] = turn[a] + 1 /\ st'[a] = "idle"
        BY DEF ReadsOn
    <2> QED
        BY <2>1 DEF AckDue, AwaitingAck
<1>5. Begun(b)' = Begun(b) /\ Begun(b) \in Nat /\ BegunGrows(b)
    BY <1>1, BegunType DEF Aside, Begun, BegunGrows
<1>6. NotAhead(a)'
    <2>1. ASSUME NEW k \in 1 .. Len(chan'[a]), IsHeader(chan'[a][k])
          PROVE  turn'[a] <= chan'[a][k].packet
        <3>1. m < chan'[a][k].packet
            BY <2>1 DEF ReadsOn
        <3>2. chan'[a][k].packet \in Nat
            <4>1. PICK i \in 1 .. Len(chan[a]) : chan'[a][k] = chan[a][i]
                BY <1>2
            <4> QED
                BY <2>1, <4>1, WireUnits DEF IsHeader
        <3> QED
            BY <1>1, <1>4, <3>1, <3>2
    <2>2. st'[a] = "data" => turn'[a] <= hdr'[a].packet
        BY <1>1, <1>4
    <2>3. turn[a] <= Begun(b)'
        BY <1>1, <1>5 DEF ReadsOn
    <2> QED
        BY <1>1, <1>4, <1>5, <2>1, <2>2, <2>3, NotAheadStill DEF AnswerInv
<1>7. SentOnly(a)'
    BY <1>1, <1>2 DEF AnswerInv, SentOnly, Aside
<1>8. AckIsDue(a)'
    <2>1. ~AckComes(a)'
        BY <1>2, <1>3 DEF AckComes
    <2> QED
        BY <2>1 DEF AckIsDue, AckComes
<1>9. DemandIsLast(a)'
    <2>1. ASSUME NEW k \in 1 .. Len(chan'[b]), Demands(script', chan'[b][k])
          PROVE  FALSE
        <3>1. CASE chan'[b] = chan[b]
            BY <1>1, <1>3, <2>1, <3>1 DEF AnswerInv, DemandIsLast
        <3>2. CASE chan'[b] = Append(chan[b], Ack)
            <4>1. chan[b] \in Seq(Bytes \cup Headers) /\ chan'[b][k] # Ack
                BY <2>1, ComingIs DEF Demands
            <4>2. k \in 1 .. Len(chan[b]) /\ chan'[b][k] = chan[b][k]
                BY <3>2, <4>1
            <4> QED
                BY <1>1, <1>3, <2>1, <4>2 DEF AnswerInv, DemandIsLast
        <3> QED
            BY <3>1, <3>2 DEF ReadsOn
    <2> QED
        BY <1>1, <2>1 DEF DemandIsLast
<1>10. Accepted(a)'
    <2>1. st'[a] \notin {"bytes", "blockAck", "headerAck"}
        BY <1>4
    <2> QED
        BY <2>1 DEF Accepted
<1>11. TurnedFrom(a)'
    BY <1>4 DEF TurnedFrom
<1> QED
    BY <1>6, <1>7, <1>8, <1>9, <1>10, <1>11 DEF AnswerInv

LEMMA ReadsKeepWriter ==
    ASSUME IInv, IInv', NEW a \in Ends, NEW b \in Ends, b = Other(a),
           WayInv(a), WayInv(b), WayInv(b)', AnswerInv(a), AnswerInv(b),
           BegunGrows(a), Begun(a)' \in Nat, NEW m \in Nat, ReadsOn(a, b, m)
    PROVE  AnswerInv(b)'
<1> DEFINE x == Head(chan[a])
<1>1. /\ a = Other(b) /\ a # b /\ Aside(b) /\ script' = script /\ outcome' = outcome
      /\ turn[a] \in Nat /\ turn[b] \in Nat /\ turn[a] <= m
      /\ m \in 1 .. Len(script) /\ script[m].from = b /\ m <= Begun(b)
      /\ turn[a] \in 1 .. Len(script) /\ script[turn[a]].from = b
      /\ chan[a] # <<>> /\ chan'[a] = Tail(chan[a])
      /\ x # Ack /\ x.packet = m
    BY TwoEnds, WriterIs, PacketFacts DEF ReadsOn
<1>2. \/ chan'[b] = chan[b]
      \/ chan'[b] = Append(chan[b], Ack) /\ Demands(script, x)
    BY DEF ReadsOn
<1>3. ~AckComes(b) /\ (AckDue(b) => turn[a] <= turn[b])
    BY <1>1, Unheard
<1>4. chan[b] \in Seq(Bytes \cup Headers) /\ Len(chan[b]) \in Nat
    BY ComingIs
<1>5. DemandIsLast(b)' /\ (AckDue(b)' <=> AckDue(b))
    BY <1>1, DemandStill DEF AnswerInv
<1>6. ASSUME NEW k \in 1 .. Len(chan'[b])
      PROVE  \/ k \in 1 .. Len(chan[b]) /\ chan'[b][k] = chan[b][k] /\ chan[b][k] # Ack
             \/ k = Len(chan'[b]) /\ chan'[b][k] = Ack /\ k = Len(chan[b]) + 1
    <2>1. CASE chan'[b] = chan[b]
        BY <1>3, <2>1 DEF AckComes
    <2>2. CASE chan'[b] = Append(chan[b], Ack)
        <3>1. CASE k = Len(chan[b]) + 1
            BY <1>4, <2>2, <3>1
        <3>2. CASE k # Len(chan[b]) + 1
            <4>1. k \in 1 .. Len(chan[b]) /\ chan'[b][k] = chan[b][k]
                BY <1>4, <2>2, <3>2
            <4> QED
                BY <1>3, <4>1 DEF AckComes
        <3> QED
            BY <3>1, <3>2
    <2> QED
        BY <1>2, <2>1, <2>2
<1> HIDE DEF x
<1>7. NotAhead(b)'
    <2>1. ASSUME NEW k \in 1 .. Len(chan'[b]), IsHeader(chan'[b][k])
          PROVE  turn'[b] <= chan'[b][k].packet
        <3>1. k \in 1 .. Len(chan[b]) /\ chan'[b][k] = chan[b][k]
            BY <1>6, <2>1, AckIs
        <3> QED
            BY <1>1, <2>1, <3>1 DEF AnswerInv, NotAhead, Aside
    <2>2. st'[b] = "data" => turn'[b] <= hdr'[b].packet
        BY <1>1 DEF AnswerInv, NotAhead, Aside
    <2> QED
        BY <1>1, <2>1, <2>2, NotAheadStill DEF AnswerInv, Aside
<1>8. SentOnly(b)'
    <2>1. ASSUME NEW k \in 1 .. Len(chan'[b]), chan'[b][k].kind = "byte",
                 chan'[b][k].packet = turn'[a]
          PROVE  FALSE
        <3>1. chan'[b][k] # Ack
            BY <2>1, AckIs
        <3>2. PICK p \in Nat : /\ p = turn'[a] /\ p <= Begun(a)' /\ script[p].from = a
            BY <1>1, <2>1, <3>1, WireUnitsNext
        <3>3. st'[a] # "idle"
            BY <3>2 DEF Begun
        <3>4. turn'[a] = turn[a]
            BY <3>3 DEF ReadsOn
        <3> QED
            BY <1>1, <3>2, <3>4
    <2> QED
        BY <1>1, <2>1 DEF SentOnly
<1>9. AckIsDue(b)'
    <2>1. CASE chan'[b] = chan[b]
        BY <1>3, <2>1 DEF AckIsDue, AckComes
    <2>2. CASE Demands(script, x)
        <3>1. AckDue(b) /\ chan'[a] = <<>>
            BY <1>1, <2>2, DemandTaken DEF x
        <3>2. ASSUME NEW k \in 1 .. Len(chan[b]), IsHeader(chan[b][k]) PROVE FALSE
            <4>1. PICK p \in Nat : /\ p = chan[b][k].packet /\ p <= Begun(a)
                                   /\ script[p].from = a
                BY <1>1, <3>2, WireUnits DEF IsHeader
            <4>2. turn[b] <= p
                BY <3>2, <4>1 DEF AnswerInv, NotAhead
            <4>3. Begun(a) <= turn[a] /\ Begun(a) \in Nat
                BY <1>1, BegunType
            <4>4. p # turn[a]
                BY <1>1, <4>1
            <4> QED
                BY <1>1, <1>3, <3>1, <4>1, <4>2, <4>3, <4>4
        <3>3. ASSUME NEW i \in 1 .. Len(chan'[b]), NEW k \in 1 .. Len(chan'[b]),
                     chan'[b][i] = Ack, chan'[b][k].kind = "header"
              PROVE  i <= k
            <4>1. ~(k \in 1 .. Len(chan[b]) /\ chan'[b][k] = chan[b][k] /\ chan[b][k] # Ack)
                BY <3>2, <3>3 DEF IsHeader
            <4>2. k = Len(chan'[b]) /\ k = Len(chan[b]) + 1
                BY <1>6, <4>1
            <4> QED
                BY <4>2
        <3> QED
            BY <1>1, <1>5, <3>1, <3>3 DEF AckIsDue
    <2> QED
        BY <1>2, <2>1, <2>2
<1>10. Accepted(b)'
    <2>1. SUFFICES ASSUME /\ Writer(b) /\ Packet(b).type # "DEBUG"
                          /\ \/ st[b] \in {"bytes", "blockAck"}
                             \/ st[b] = "headerAck" /\ Packet(b).len > 0 /\ AckComes(b)'
                   PROVE  /\ turn'[a] <= turn[b] /\ st'[a] = "data"
                          /\ hdr'[a].packet = turn[b]
        <3>1. /\ Packet(b)' = Packet(b) /\ (Writer(b)' <=> Writer(b)) /\ st'[b] = st[b]
              /\ turn'[b] = turn[b]
            BY <1>1 DEF Packet, Writer, Engaged, Aside
        <3> QED
            BY <1>1, <3>1 DEF Accepted
    <2>2. Packet(b) = script[turn[b]] /\ pos[b] \in Nat
        BY <2>1, WriterIs
    <2>3. /\ x.kind = "byte" /\ m = turn[b] => x.at < pos[b] /\ x.at \in Nat
        <3>1. chan[a][1] = x /\ 1 \in 1 .. Len(chan[a])
            BY <1>1, TailFacts DEF x
        <3>2. x.kind = "byte" => x.at \in Nat
            BY <1>1, HeadUnit DEF Bytes, x
        <3> QED
            BY <1>1, <3>1, <3>2 DEF AnswerInv, SentOnly
    <2>4. CASE st[b] \in {"bytes", "blockAck"}
        <3>1. st[a] = "data" /\ hdr[a].packet = turn[b] /\ turn[a] <= turn[b]
            BY <1>1, <2>1, <2>4 DEF AnswerInv, Accepted
        <3>2. x.kind = "byte" /\ m = turn[b]
            BY <3>1 DEF ReadsOn, x
        <3>3. pos[b] < script[m].len /\ script[m].len \in Nat
            <4>1. pos[b] < Packet(b).len
                BY <2>4 DEF IInv, EndsOK, EndInv
            <4> QED
                BY <1>1, <2>2, <3>2, <4>1, PacketFacts
        <3>4. x.at + 1 # script[m].len
            BY <2>2, <2>3, <3>2, <3>3
        <3>5. turn'[a] = turn[a] /\ st'[a] = "data" /\ hdr'[a].packet = m
            BY <3>1, <3>4 DEF ReadsOn, x
        <3> QED
            BY <3>1, <3>2, <3>5
    <2>5. CASE st[b] = "headerAck" /\ Packet(b).len > 0 /\ AckComes(b)'
        <3>1. chan'[b] # chan[b]
            BY <1>3, <2>5 DEF AckComes
        <3>2. Demands(script, x)
            BY <1>2, <3>1
        <3>3. AckDue(b) /\ m = turn[b]
            BY <1>1, <3>2, DemandTaken DEF x
        <3>4. x.kind # "byte"
            BY <2>2, <2>3, <2>5, <3>3 DEF IInv, EndsOK, EndInv
        <3>5. st[a] = "idle"
            BY <3>4 DEF ReadsOn, x
        <3>6. script[m].len # 0
            <4>1. script[m] = Packet(b)
                BY <2>2, <3>3
            <4>2. script[m].len > 0
                BY <2>5, <4>1
            <4> QED
                BY <4>2
        <3>7. turn'[a] = turn[a] /\ st'[a] = "data" /\ hdr'[a].packet = m
            BY <3>1, <3>5, <3>6 DEF ReadsOn
        <3> QED
            BY <1>1, <3>3, <3>7
    <2> QED
        BY <2>1, <2>4, <2>5
<1>11. TurnedFrom(b)'
    <2>1. SUFFICES ASSUME AckDue(b), turn'[a] > turn[b] PROVE chan'[a] = <<>>
        BY <1>1, <1>5 DEF TurnedFrom, Aside
    <2>2. turn[a] <= turn[b]
        BY <1>3, <2>1
    <2>3. turn'[a] = turn[a] + 1 /\ (script[m].type # "DEBUG" => Demands(script, x))
        BY <1>1, <2>1, <2>2 DEF ReadsOn, x
    <2>4. m = turn[b]
        BY <1>1, <2>1, <2>2, <2>3, BegunType
    <2>5. Demands(script, x)
        BY <2>1, <2>3, <2>4, WriterIs DEF AckDue
    <2> QED
        BY <1>1, <2>5, DemandTaken DEF x
<1> QED
    BY <1>5, <1>7, <1>8, <1>9, <1>10, <1>11 DEF AnswerInv

-----------------------------------------------------------------------------
(***************************************************************************)
(* Each step as one of these                                               *)
(***************************************************************************)
LEMMA OneSent ==
    ASSUME IInv, NEW a \in Ends, NEW b \in Ends, b = Other(a),
           NEW x \in Bytes \cup Headers, chan'[b] = Append(chan[b], x), Sent(a, x, TRUE)
    PROVE  /\ Len(chan[b]) <= Len(chan'[b])
           /\ \A k \in 1 .. Len(chan[b]) : chan'[b][k] = chan[b][k]
           /\ \A k \in 1 .. Len(chan'[b]) :
                 k \in 1 .. Len(chan[b]) \/ Sent(a, chan'[b][k], k = Len(chan'[b]))
<1>1. chan[b] \in Seq(Bytes \cup Headers) /\ Len(chan[b]) \in Nat
    BY ComingIs
<1>2. /\ Len(chan'[b]) = Len(chan[b]) + 1
      /\ \A k \in 1 .. Len(chan[b]) : chan'[b][k] = chan[b][k]
      /\ chan'[b][Len(chan[b]) + 1] = x
    BY <1>1
<1>3. ASSUME NEW k \in 1 .. Len(chan'[b]), k \notin 1 .. Len(chan[b])
      PROVE  Sent(a, chan'[b][k], k = Len(chan'[b]))
    <2>1. k = Len(chan'[b]) /\ chan'[b][k] = x
        BY <1>1, <1>2, <1>3
    <2>2. (k = Len(chan'[b])) = TRUE
        BY <2>1
    <2> QED
        BY <2>1, <2>2
<1> QED
    BY <1>1, <1>2, <1>3

LEMMA OutcomeSteps ==
    ASSUME IInv, NEW a \in Ends, NEW result,
           outcome' = [outcome EXCEPT ![turn[a]] = result], Engaged(a)
    PROVE  OutcomeKept(a) /\ outcome'[turn[a]] = result
<1>1. turn[a] \in 1 .. Len(script) /\ DOMAIN outcome = 1 .. Len(script)
    BY WriterIs DEF IInv, OutcomeInv
<1> QED
    BY <1>1 DEF OutcomeKept

LEMMA WriteHeaderSends ==
    ASSUME IInv, IInv', NEW a \in Ends, NEW b \in Ends, b = Other(a), WriteHeader(a)
    PROVE  SendsOn(a, b)
<1> DEFINE x == Header(turn[a], Packet(a).type, Packet(a).len)
<1>1. /\ Writer(a) /\ st[a] = "idle" /\ Send(a, x) /\ x \in Bytes \cup Headers
      /\ turn[a] \in 1 .. Len(script) /\ Packet(a) = script[turn[a]] /\ Engaged(a)
      /\ Packet(a).type \in {"MSG", "DEBUG"}
    BY WriterFacts, WriterIs DEF WriteHeader
<1>2. chan'[b] = Append(chan[b], x) /\ chan'[a] = chan[a]
    BY <1>1, SendKeeps
<1>3. \/ /\ Packet(a).type # "DEBUG" /\ UNCHANGED pos /\ StillWriting(a, "headerAck")
      \/ /\ Packet(a).type = "DEBUG" /\ UNCHANGED pos /\ StillWriting(a, "bytes")
      \/ Packet(a).type = "DEBUG" /\ WriteReturns(a, "MSG_OK")
    BY DEF WriteHeader
<1>4. /\ Aside(b) /\ script' = script /\ refused' = refused /\ OutcomeKept(a)
      /\ \/ /\ turn'[a] = turn[a] /\ pos[a] <= pos'[a] /\ outcome' = outcome
            /\ st'[a] \in {"headerAck", "bytes"}
            /\ Packet(a).type # "DEBUG" => st'[a] = "headerAck"
         \/ turn'[a] = turn[a] + 1 /\ st'[a] = "idle" /\ Packet(a).type = "DEBUG"
    <2>1. pos[a] \in Nat /\ pos[a] <= pos[a]
        BY WriterIs
    <2>2. ASSUME UNCHANGED pos, NEW state, StillWriting(a, state)
          PROVE  /\ Aside(b) /\ script' = script /\ refused' = refused
                 /\ OutcomeKept(a) /\ outcome' = outcome
                 /\ turn'[a] = turn[a] /\ pos[a] <= pos'[a] /\ st'[a] = state
        <3>1. Aside(b) /\ turn'[a] = turn[a] /\ st'[a] = state /\ script' = script
            BY <2>2, SameFields, WriteOnSteps
        <3> QED
            BY <2>1, <2>2, <3>1 DEF StillWriting, OutcomeKept
    <2>3. CASE WriteReturns(a, "MSG_OK") /\ Packet(a).type = "DEBUG"
        BY <1>1, <2>3, ReturnSteps, OutcomeSteps DEF WriteReturns
    <2> QED
        BY <1>3, <2>2, <2>3
<1>5. Sent(a, x, TRUE)
    <2>1. x.kind = "header" /\ x.packet = turn[a] /\ x # Ack
        BY <1>1 DEF Header, Ack
    <2>2. Packet(a).type # "DEBUG" => turn'[a] = turn[a] /\ st'[a] \in AwaitingAck
        BY <1>4 DEF AwaitingAck
    <2>3. Demands(script, x) => Packet(a).type # "DEBUG"
        BY <1>1, <2>1 DEF Demands
    <2> QED
        BY <1>1, <2>1, <2>2, <2>3 DEF Sent
<1> HIDE DEF x
<1>6. /\ Len(chan[b]) <= Len(chan'[b])
      /\ \A k \in 1 .. Len(chan[b]) : chan'[b][k] = chan[b][k]
      /\ \A k \in 1 .. Len(chan'[b]) :
            k \in 1 .. Len(chan[b]) \/ Sent(a, chan'[b][k], k = Len(chan'[b]))
    BY <1>1, <1>2, <1>5, OneSent
<1> QED
    BY <1>1, <1>2, <1>4, <1>6 DEF SendsOn, AwaitingAck

LEMMA WriteByteSends ==
    ASSUME IInv, IInv', NEW a \in Ends, NEW b \in Ends, b = Other(a), WriteByte(a)
    PROVE  SendsOn(a, b)
<1> DEFINE x == DataByte(turn[a], pos[a])
           next == pos[a] + 1
<1>1. /\ Writer(a) /\ st[a] = "bytes" /\ Send(a, x)
      /\ turn[a] \in 1 .. Len(script) /\ Packet(a) = script[turn[a]] /\ Engaged(a)
      /\ pos[a] \in Nat /\ turn[a] \in Nat
    BY WriterIs DEF WriteByte, IInv, EndsOK, EndInv, Writer
<1>2. x \in Bytes \cup Headers
    BY <1>1, WriterFacts
<1>3. chan'[b] = Append(chan[b], x) /\ chan'[a] = chan[a]
    BY <1>1, <1>2, SendKeeps
<1>4. x.kind = "byte" /\ x.packet = turn[a] /\ x.at = pos[a] /\ x # Ack
    BY DEF DataByte, Ack, Header
<1>5. \/ /\ next # Packet(a).len /\ (next % BLOCK_SIZE = 0 => Packet(a).type = "DEBUG")
         /\ StillWriting(a, "bytes") /\ pos' = [pos EXCEPT ![a] = next]
      \/ /\ Packet(a).type # "DEBUG" /\ pos' = [pos EXCEPT ![a] = next]
         /\ \E state \in {"blockAck", "finalAck"} : StillWriting(a, state)
      \/ Packet(a).type = "DEBUG" /\ WriteReturns(a, "MSG_OK")
    BY DEF WriteByte
<1>6. Demands(script, x) =>
         /\ Packet(a).type # "DEBUG"
         /\ next % BLOCK_SIZE = 0 \/ next = Packet(a).len
    BY <1>1, <1>4 DEF Demands
<1>7. /\ Aside(b) /\ script' = script /\ refused' = refused /\ OutcomeKept(a)
      /\ \/ /\ turn'[a] = turn[a] /\ pos'[a] = next /\ outcome' = outcome
            /\ \/ st'[a] = "bytes" /\ ~Demands(script, x)
               \/ st'[a] \in {"blockAck", "finalAck"} /\ Packet(a).type # "DEBUG"
         \/ turn'[a] = turn[a] + 1 /\ st'[a] = "idle" /\ Packet(a).type = "DEBUG"
    <2>1. PICK i : i = next
        OBVIOUS
    <2>2. ASSUME NEW state, StillWriting(a, state), pos' = [pos EXCEPT ![a] = next]
          PROVE  /\ Aside(b) /\ script' = script /\ refused' = refused
                 /\ OutcomeKept(a) /\ outcome' = outcome
                 /\ turn'[a] = turn[a] /\ pos'[a] = next /\ st'[a] = state
        <3>1. pos' = [pos EXCEPT ![a] = i]
            BY <2>1, <2>2
        <3>2. Aside(b) /\ turn'[a] = turn[a] /\ st'[a] = state /\ script' = script /\ pos'[a] = i
            BY <2>2, <3>1, WriteOnSteps
        <3> QED
            BY <2>1, <2>2, <3>2 DEF StillWriting, OutcomeKept
    <2>3. CASE WriteReturns(a, "MSG_OK") /\ Packet(a).type = "DEBUG"
        BY <1>1, <2>3, ReturnSteps, OutcomeSteps DEF WriteReturns
    <2> HIDE DEF x, next
    <2>4. CASE /\ next # Packet(a).len /\ (next % BLOCK_SIZE = 0 => Packet(a).type = "DEBUG")
               /\ StillWriting(a, "bytes") /\ pos' = [pos EXCEPT ![a] = next]
        BY <1>6, <2>2, <2>4
    <2>5. CASE /\ Packet(a).type # "DEBUG" /\ pos' = [pos EXCEPT ![a] = next]
               /\ \E state \in {"blockAck", "finalAck"} : StillWriting(a, state)
        BY <2>2, <2>5
    <2> QED
        BY <1>5, <2>3, <2>4, <2>5
<1>8. pos[a] < next /\ pos[a] <= next
    BY <1>1
<1> HIDE DEF next
<1>9. Sent(a, x, TRUE)
    <2>1. ~IsHeader(x)
        BY <1>4 DEF IsHeader
    <2>2. turn'[a] = turn[a] => x.at < pos'[a]
        <3>1. turn'[a] # turn[a] + 1 \/ turn'[a] # turn[a]
            BY <1>1
        <3> QED
            BY <1>4, <1>7, <1>8, <3>1
    <2>3. Demands(script, x) =>
             turn'[a] = turn[a] /\ st'[a] \in AwaitingAck /\ Packet(a).type # "DEBUG"
        BY <1>6, <1>7 DEF AwaitingAck
    <2>4. Packet(a).len > 0
        BY <1>1, NonEmpty
    <2> QED
        BY <1>1, <1>4, <2>1, <2>2, <2>3, <2>4 DEF Sent
<1> HIDE DEF x
<1>10. /\ Len(chan[b]) <= Len(chan'[b])
       /\ \A k \in 1 .. Len(chan[b]) : chan'[b][k] = chan[b][k]
       /\ \A k \in 1 .. Len(chan'[b]) :
             k \in 1 .. Len(chan[b]) \/ Sent(a, chan'[b][k], k = Len(chan'[b]))
    BY <1>2, <1>3, <1>9, OneSent
<1> QED
    BY <1>1, <1>3, <1>7, <1>8, <1>10 DEF SendsOn, AwaitingAck

LEMMA HexIsDebug ==
    ASSUME Unreset, IInv, NEW a \in Ends, Writer(a), Packet(a).hex
    PROVE  Packet(a).type = "DEBUG"
<1>1. /\ script \in Scripts /\ turn[a] \in 1 .. Len(script)
      /\ Packet(a) = script[turn[a]]
    BY WriterIs DEF IInv
<1> QED
    BY <1>1 DEF Unreset

LEMMA WriteHexByteSends ==
    ASSUME Unreset, IInv, IInv', NEW a \in Ends, NEW b \in Ends, b = Other(a),
           WriteHexByte(a)
    PROVE  SendsOn(a, b)
<1> DEFINE x == DataByte(turn[a], pos[a])
           y == DataByte(turn[a], pos[a] + 1)
           next == pos[a] + 2
<1>1. /\ Writer(a) /\ st[a] = "bytes" /\ Packet(a).hex
      /\ turn[a] \in 1 .. Len(script) /\ Packet(a) = script[turn[a]] /\ Engaged(a)
      /\ pos[a] \in Nat /\ turn[a] \in Nat
    <2>1. Writer(a) /\ st[a] = "bytes" /\ Packet(a).hex
        BY DEF WriteHexByte, IInv, EndsOK, EndInv
    <2> QED
        BY <2>1, WriterIs
<1>2. x \in Bytes \cup Headers /\ y \in Bytes \cup Headers
    <2>1. pos[a] + 1 \in Nat
        BY <1>1
    <2>2. \A i \in Nat : DataByte(turn[a], i) \in Bytes \cup Headers
        BY <1>1, WriterFacts
    <2> QED
        BY <1>1, <2>1, <2>2
<1>3. /\ x.kind = "byte" /\ x.packet = turn[a] /\ x.at = pos[a] /\ x # Ack
      /\ y.kind = "byte" /\ y.packet = turn[a] /\ y.at = pos[a] + 1 /\ y # Ack
      /\ ~IsHeader(x) /\ ~IsHeader(y)
    BY DEF DataByte, Ack, Header, IsHeader
<1>4. Packet(a).type = "DEBUG"
    BY <1>1, HexIsDebug
<1>5. ~Demands(script, x) /\ ~Demands(script, y)
    BY <1>1, <1>3, <1>4 DEF Demands
<1>6. /\ Aside(b) /\ script' = script /\ refused' = refused /\ OutcomeKept(a)
      /\ \/ /\ turn'[a] = turn[a] /\ pos'[a] = next /\ outcome' = outcome
            /\ st'[a] = "bytes"
         \/ turn'[a] = turn[a] + 1 /\ st'[a] = "idle"
    <2>1. PICK i : i = next
        OBVIOUS
    <2>2. CASE StillWriting(a, "bytes") /\ pos' = [pos EXCEPT ![a] = next]
        <3>1. pos' = [pos EXCEPT ![a] = i]
            BY <2>1, <2>2
        <3>2. /\ Aside(b) /\ turn'[a] = turn[a] /\ st'[a] = "bytes"
              /\ script' = script /\ pos'[a] = i
            BY <2>2, <3>1, WriteOnSteps
        <3> QED
            BY <2>1, <2>2, <3>2 DEF StillWriting, OutcomeKept
    <2>3. CASE WriteReturns(a, "MSG_OK")
        BY <1>1, <2>3, ReturnSteps, OutcomeSteps DEF WriteReturns
    <2> QED
        BY <1>4, <2>2, <2>3 DEF WriteHexByte
<1>7. pos[a] <= next /\ pos[a] < next /\ pos[a] + 1 < next
    BY <1>1
<1> HIDE DEF next
<1>8. Sent(a, x, FALSE) /\ Sent(a, y, TRUE)
    <2>1. turn'[a] = turn[a] => x.at < pos'[a] /\ y.at < pos'[a]
        <3>1. turn'[a] # turn[a] + 1 \/ turn'[a] # turn[a]
            BY <1>1
        <3> QED
            BY <1>3, <1>6, <1>7, <3>1
    <2>2. Packet(a).len > 0
        BY <1>1, NonEmpty
    <2> QED
        BY <1>1, <1>3, <1>5, <2>1, <2>2 DEF Sent
<1>9. /\ chan'[b] = Append(Append(chan[b], x), y) /\ chan'[a] = chan[a]
      /\ chan[b] \in Seq(Bytes \cup Headers)
    <2>1. chan \in [Ends -> Seq(Bytes \cup Headers)] /\ a # b
        BY TwoEnds DEF IInv, WireOK
    <2>2. chan' = [chan EXCEPT ![b] = @ \o <<x, y>>]
        BY DEF WriteHexByte
    <2>3. chan'[b] = chan[b] \o <<x, y>> /\ chan'[a] = chan[a]
        BY <2>1, <2>2
    <2>4. chan[b] \in Seq(Bytes \cup Headers)
        BY <2>1
    <2> HIDE DEF x, y
    <2>5. chan[b] \o <<x, y>> = Append(Append(chan[b], x), y)
        BY <1>2, <2>4, Concats
    <2> QED
        BY <2>3, <2>4, <2>5
<1> HIDE DEF x, y
<1>10. /\ Len(chan[b]) \in Nat /\ Len(chan'[b]) = Len(chan[b]) + 2
       /\ \A k \in 1 .. Len(chan[b]) : chan'[b][k] = chan[b][k]
       /\ chan'[b][Len(chan[b]) + 1] = x /\ chan'[b][Len(chan[b]) + 2] = y
    <2>1. PICK s \in Seq(Bytes \cup Headers) : s = Append(chan[b], x)
        <3>1. Append(chan[b], x) \in Seq(Bytes \cup Headers)
            BY <1>2, <1>9, AppendProperties
        <3> QED
            BY <3>1
    <2>2. /\ Len(chan[b]) \in Nat /\ Len(s) = Len(chan[b]) + 1
          /\ \A k \in 1 .. Len(chan[b]) : s[k] = chan[b][k]
          /\ s[Len(chan[b]) + 1] = x
        BY <1>2, <1>9, <2>1
    <2>3. /\ Len(Append(s, y)) = Len(s) + 1
          /\ \A k \in 1 .. Len(s) : Append(s, y)[k] = s[k]
          /\ Append(s, y)[Len(s) + 1] = y
        BY <1>2
    <2>4. chan'[b] = Append(s, y)
        BY <1>9, <2>1
    <2> QED
        BY <2>2, <2>3, <2>4
<1>11. ASSUME NEW k \in 1 .. Len(chan'[b]), k \notin 1 .. Len(chan[b])
       PROVE  Sent(a, chan'[b][k], k = Len(chan'[b]))
    <2>1. CASE k = Len(chan[b]) + 1
        <3>1. (k = Len(chan'[b])) = FALSE /\ chan'[b][k] = x
            BY <1>10, <2>1
        <3> QED
            BY <1>8, <3>1
    <2>2. CASE k = Len(chan[b]) + 2
        <3>1. (k = Len(chan'[b])) = TRUE /\ chan'[b][k] = y
            BY <1>10, <2>2
        <3> QED
            BY <1>8, <3>1
    <2> QED
        BY <1>10, <1>11, <2>1, <2>2
<1>12. Len(chan[b]) <= Len(chan'[b])
    BY <1>10
<1> QED
    BY <1>1, <1>4, <1>6, <1>7, <1>9, <1>10, <1>11, <1>12 DEF SendsOn, AwaitingAck

LEMMA AckedGets ==
    ASSUME Unreset, IInv, IInv', NEW a \in Ends, NEW b \in Ends, b = Other(a), WayInv(a),
           HeaderAcked(a) \/ HexBlockAcked(a) \/ BlockAcked(a) \/ FinalAcked(a)
    PROVE  GetsAnswer(a, b)
<1>1. /\ chan[a] # <<>> /\ Take(a) /\ Head(chan[a]).kind = "header"
      /\ st[a] \in AwaitingAck
    BY DEF HeaderAcked, HexBlockAcked, BlockAcked, FinalAcked, Has, AwaitingAck
<1>2. Writer(a) /\ Packet(a).type # "DEBUG" /\ Engaged(a)
    BY <1>1, WriterFacts DEF IInv, EndsOK, EndInv
<1>3. ~HexBlockAcked(a)
    <2>1. SUFFICES ASSUME st[a] = "hexAck" PROVE FALSE
        BY DEF HexBlockAcked
    <2>2. Packet(a).hex
        BY <2>1 DEF IInv, EndsOK, EndInv
    <2> QED
        BY <1>2, <2>2, HexIsDebug
<1>4. chan'[a] = Tail(chan[a]) /\ chan'[b] = chan[b]
    BY <1>1, TakeKeeps
<1>5. (Head(chan[a]).cmd = "ACK" <=> Head(chan[a]) = Ack) /\ st[a] # "data"
    BY <1>1, HeaderCame, AckIs DEF AwaitingAck
<1>6. \/ /\ UNCHANGED pos /\ StillWriting(a, "bytes")
         /\ \/ st[a] = "headerAck" /\ Head(chan[a]) = Ack /\ Packet(a).len > 0
            \/ st[a] = "blockAck"
      \/ \E result : /\ WriteReturns(a, result)
                     /\ st[a] = "headerAck" /\ Head(chan[a]) # Ack =>
                           result = "MSG_NO_ACK"
                     /\ st[a] # "blockAck"
                     /\ st[a] = "headerAck" /\ Head(chan[a]) = Ack =>
                           Packet(a).len = 0
    BY <1>3, <1>5 DEF HeaderAcked, BlockAcked, FinalAcked
<1>7. CASE /\ UNCHANGED pos /\ StillWriting(a, "bytes")
           /\ \/ st[a] = "headerAck" /\ Head(chan[a]) = Ack /\ Packet(a).len > 0
              \/ st[a] = "blockAck"
    <2>1. Aside(b) /\ turn'[a] = turn[a] /\ st'[a] = "bytes" /\ script' = script
        BY <1>7, SameFields, WriteOnSteps
    <2>2. refused' = refused /\ outcome' = outcome /\ OutcomeKept(a)
        BY <1>7 DEF StillWriting, OutcomeKept
    <2> QED
        BY <1>1, <1>2, <1>4, <1>7, <2>1, <2>2 DEF GetsAnswer, AckDue, AwaitingAck
<1>8. CASE \E result : /\ WriteReturns(a, result)
                       /\ st[a] = "headerAck" /\ Head(chan[a]) # Ack =>
                             result = "MSG_NO_ACK"
                       /\ st[a] # "blockAck"
                       /\ st[a] = "headerAck" /\ Head(chan[a]) = Ack =>
                             Packet(a).len = 0
    <2>1. PICK result : /\ WriteReturns(a, result)
                        /\ st[a] = "headerAck" /\ Head(chan[a]) # Ack =>
                              result = "MSG_NO_ACK"
                        /\ st[a] # "blockAck"
                        /\ st[a] = "headerAck" /\ Head(chan[a]) = Ack =>
                              Packet(a).len = 0
        BY <1>8
    <2>2. /\ Aside(b) /\ turn'[a] = turn[a] + 1 /\ st'[a] = "idle" /\ script' = script
          /\ refused' = refused
        BY <2>1, ReturnSteps DEF WriteReturns
    <2>3. OutcomeKept(a) /\ outcome'[turn[a]] = result
        BY <1>2, <2>1, OutcomeSteps DEF WriteReturns
    <2> QED
        BY <1>1, <1>2, <1>4, <2>1, <2>2, <2>3 DEF GetsAnswer, AckDue, AwaitingAck
<1> QED
    BY <1>6, <1>7, <1>8

(* The header of a packet comes to a reader between packets.               *)
LEMMA HeaderReads ==
    ASSUME IInv, NEW a \in Ends, NEW b \in Ends, b = Other(a), WayInv(a), AnswerInv(a),
           st[a] = "idle", Reader(a), Has(a, "header")
    PROVE  LET h == Head(chan[a])
               m == h.packet
           IN
           /\ h # Ack /\ h.cmd = script[m].type /\ h.len = script[m].len
           /\ m \in 1 .. Len(script) /\ script[m].from = b
           /\ turn[a] <= m /\ m <= Begun(b)
           /\ \A k \in 1 .. Len(Tail(chan[a])) :
                 IsHeader(Tail(chan[a])[k]) => m < Tail(chan[a])[k].packet
           /\ Demands(script, h) <=> h.cmd # "DEBUG"
<1> DEFINE h == Head(chan[a])
           m == h.packet
<1>1. chan[a] # <<>> /\ h.kind = "header" /\ h = chan[a][1] /\ 1 \in 1 .. Len(chan[a])
    BY TailFacts, ComingIs, HeadUnit DEF Has
<1>2. ~AckComes(a)
    BY DEF AnswerInv, AckIsDue, AckDue, AwaitingAck
<1>3. h # Ack
    BY <1>1, <1>2 DEF AckComes
<1>4. /\ IsHeader(h) /\ h = Unit(script, m, 0)
      /\ m \in 1 .. Len(script) /\ script[m].from = b /\ m <= Begun(b)
      /\ \A k \in 1 .. Len(Tail(chan[a])) :
            IsHeader(Tail(chan[a])[k]) => m < Tail(chan[a])[k].packet
    <2>1. h.cmd # "ACK"
        BY <1>1, <1>3, HeaderCame
    <2> QED
        BY <1>1, <2>1, HeaderCame
<1>5. h.cmd = script[m].type /\ h.len = script[m].len
    <2>1. PICK n : n = m /\ h = Unit(script, n, 0)
        BY <1>4
    <2> HIDE DEF h
    <2> QED
        BY <2>1 DEF Unit, Header
<1>6. turn[a] <= m
    BY <1>1, <1>4 DEF AnswerInv, NotAhead
<1>7. Demands(script, h) <=> h.cmd # "DEBUG"
    BY <1>1, <1>3, <1>5 DEF Demands
<1> QED
    BY <1>3, <1>4, <1>5, <1>6, <1>7

LEMMA RejectLengthReads ==
    ASSUME IInv, NEW a \in Ends, NEW b \in Ends, b = Other(a), WayInv(a), AnswerInv(a),
           RejectLength(a)
    PROVE  /\ \E m \in Nat : ReadsOn(a, b, m)
           /\ chan'[b] = chan[b]
<1> DEFINE h == Head(chan[a])
<1>1. /\ st[a] = "idle" /\ Reader(a) /\ Has(a, "header") /\ Take(a) /\ Return(a)
      /\ script' = script /\ outcome' = outcome
      /\ chan[a] # <<>> /\ h.kind = "header"
    BY DEF RejectLength, Has
<1>2. PICK m : m = h.packet
    OBVIOUS
<1>3. /\ h # Ack /\ m \in 1 .. Len(script) /\ script[m].from = b
      /\ h.cmd = script[m].type
      /\ turn[a] <= m /\ m <= Begun(b)
      /\ \A k \in 1 .. Len(Tail(chan[a])) :
            IsHeader(Tail(chan[a])[k]) => m < Tail(chan[a])[k].packet
      /\ Demands(script, h) <=> h.cmd # "DEBUG"
    BY <1>1, <1>2, HeaderReads
<1>4. chan'[a] = Tail(chan[a]) /\ chan'[b] = chan[b]
    BY <1>1, TakeKeeps
<1>5. Aside(b) /\ turn'[a] = turn[a] + 1 /\ st'[a] = "idle"
    BY <1>1, ReturnSteps
<1> HIDE DEF h
<1>6. ReadsOn(a, b, m)
    BY <1>1, <1>2, <1>3, <1>4, <1>5 DEF ReadsOn, h
<1> QED
    BY <1>3, <1>4, <1>6

LEMMA ReadHeaderReads ==
    ASSUME IInv, NEW a \in Ends, NEW b \in Ends, b = Other(a), WayInv(a), AnswerInv(a),
           ReadHeader(a)
    PROVE  \E m \in Nat : ReadsOn(a, b, m)
<1> DEFINE h == Head(chan[a])
<1>1. /\ st[a] = "idle" /\ Reader(a) /\ Has(a, "header")
      /\ chan[a] # <<>> /\ h.kind = "header"
      /\ (TakeAndSend(a, Ack) /\ h.cmd # "DEBUG") \/ Take(a)
    BY DEF ReadHeader, Has, Acknowledges
<1>2. PICK m : m = h.packet
    OBVIOUS
<1>3. /\ h # Ack /\ m \in 1 .. Len(script) /\ script[m].from = b
      /\ h.cmd = script[m].type /\ h.len = script[m].len
      /\ turn[a] <= m /\ m <= Begun(b)
      /\ \A k \in 1 .. Len(Tail(chan[a])) :
            IsHeader(Tail(chan[a])[k]) => m < Tail(chan[a])[k].packet
      /\ Demands(script, h) <=> h.cmd # "DEBUG"
    BY <1>1, <1>2, HeaderReads
<1>4. /\ chan'[a] = Tail(chan[a])
      /\ \/ chan'[b] = chan[b]
         \/ chan'[b] = Append(chan[b], Ack) /\ Demands(script, h)
      /\ h.cmd \notin {"ACK", "DEBUG"} => chan'[b] = Append(chan[b], Ack)
    <2>1. h.cmd \notin {"ACK", "DEBUG"} => TakeAndSend(a, Ack)
        BY DEF ReadHeader, Acknowledges
    <2> HIDE DEF h
    <2> QED
        BY <1>1, <1>3, <2>1, TakeKeeps, TakeAndSendKeeps, HeaderTypes
<1>5. \/ /\ h.cmd # "ACK" /\ h.len > 0 /\ Goto(a, "data")
         /\ hdr' = [hdr EXCEPT ![a] = h]
         /\ UNCHANGED <<script, pos, buf, log, outcome, refused, resets>>
      \/ (h.cmd = "ACK" \/ h.len = 0) /\ ReadReturns(a, h.cmd, <<>>)
    BY DEF ReadHeader
<1>6. h.cmd # "ACK"
    BY <1>3, PacketFacts
<1> HIDE DEF h
<1>7. /\ Aside(b) /\ script' = script /\ outcome' = outcome
      /\ \/ turn'[a] = turn[a] /\ st'[a] = "data" /\ hdr'[a].packet = m
         \/ turn'[a] = turn[a] + 1 /\ st'[a] = "idle" /\ script[m].len = 0
    <2>1. CASE /\ Goto(a, "data") /\ hdr' = [hdr EXCEPT ![a] = h]
               /\ UNCHANGED <<script, pos, buf, log, outcome, refused, resets>>
        <3>1. PICK p, s, c : p = pos[a] /\ s = buf[a] /\ c = h
            OBVIOUS
        <3>2. /\ pos' = [pos EXCEPT ![a] = p] /\ buf' = [buf EXCEPT ![a] = s]
              /\ hdr' = [hdr EXCEPT ![a] = c] /\ Goto(a, "data")
            BY <2>1, <3>1, SameFields
        <3>3. Aside(b) /\ turn'[a] = turn[a] /\ st'[a] = "data" /\ hdr'[a] = c
            BY <3>2, ReadOnSteps
        <3> QED
            BY <1>2, <2>1, <3>1, <3>3
    <2>2. CASE h.len = 0 /\ ReadReturns(a, h.cmd, <<>>)
        <3>1. Aside(b) /\ turn'[a] = turn[a] + 1 /\ st'[a] = "idle"
            BY <2>2, ReturnSteps DEF ReadReturns
        <3> QED
            BY <1>3, <2>2, <3>1 DEF ReadReturns
    <2> QED
        BY <1>5, <1>6, <2>1, <2>2
<1>8. ReadsOn(a, b, m)
    BY <1>1, <1>2, <1>3, <1>4, <1>6, <1>7 DEF ReadsOn, h
<1> QED
    BY <1>3, <1>8

LEMMA ReadByteReads ==
    ASSUME IInv, NEW a \in Ends, NEW b \in Ends, b = Other(a), WayInv(a), AnswerInv(a),
           ReadByte(a)
    PROVE  \E m \in Nat : ReadsOn(a, b, m)
<1> DEFINE x == Head(chan[a])
           next == pos[a] + 1
<1>1. /\ st[a] = "data" /\ chan[a] # <<>> /\ x.kind = "byte" /\ Reader(a)
    BY DEF ReadByte, Has, IInv, EndsOK, EndInv
<1>2. PICK m \in Nat : m = hdr[a].packet
    BY DEF IInv, EndsOK, Headers
<1>3. /\ x = DataByte(m, pos[a]) /\ pos[a] \in Nat
      /\ hdr[a].cmd = script[m].type /\ hdr[a].len = script[m].len
      /\ m \in 1 .. Len(script) /\ script[m].from = b /\ m <= Begun(b)
      /\ \A k \in 1 .. Len(chan[a]) : IsHeader(chan[a][k]) => m < chan[a][k].packet
    BY <1>1, <1>2, ByteCame
<1>4. x.packet = m /\ x.at + 1 = next /\ x # Ack
    BY <1>3, AckIs DEF DataByte
<1>5. turn[a] <= m
    BY <1>1, <1>2 DEF AnswerInv, NotAhead
<1>6. Demands(script, x) <=>
         /\ script[m].type # "DEBUG"
         /\ next % BLOCK_SIZE = 0 \/ next = script[m].len
    BY <1>1, <1>4 DEF Demands
<1>7. /\ chan'[a] = Tail(chan[a])
      /\ \/ chan'[b] = chan[b]
         \/ chan'[b] = Append(chan[b], Ack) /\ Demands(script, x)
    <2>1. \/ Take(a)
          \/ /\ TakeAndSend(a, Ack) /\ hdr[a].cmd # "DEBUG"
             /\ next = hdr[a].len \/ next % BLOCK_SIZE = 0
        BY DEF ReadByte, Acknowledges
    <2>2. \/ Take(a)
          \/ TakeAndSend(a, Ack) /\ Demands(script, x)
        BY <1>3, <1>6, <2>1
    <2> HIDE DEF x, next
    <2> QED
        BY <1>1, <2>2, TakeKeeps, TakeAndSendKeeps, HeaderTypes
<1>8. \A k \in 1 .. Len(chan'[a]) : IsHeader(chan'[a][k]) => m < chan'[a][k].packet
    BY <1>1, <1>3, <1>7, TailFacts
<1>9. /\ Aside(b) /\ script' = script /\ outcome' = outcome
      /\ \/ turn'[a] = turn[a] /\ st'[a] = "data" /\ hdr'[a].packet = m
         \/ turn'[a] = turn[a] + 1 /\ st'[a] = "idle" /\ next = script[m].len
    <2>1. PICK i, s : i = next /\ s = Append(buf[a], x)
        OBVIOUS
    <2>2. \/ /\ Goto(a, "data") /\ pos' = [pos EXCEPT ![a] = i]
             /\ buf' = [buf EXCEPT ![a] = s]
             /\ UNCHANGED <<script, hdr, log, outcome, refused, resets>>
          \/ next = hdr[a].len /\ ReadReturns(a, hdr[a].cmd, s)
        BY <2>1 DEF ReadByte
    <2> HIDE DEF x, next
    <2>3. CASE /\ Goto(a, "data") /\ pos' = [pos EXCEPT ![a] = i]
               /\ buf' = [buf EXCEPT ![a] = s]
               /\ UNCHANGED <<script, hdr, log, outcome, refused, resets>>
        <3>1. PICK h : h = hdr[a]
            OBVIOUS
        <3>2. /\ Goto(a, "data") /\ pos' = [pos EXCEPT ![a] = i]
              /\ buf' = [buf EXCEPT ![a] = s] /\ hdr' = [hdr EXCEPT ![a] = h]
            BY <2>3, <3>1, SameFields
        <3>3. Aside(b) /\ turn'[a] = turn[a] /\ st'[a] = "data" /\ hdr'[a] = h
            BY <3>2, ReadOnSteps
        <3> QED
            BY <1>2, <2>3, <3>1, <3>3
    <2>4. CASE next = hdr[a].len /\ ReadReturns(a, hdr[a].cmd, s)
        <3>1. Aside(b) /\ turn'[a] = turn[a] + 1 /\ st'[a] = "idle"
            BY <2>4, ReturnSteps DEF ReadReturns
        <3> QED
            BY <1>3, <2>4, <3>1 DEF ReadReturns
    <2> QED
        BY <2>2, <2>3, <2>4
<1> HIDE DEF x, next
<1>10. ReadsOn(a, b, m)
    BY <1>1, <1>2, <1>3, <1>4, <1>5, <1>6, <1>7, <1>8, <1>9 DEF ReadsOn, x
<1> QED
    BY <1>10

LEMMA SkipSkips ==
    ASSUME IInv, NEW a \in Ends, NEW b \in Ends, b = Other(a), Skip(a)
    PROVE  Skips(a, b)
<1>1. /\ Reading(a) /\ st[a] # "data" /\ Take(a)
      /\ chan[a] # <<>> /\ Head(chan[a]).kind = "byte"
      /\ UNCHANGED <<script, turn, st, pos, buf, hdr, log, outcome, refused, resets>>
    BY DEF Skip, Has
<1>2. a # b
    BY TwoEnds
<1>3. Aside(b) /\ turn'[a] = turn[a] /\ pos'[a] = pos[a] /\ st'[a] = st[a]
    BY <1>1 DEF Aside
<1>4. AckDue(a) \/ (st[a] = "idle" /\ Reader(a))
    <2>1. CASE st[a] \in AwaitingAck
        BY <2>1 DEF AckDue, AwaitingAck, IInv, EndsOK, EndInv
    <2> QED
        BY <1>1, <2>1 DEF Reading
<1>5. chan'[a] = Tail(chan[a]) /\ chan'[b] = chan[b]
    BY <1>1, TakeKeeps
<1> QED
    BY <1>1, <1>3, <1>4, <1>5 DEF Skips

(* Every step of an end that keeps its place is one of these.              *)
StepOf(a, b) ==
    \/ SendsOn(a, b)
    \/ GetsAnswer(a, b)
    \/ Skips(a, b)
    \/ \E m \in Nat : ReadsOn(a, b, m)

LEMMA EndStepIs ==
    ASSUME Unreset, IInv, IInv', NEW a \in Ends, NEW b \in Ends, b = Other(a),
           WayInv(a), AnswerInv(a), EndStep(a), astray' = {}
    PROVE  /\ StepOf(a, b)
           /\ refused' = refused \/ RejectLength(a)
<1>1. CASE WriteHeader(a) \/ WriteByte(a) \/ WriteHexByte(a)
    <2>1. SendsOn(a, b)
        BY <1>1, WriteHeaderSends, WriteByteSends, WriteHexByteSends
    <2> QED
        BY <2>1 DEF StepOf, SendsOn
<1>2. CASE HeaderAcked(a) \/ HexBlockAcked(a) \/ BlockAcked(a) \/ FinalAcked(a)
    <2>1. GetsAnswer(a, b)
        BY <1>2, AckedGets
    <2> QED
        BY <2>1 DEF StepOf, GetsAnswer
<1>3. CASE RejectLength(a)
    BY <1>3, RejectLengthReads DEF StepOf
<1>4. CASE ReadHeader(a)
    BY <1>4, ReadHeaderReads DEF StepOf, ReadHeader, ReadReturns
<1>5. CASE ReadByte(a)
    BY <1>5, ReadByteReads DEF StepOf, ReadByte, ReadReturns
<1>6. CASE Skip(a)
    BY <1>6, SkipSkips DEF StepOf, Skip
<1>7. ~Garble(a)
    BY DEF Garble, GoesAstray
<1> QED
    BY <1>1, <1>2, <1>3, <1>4, <1>5, <1>6, <1>7 DEF EndStep

LEMMA StepGrows ==
    ASSUME IInv, IInv', NEW a \in Ends, NEW b \in Ends, b = Other(a), StepOf(a, b)
    PROVE  /\ BegunGrows(a) /\ Begun(a)' \in Nat
           /\ script' = script /\ Aside(b)
           /\ turn[a] <= turn'[a] /\ turn'[b] = turn[b]
<1>1. /\ script' = script /\ Aside(b)
      /\ \/ turn'[a] = turn[a] /\ (st[a] # "idle" => st'[a] # "idle")
         \/ turn'[a] = turn[a] + 1
    <2>1. CASE SendsOn(a, b)
        BY <2>1 DEF SendsOn, AwaitingAck
    <2>2. CASE GetsAnswer(a, b)
        BY <2>2 DEF GetsAnswer
    <2>3. CASE Skips(a, b)
        BY <2>3 DEF Skips
    <2>4. CASE \E m \in Nat : ReadsOn(a, b, m)
        BY <2>4 DEF ReadsOn
    <2> QED
        BY <2>1, <2>2, <2>3, <2>4 DEF StepOf
<1>2. turn[a] \in Nat
    BY WriterIs
<1> QED
    BY <1>1, <1>2, BegunNext DEF Aside

(* What is on its way to no end stays so.                                  *)
NoBytesOf(n) ==
    \A e \in Ends : \A i \in 1 .. Len(chan[e]) :
        chan[e][i].kind = "byte" => chan[e][i].packet # n

LEMMA NoBytesStill ==
    ASSUME IInv, NEW a \in Ends, NEW b \in Ends, b = Other(a), NEW n \in Nat, NoBytesOf(n),
           \/ chan'[a] = chan[a]
           \/ chan[a] # <<>> /\ chan'[a] = Tail(chan[a]),
           \A k \in 1 .. Len(chan'[b]) :
               \/ k \in 1 .. Len(chan[b]) /\ chan'[b][k] = chan[b][k]
               \/ chan'[b][k].kind = "byte" => chan'[b][k].packet # n
    PROVE  NoBytesOf(n)'
<1>1. ASSUME NEW k \in 1 .. Len(chan'[a]), chan'[a][k].kind = "byte"
      PROVE  chan'[a][k].packet # n
    <2>1. PICK i \in 1 .. Len(chan[a]) : chan'[a][k] = chan[a][i]
        BY <1>1, TailFacts
    <2> QED
        BY <1>1, <2>1 DEF NoBytesOf
<1>2. ASSUME NEW k \in 1 .. Len(chan'[b]), chan'[b][k].kind = "byte"
      PROVE  chan'[b][k].packet # n
    BY <1>2 DEF NoBytesOf
<1>3. Ends = {a, b}
    BY TwoEnds
<1> QED
    BY <1>1, <1>2, <1>3 DEF NoBytesOf

(* A writer that has given up a packet, or waits in vain, keeps to it.     *)
LEMMA UnsentStill ==
    ASSUME IInv, IInv', NEW a \in Ends, NEW b \in Ends, b = Other(a), StepOf(a, b),
           AnswerInv(a), AnswerInv(b),
           NEW n \in 1 .. Len(script), NEW w \in Ends, w = script[n].from, Unsent(n, w)
    PROVE  Unsent(n, w)'
<1>1. /\ script' = script /\ Aside(b) /\ turn[a] <= turn'[a] /\ turn'[b] = turn[b]
      /\ a # b /\ a = Other(b) /\ (w = a \/ w = b)
      /\ turn[a] \in Nat /\ turn'[a] \in Nat /\ turn[b] \in Nat /\ n \in Nat
    <2>1. /\ script' = script /\ Aside(b) /\ turn[a] <= turn'[a] /\ turn'[b] = turn[b]
          /\ a # b /\ a = Other(b) /\ (w = a \/ w = b)
        BY StepGrows, TwoEnds
    <2>2. turn[a] \in Nat /\ turn[b] \in Nat /\ n \in Nat
        BY WriterIs
    <2>3. turn'[a] \in Nat
        BY DEF IInv, EndsOK
    <2> QED
        BY <2>1, <2>2, <2>3
<1>2. /\ outcome[n] # "MSG_OK" /\ NoBytesOf(n)
      /\ turn[w] > n \/ (/\ turn[w] = n /\ st[w] = "headerAck"
                         /\ chan[Other(w)] = <<>> /\ ~AckComes(w))
    BY DEF Unsent, NoBytesOf
<1>3. SUFFICES /\ outcome'[n] # "MSG_OK" /\ NoBytesOf(n)'
               /\ \/ turn'[w] > n
                  \/ /\ turn'[w] = n /\ st'[w] = "headerAck"
                     /\ chan'[Other(w)] = <<>> /\ ~AckComes(w)'
    BY DEF Unsent, NoBytesOf
<1>4. turn[w] > n => turn'[w] > n
    BY <1>1
<1>5. CASE SendsOn(a, b)
    <2>1. /\ Writer(a) /\ st[a] \in {"idle", "bytes"} /\ OutcomeKept(a)
          /\ chan'[a] = chan[a]
          /\ \A k \in 1 .. Len(chan[b]) : chan'[b][k] = chan[b][k]
          /\ \A k \in 1 .. Len(chan'[b]) :
                k \in 1 .. Len(chan[b]) \/ Sent(a, chan'[b][k], k = Len(chan'[b]))
        BY <1>5 DEF SendsOn
    <2>2. n # turn[a]
        <3>1. w = a => turn[a] > n
            BY <1>2, <2>1
        <3>2. w = b => script[turn[a]].from # w
            BY <1>1, <2>1, WriterIs
        <3> QED
            BY <1>1, <3>1, <3>2
    <2>3. outcome'[n] # "MSG_OK"
        BY <1>2, <2>1, <2>2 DEF OutcomeKept
    <2>4. NoBytesOf(n)'
        BY <1>1, <1>2, <2>1, <2>2, NoBytesStill DEF Sent
    <2>5. w = a => turn[w] > n
        BY <1>2, <2>1
    <2>6. w = b /\ ~AckComes(b) => ~AckComes(b)'
        BY <2>1 DEF AckComes, Sent
    <2> QED
        BY <1>1, <1>2, <1>4, <2>1, <2>3, <2>4, <2>5, <2>6 DEF Aside
<1>6. ASSUME chan[a] # <<>>, w = b PROVE turn'[w] > n
    BY <1>1, <1>2, <1>4, <1>6
<1>7. ASSUME chan[a] # <<>>, chan'[a] = Tail(chan[a]), ~AckComes(a) PROVE ~AckComes(a)'
    BY <1>7, TailFacts DEF AckComes
<1>8. CASE GetsAnswer(a, b)
    <2>1. /\ Writer(a) /\ OutcomeKept(a)
          /\ chan[a] # <<>> /\ chan'[a] = Tail(chan[a]) /\ chan'[b] = chan[b]
          /\ Head(chan[a]) = chan[a][1] /\ 1 \in 1 .. Len(chan[a])
        BY <1>8, TailFacts DEF GetsAnswer, AckDue
    <2>2. NoBytesOf(n)'
        BY <1>1, <1>2, <2>1, NoBytesStill
    <2>3. CASE n # turn[a]
        <3>1. outcome'[n] # "MSG_OK"
            BY <1>2, <2>1, <2>3 DEF OutcomeKept
        <3>2. turn'[w] > n
            BY <1>1, <1>2, <1>4, <1>6, <2>1, <2>3
        <3> QED
            BY <2>2, <3>1, <3>2
    <2>4. CASE n = turn[a]
        <3>1. w = a /\ ~AckComes(a) /\ st[a] = "headerAck"
            BY <1>1, <1>2, <2>1, <2>4, WriterIs
        <3>2. Head(chan[a]) # Ack
            BY <2>1, <3>1 DEF AckComes
        <3>3. turn'[a] = turn[a] + 1 /\ outcome'[turn[a]] = "MSG_NO_ACK"
            BY <1>8, <3>1, <3>2 DEF GetsAnswer
        <3> QED
            BY <1>1, <2>2, <2>4, <3>1, <3>3
    <2> QED
        BY <2>3, <2>4
<1>9. CASE Skips(a, b)
    <2>1. /\ outcome' = outcome /\ turn'[a] = turn[a] /\ st'[a] = st[a]
          /\ chan[a] # <<>> /\ chan'[a] = Tail(chan[a]) /\ chan'[b] = chan[b]
        BY <1>9 DEF Skips
    <2>2. NoBytesOf(n)'
        BY <1>1, <1>2, <2>1, NoBytesStill
    <2> QED
        BY <1>1, <1>2, <1>4, <1>6, <1>7, <2>1, <2>2
<1>10. CASE \E m \in Nat : ReadsOn(a, b, m)
    <2>1. /\ outcome' = outcome /\ st[a] \in {"idle", "data"}
          /\ chan[a] # <<>> /\ chan'[a] = Tail(chan[a])
          /\ chan'[b] = chan[b] \/ chan'[b] = Append(chan[b], Ack)
        BY <1>10 DEF ReadsOn
    <2>2. ASSUME NEW k \in 1 .. Len(chan'[b])
          PROVE  \/ k \in 1 .. Len(chan[b]) /\ chan'[b][k] = chan[b][k]
                 \/ chan'[b][k] = Ack
        <3>1. chan[b] \in Seq(Bytes \cup Headers)
            BY ComingIs
        <3>2. CASE chan'[b] = chan[b]
            BY <3>2
        <3>3. CASE chan'[b] = Append(chan[b], Ack)
            BY <2>2, <3>1, <3>3
        <3> QED
            BY <2>1, <3>2, <3>3
    <2>3. NoBytesOf(n)'
        BY <1>1, <1>2, <2>1, <2>2, AckIs, NoBytesStill
    <2> QED
        BY <1>1, <1>2, <1>4, <1>6, <2>1, <2>3
<1> QED
    BY <1>5, <1>8, <1>9, <1>10 DEF StepOf

(* The writer of a packet that is refused waits for an ACK, has sent       *)
(* nothing but the header, and that was all there was on the wire.         *)
LEMMA RefusedUnsent ==
    ASSUME Unreset, IInv, NEW a \in Ends, NEW b \in Ends, b = Other(a),
           WayInv(a), WayInv(b), AnswerInv(a), AnswerInv(b), RejectLength(a),
           NEW n, n = Head(chan[a]).packet
    PROVE  /\ n \in 1 .. Len(script)
           /\ script[n].type # "DEBUG" => Unsent(n, script[n].from)'
<1> DEFINE h == Head(chan[a])
<1>1. /\ st[a] = "idle" /\ Reader(a) /\ Has(a, "header") /\ Take(a) /\ Return(a)
      /\ outcome' = outcome /\ chan[a] # <<>> /\ h.kind = "header"
      /\ a # b /\ a = Other(b) /\ Ends = {a, b}
    BY TwoEnds DEF RejectLength, Has
<1>2. /\ n \in 1 .. Len(script) /\ script[n].from = b /\ h.cmd = script[n].type
      /\ Demands(script, h) <=> h.cmd # "DEBUG"
    BY <1>1, HeaderReads
<1>3. SUFFICES ASSUME script[n].type # "DEBUG" PROVE Unsent(n, b)'
    BY <1>2 DEF RejectLength
<1>4. AckDue(b) /\ n = turn[b] /\ Len(chan[a]) = 1 /\ Tail(chan[a]) = <<>>
    BY <1>1, <1>2, <1>3, DemandTaken
<1>5. chan'[a] = <<>> /\ chan'[b] = chan[b] /\ Aside(b)
    BY <1>1, <1>4, TakeKeeps, ReturnSteps
<1>6. outcome'[n] = "none"
    BY <1>1, <1>2, <1>4, WriterIs DEF IInv, OutcomeInv
<1>7. ASSUME NEW k \in 1 .. Len(chan[b]), chan[b][k].kind = "byte"
      PROVE  chan[b][k].packet # n
    <2>1. PICK p : p = chan[b][k].packet /\ script[p].from = a
        BY <1>1, <1>7, AckIs, WireUnits
    <2> QED
        BY <1>1, <1>2, <2>1
<1>8. st[b] = "headerAck"
    <2>1. Writer(b) /\ Packet(b).type # "DEBUG" /\ st[b] \in AwaitingAck
        BY <1>4 DEF AckDue
    <2>2. st[b] # "hexAck"
        BY <2>1, HexIsDebug DEF IInv, EndsOK, EndInv
    <2>3. ~(st[b] \in AwaitingAck /\ pos[b] > 0)
        <3>1. SUFFICES ASSUME st[b] \in AwaitingAck, pos[b] > 0 PROVE FALSE
            OBVIOUS
        <3>2. chan[a][1] = Unit(script, turn[b], pos[b])
            BY <1>1, <1>4, <3>1, ComingIs DEF WayInv, WriterAtWork
        <3>3. chan[a][1].kind = "byte"
            BY <3>1, <3>2 DEF Unit, DataByte
        <3> QED
            BY <1>1, <3>3, TailFacts, ComingIs
    <2>4. st[b] = "finalAck" => pos[b] > 0
        BY DEF IInv, EndsOK, EndInv
    <2>5. st[b] # "blockAck"
        BY <1>1, <2>1 DEF AnswerInv, Accepted
    <2> QED
        BY <2>1, <2>2, <2>3, <2>4, <2>5 DEF AwaitingAck
<1>9. ~AckComes(b)'
    <2>1. ~AckComes(b)
        BY <1>1, Unheard
    <2> QED
        BY <1>5, <2>1 DEF AckComes
<1>10. \A e \in Ends : \A i \in 1 .. Len(chan'[e]) :
          chan'[e][i].kind = "byte" => chan'[e][i].packet # n
    BY <1>1, <1>5, <1>7
<1> QED
    BY <1>1, <1>4, <1>5, <1>6, <1>8, <1>9, <1>10 DEF Unsent, Aside

(* The end that moves, and has no bytes before it but those of a DEBUG     *)
(* packet, or of the one it reads.                                         *)
LEMMA HeldByMover ==
    ASSUME Unreset, IInv, IInv', NEW a \in Ends, NEW b \in Ends, b = Other(a),
           WayInv(a), AnswerInv(a), AnswerInv(b), Held(a), StepOf(a, b)
    PROVE  Held(a)'
<1>1. a # b /\ a = Other(b) /\ Aside(b) /\ script' = script
    BY TwoEnds, StepGrows
<1>2. chan'[a] = chan[a] \/ (chan[a] # <<>> /\ chan'[a] = Tail(chan[a]))
    BY DEF StepOf, SendsOn, GetsAnswer, Skips, ReadsOn
<1>3. ASSUME NEW k \in 1 .. Len(chan'[a])
      PROVE  \E i \in 1 .. Len(chan[a]) : chan'[a][k] = chan[a][i]
    BY <1>2, TailFacts
<1>4. CASE SendsOn(a, b) \/ GetsAnswer(a, b) \/ Skips(a, b)
    <2>1. st[a] # "data" /\ st'[a] # "data"
        BY <1>4 DEF SendsOn, GetsAnswer, Skips, AckDue, AwaitingAck
    <2>2. ASSUME NEW k \in 1 .. Len(chan'[a]), chan'[a][k].kind = "byte"
          PROVE  /\ script[chan'[a][k].packet].len > 0
                 /\ script[chan'[a][k].packet].type = "DEBUG"
        BY <1>3, <2>1, <2>2 DEF Held
    <2> QED
        BY <1>1, <2>1, <2>2 DEF Held
<1>5. CASE \E m \in Nat : ReadsOn(a, b, m)
    <2> DEFINE x == Head(chan[a])
    <2>1. PICK m \in Nat : ReadsOn(a, b, m)
        BY <1>5
    <2>2. /\ chan[a] # <<>> /\ chan'[a] = Tail(chan[a]) /\ x # Ack /\ x.packet = m
          /\ m \in 1 .. Len(script) /\ script[m].from = b
          /\ \/ st[a] = "idle" /\ x.kind = "header"
             \/ st[a] = "data" /\ x.kind = "byte" /\ hdr[a].packet = m
          /\ \/ /\ turn'[a] = turn[a] /\ st'[a] = "data" /\ hdr'[a].packet = m
                /\ st[a] = "idle" /\ script[m].type # "DEBUG" =>
                      chan'[b] = Append(chan[b], Ack)
             \/ /\ turn'[a] = turn[a] + 1 /\ st'[a] = "idle"
                /\ script[m].type # "DEBUG" => Demands(script, x)
          /\ chan'[b] = chan[b] \/ chan'[b] = Append(chan[b], Ack)
        BY <2>1 DEF ReadsOn
    <2>3. chan[b] \in Seq(Bytes \cup Headers)
        BY ComingIs
    <2> HIDE DEF x
    <2>4. ASSUME NEW k \in 1 .. Len(chan'[a]), chan'[a][k].kind = "byte"
          PROVE  LET n == chan'[a][k].packet IN
                 /\ script[n].len > 0
                 /\ script[n].type # "DEBUG" =>
                       st'[a] = "data" /\ hdr'[a].packet = n /\ n = turn[b]
        <3>1. PICK n : n = chan'[a][k].packet
            OBVIOUS
        <3>2. /\ script[n].len > 0
              /\ script[n].type # "DEBUG" =>
                    st[a] = "data" /\ hdr[a].packet = n /\ n = turn[b]
            BY <1>3, <2>4, <3>1 DEF Held
        <3>3. script[n].type # "DEBUG" => n = m /\ st'[a] = "data" /\ hdr'[a].packet = m
            <4>1. SUFFICES ASSUME script[n].type # "DEBUG", st'[a] = "idle" PROVE FALSE
                BY <2>2, <3>2
            <4>2. script[m].type # "DEBUG" /\ Demands(script, x)
                BY <2>2, <3>2, <4>1
            <4>3. chan'[a] = <<>> /\ Len(<<>>) = 0
                BY <2>2, <4>2, DemandTaken DEF x
            <4> QED
                BY <2>4, <4>3
        <3> QED
            BY <3>1, <3>2, <3>3
    <2>5. ASSUME st'[a] = "data", script[m].type # "DEBUG"
          PROVE  /\ m = turn[b] /\ Writer(b)
                 /\ \/ st[b] \in {"bytes", "blockAck", "finalAck"}
                    \/ st[b] = "headerAck" /\ AckComes(b)'
        <3>1. CASE st[a] = "data"
            <4>1. /\ m = turn[b] /\ Writer(b)
                  /\ \/ st[b] \in {"bytes", "blockAck", "finalAck"}
                     \/ st[b] = "headerAck" /\ AckComes(b)
                BY <1>1, <2>2, <2>5, <3>1 DEF Held
            <4>2. AckComes(b) => chan[a] = <<>>
                BY <1>1 DEF AnswerInv, AckIsDue
            <4> QED
                BY <2>2, <4>1, <4>2
        <3>2. CASE st[a] = "idle"
            <4>1. Demands(script, x)
                BY <2>2, <2>5, <3>2 DEF Demands
            <4>2. AckDue(b) /\ m = turn[b]
                BY <2>2, <4>1, DemandTaken DEF x
            <4>3. chan'[b] = Append(chan[b], Ack)
                BY <2>2, <2>5, <3>2
            <4>4. AckComes(b)'
                <5>1. /\ Len(chan[b]) + 1 \in 1 .. Len(chan'[b])
                      /\ chan'[b][Len(chan[b]) + 1] = Ack
                    BY <2>3, <4>3
                <5> QED
                    BY <5>1 DEF AckComes
            <4>5. st[b] # "hexAck"
                BY <4>2, HexIsDebug DEF AckDue, IInv, EndsOK, EndInv
            <4> QED
                BY <4>2, <4>4, <4>5 DEF AckDue, AwaitingAck
        <3> QED
            BY <2>2, <3>1, <3>2
    <2>6. /\ Writer(b)' <=> Writer(b)
          /\ turn'[b] = turn[b] /\ st'[b] = st[b]
        BY <1>1 DEF Aside, Writer, Engaged, Packet
    <2>7. st'[a] = "data" => hdr'[a].packet = m
        BY <2>2
    <2> QED
        BY <1>1, <2>4, <2>5, <2>6, <2>7 DEF Held
<1> QED
    BY <1>4, <1>5 DEF StepOf

(* The end that stands, and is sent contents only if it reads them.        *)
LEMMA HeldByOther ==
    ASSUME IInv, IInv', NEW a \in Ends, NEW b \in Ends, b = Other(a),
           WayInv(a), WayInv(b), AnswerInv(a), AnswerInv(b), Held(b), StepOf(a, b)
    PROVE  Held(b)'
<1>1. a # b /\ a = Other(b) /\ Aside(b) /\ script' = script /\ turn[a] \in Nat
    BY TwoEnds, StepGrows, WriterIs
<1> DEFINE reads == st[b] = "data" /\ script[hdr[b].packet].type # "DEBUG"
<1>2. reads =>
         /\ hdr[b].packet = turn[a] /\ Writer(a)
         /\ \/ st[a] \in {"bytes", "blockAck", "finalAck"}
            \/ st[a] = "headerAck" /\ AckComes(a)
    BY <1>1 DEF Held
<1>3. \A k \in 1 .. Len(chan[b]) : chan[b][k].kind = "byte" =>
         /\ script[chan[b][k].packet].len > 0
         /\ script[chan[b][k].packet].type # "DEBUG" =>
               reads /\ hdr[b].packet = chan[b][k].packet /\ chan[b][k].packet = turn[a]
    BY <1>1 DEF Held
<1>4. SUFFICES
         /\ reads =>
               /\ hdr[b].packet = turn'[a] /\ Writer(a)'
               /\ \/ st'[a] \in {"bytes", "blockAck", "finalAck"}
                  \/ st'[a] = "headerAck" /\ AckComes(a)'
         /\ \A k \in 1 .. Len(chan'[b]) : chan'[b][k].kind = "byte" =>
               /\ script[chan'[b][k].packet].len > 0
               /\ script[chan'[b][k].packet].type # "DEBUG" =>
                     /\ reads /\ hdr[b].packet = chan'[b][k].packet
                     /\ chan'[b][k].packet = turn'[a]
    BY <1>1 DEF Held, Aside
<1>5. reads => script[turn[a]].type # "DEBUG" /\ Packet(a).type # "DEBUG"
    BY <1>2 DEF Packet
<1>6. turn'[a] = turn[a] => (Writer(a)' <=> Writer(a))
    BY <1>1 DEF Writer, Engaged, Packet
<1> HIDE DEF reads
<1>7. CASE SendsOn(a, b)
    <2>1. /\ Writer(a) /\ st[a] \in {"idle", "bytes"}
          /\ \/ /\ turn'[a] = turn[a]
                /\ st[a] = "bytes" => st'[a] \in {"bytes", "blockAck", "finalAck"}
             \/ Packet(a).type = "DEBUG"
          /\ \A k \in 1 .. Len(chan[b]) : chan'[b][k] = chan[b][k]
          /\ \A k \in 1 .. Len(chan'[b]) :
                k \in 1 .. Len(chan[b]) \/ Sent(a, chan'[b][k], k = Len(chan'[b]))
        BY <1>7 DEF SendsOn
    <2>2. reads => turn'[a] = turn[a] /\ st'[a] \in {"bytes", "blockAck", "finalAck"}
        BY <1>2, <1>5, <2>1
    <2>3. ASSUME NEW k \in 1 .. Len(chan'[b]), chan'[b][k].kind = "byte"
          PROVE  /\ script[chan'[b][k].packet].len > 0
                 /\ script[chan'[b][k].packet].type # "DEBUG" =>
                       /\ reads /\ hdr[b].packet = chan'[b][k].packet
                       /\ chan'[b][k].packet = turn'[a]
        <3>1. CASE k \in 1 .. Len(chan[b])
            BY <1>3, <2>1, <2>2, <2>3, <3>1
        <3>2. CASE Sent(a, chan'[b][k], k = Len(chan'[b]))
            <4>1. chan'[b][k].packet = turn[a] /\ Packet(a).len > 0 /\ st[a] = "bytes"
                BY <2>3, <3>2 DEF Sent
            <4>2. Packet(a).type # "DEBUG" => st[b] = "data" /\ hdr[b].packet = turn[a]
                BY <1>1, <2>1, <4>1 DEF AnswerInv, Accepted
            <4>3. Packet(a).type # "DEBUG" => reads
                BY <4>2 DEF reads, Packet
            <4> QED
                BY <2>2, <4>1, <4>2, <4>3 DEF Packet
        <3> QED
            BY <2>1, <3>1, <3>2
    <2> QED
        BY <1>2, <1>6, <2>2, <2>3
<1>8. CASE GetsAnswer(a, b)
    <2>1. /\ AckDue(a) /\ chan[a] # <<>> /\ Head(chan[a]).kind = "header"
          /\ chan'[a] = Tail(chan[a]) /\ chan'[b] = chan[b]
          /\ \/ turn'[a] = turn[a] /\ st'[a] = "bytes"
             \/ /\ st[a] # "blockAck"
                /\ st[a] = "headerAck" /\ Head(chan[a]) = Ack => Packet(a).len = 0
          /\ chan[a][1] = Head(chan[a]) /\ 1 \in 1 .. Len(chan[a])
        BY <1>8, TailFacts DEF GetsAnswer
    <2>2. chan[b] = <<>> /\ Len(<<>>) = 0
        BY <2>1, Answered
    <2>3. ASSUME reads PROVE turn'[a] = turn[a] /\ st'[a] = "bytes"
        <3>1. hdr[b].packet = turn[a] /\ st[b] = "data"
            BY <1>2, <2>3 DEF reads
        <3>2. /\ hdr[b].len = Packet(a).len /\ Packet(a).len \in Nat
              /\ pos[b] < Packet(a).len /\ pos[b] \in Nat
            <4>1. hdr[b] = Unit(script, turn[a], 0)
                BY <3>1 DEF WayInv
            <4>2. hdr[b].len = Packet(a).len
                BY <4>1 DEF Unit, Header, Packet
            <4>3. pos[b] < hdr[b].len /\ pos[b] \in Nat
                BY <3>1 DEF IInv, EndsOK, EndInv
            <4>4. Packet(a).len \in Nat
                BY <2>1, WriterIs, PacketFacts DEF AckDue
            <4> QED
                BY <4>2, <4>3, <4>4
        <3>3. CASE st[a] = "headerAck"
            <4>1. AckComes(a)
                BY <1>2, <2>3, <3>3
            <4>2. PICK i \in 1 .. Len(chan[a]) : chan[a][i] = Ack
                BY <4>1 DEF AckComes
            <4>3. i <= 1
                BY <2>1, <4>2 DEF AnswerInv, AckIsDue
            <4>4. Head(chan[a]) = Ack
                BY <2>1, <4>2, <4>3
            <4> QED
                BY <2>1, <3>2, <3>3, <4>4
        <3>4. st[a] # "finalAck"
            <4>1. SUFFICES ASSUME st[a] = "finalAck" PROVE FALSE
                OBVIOUS
            <4>2. pos[a] = Packet(a).len
                BY <4>1 DEF IInv, EndsOK, EndInv
            <4>3. Len(Coming(b)) = 1 /\ Coming(b)[1] = Unit(script, turn[a], pos[b])
                <5>1. PICK units, n : units = chan[b] /\ Len(units) = 0 /\ n = hdr[b].packet
                    BY <2>2
                <5>2. Len(Coming(b)) = Len(units) + 1
                    BY <3>1, <5>1, ComingIs
                <5>3. Coming(b)[1] = Unit(script, n, pos[b]) /\ n = turn[a]
                    BY <3>1, <5>1, ComingIs
                <5> QED
                    BY <5>1, <5>2, <5>3
            <4>4. Coming(b)[1] = Unit(script, turn[a], pos[a])
                <5>1. PICK units : units = Coming(b) /\ Len(units) = 1
                    BY <4>3
                <5>2. WriterAtWork(a)
                    BY <4>1 DEF WriterAtWork, AwaitingAck
                <5>3. Len(units) > 0
                    BY <5>1
                <5>4. units[Len(units)] = Unit(script, turn[a], pos[a])
                    BY <1>1, <5>1, <5>2, <5>3 DEF WayInv
                <5> QED
                    BY <5>1, <5>4
            <4>5. pos[a] \in Nat
                BY WriterIs
            <4>6. pos[a] = pos[b]
                BY <1>1, <3>2, <4>3, <4>4, <4>5, SameUnit
            <4> QED
                BY <3>2, <4>2, <4>6
        <3>5. st[a] = "blockAck" => turn'[a] = turn[a] /\ st'[a] = "bytes"
            BY <2>1
        <3> QED
            BY <1>2, <2>1, <2>3, <3>3, <3>4, <3>5 DEF AckDue, AwaitingAck
    <2> QED
        BY <1>2, <1>6, <2>1, <2>2, <2>3
<1>9. CASE Skips(a, b)
    <2>1. /\ turn'[a] = turn[a] /\ st'[a] = st[a] /\ chan'[b] = chan[b]
          /\ chan[a] # <<>> /\ chan'[a] = Tail(chan[a]) /\ Head(chan[a]).kind = "byte"
        BY <1>9 DEF Skips
    <2>2. AckComes(a) => AckComes(a)'
        <3>1. SUFFICES ASSUME NEW i \in 1 .. Len(chan[a]), chan[a][i] = Ack
                       PROVE  AckComes(a)'
            BY DEF AckComes
        <3>2. /\ Len(chan[a]) \in Nat /\ Len(chan'[a]) = Len(chan[a]) - 1
              /\ chan[a][1] = Head(chan[a])
              /\ \A k \in 1 .. Len(chan'[a]) : chan'[a][k] = chan[a][k + 1]
            BY <2>1, TailFacts
        <3>3. i # 1
            BY <2>1, <3>1, <3>2, AckIs
        <3>4. i - 1 \in 1 .. Len(chan'[a]) /\ (i - 1) + 1 = i
            BY <3>2, <3>3
        <3>5. chan'[a][i - 1] = Ack
            BY <3>1, <3>2, <3>4
        <3> QED
            BY <3>4, <3>5 DEF AckComes
    <2> QED
        BY <1>2, <1>3, <1>6, <2>1, <2>2
<1>10. CASE \E m \in Nat : ReadsOn(a, b, m)
    <2>1. Reader(a) /\ (chan'[b] = chan[b] \/ chan'[b] = Append(chan[b], Ack))
        BY <1>10 DEF ReadsOn
    <2>2. ~reads
        BY <1>2, <2>1, WriterIs
    <2>3. ASSUME NEW k \in 1 .. Len(chan'[b]), chan'[b][k].kind = "byte"
          PROVE  k \in 1 .. Len(chan[b]) /\ chan'[b][k] = chan[b][k]
        <3>1. chan[b] \in Seq(Bytes \cup Headers) /\ chan'[b][k] # Ack
            BY <2>3, ComingIs, AckIs
        <3> QED
            BY <2>1, <3>1
    <2> QED
        BY <1>3, <2>2, <2>3
<1> QED
    BY <1>7, <1>8, <1>9, <1>10 DEF StepOf

(* A byte that is skipped, or a header that is read for contents, is after *)
(* contents that came without a request.                                   *)
LEMMA DebugLosesPlace ==
    ASSUME IInv, NEW a \in Ends, WayInv(a), AnswerInv(a), Held(a), Skip(a) \/ Garble(a)
    PROVE  \E n \in 1 .. Len(script) : script[n].type = "DEBUG" /\ script[n].len > 0
<1>1. PICK b \in Ends : b = Other(a)
    BY TwoEnds
<1>2. /\ chan[a] # <<>> /\ chan[a][1] = Head(chan[a]) /\ 1 \in 1 .. Len(chan[a])
      /\ chan[a] \in Seq(Bytes \cup Headers)
    BY ComingIs DEF Skip, Garble, Has
<1>3. CASE Skip(a)
    <2>1. Head(chan[a]).kind = "byte" /\ st[a] # "data"
        BY <1>3 DEF Skip, Has
    <2>2. PICK n : n = chan[a][1].packet /\ n \in 1 .. Len(script)
        BY <1>1, <1>2, <2>1, AckIs, WireUnits
    <2> QED
        BY <1>2, <2>1, <2>2 DEF Held
<1>4. CASE Garble(a)
    <2>1. st[a] = "data" /\ Head(chan[a]).kind = "header" /\ ~AckDue(a)
        BY <1>4 DEF Garble, Has, AckDue, AwaitingAck
    <2>2. IsHeader(chan[a][1])
        BY <1>2, <2>1 DEF AnswerInv, AckIsDue, AckComes, IsHeader
    <2>3. PICK m \in Nat : m = hdr[a].packet
        BY DEF IInv, EndsOK, Headers
    <2>4. PICK n \in Nat : n = chan[a][1].packet /\ n <= Begun(b)
        BY <1>1, <1>2, <2>2, WireUnits DEF IsHeader
    <2>5. /\ Len(Coming(a)) = Len(chan[a]) + 1 /\ Len(chan[a]) \in Nat
          /\ Coming(a)[1] = Unit(script, m, pos[a]) /\ Coming(a)[2] = chan[a][1]
          /\ pos[a] \in Nat
        <3>1. /\ Len(Coming(a)) = Len(chan[a]) + 1 /\ Len(chan[a]) \in Nat
              /\ Coming(a)[1] = Unit(script, m, pos[a]) /\ Coming(a)[1 + 1] = chan[a][1]
            BY <1>2, <2>1, <2>3, ComingIs
        <3> QED
            BY <3>1, WriterIs
    <2>6. hdr[a] = Unit(script, m, 0) /\ hdr[a].cmd # "ACK"
        BY <2>1, <2>3 DEF WayInv, IInv, EndsOK, EndInv
    <2>7. Unit(script, m, pos[a]).packet = m /\ Unit(script, m, pos[a]) # Ack
        <3>1. Unit(script, m, 0) = Header(m, script[m].type, script[m].len)
            BY DEF Unit
        <3>2. script[m].type # "ACK"
            BY <2>6, <3>1 DEF Header
        <3> QED
            BY <3>2 DEF Unit, Header, DataByte, Ack
    <2>8. m < n /\ m \in 1 .. Len(script)
        <3>1. 1 \in 1 .. Len(Coming(a)) /\ 2 \in 1 .. Len(Coming(a))
            BY <1>2, <2>5
        <3> QED
            BY <2>2, <2>4, <2>5, <2>7, <3>1 DEF WayInv, Orderly
    <2>9. Begun(b) \in Nat /\ Begun(b) <= turn[b] /\ turn[b] \in Nat
        BY BegunType, WriterIs
    <2>10. script[m].type = "DEBUG"
        <3>1. SUFFICES ASSUME script[m].type # "DEBUG" PROVE FALSE
            OBVIOUS
        <3>2. m = turn[b]
            BY <1>1, <2>1, <2>3, <3>1 DEF Held
        <3> QED
            BY <2>4, <2>8, <2>9, <3>2
    <2>11. script[m].len > 0
        <3>1. pos[a] < hdr[a].len /\ hdr[a].len = script[m].len /\ script[m].len \in Nat
            BY <2>1, <2>6, <2>8, PacketFacts DEF Unit, Header, IInv, EndsOK, EndInv
        <3> QED
            BY <2>5, <3>1
    <2> QED
        BY <2>8, <2>10, <2>11
<1> QED
    BY <1>3, <1>4

LEMMA UnresetSteps ==
    ASSUME Unreset, IInv, IInv', DisturbedInv, DisturbedInv', UnresetInv,
           [Next \/ Terminated]_vars, astray = {}, astray' = {}
    PROVE  UnresetInv'
<1>1. CASE UNCHANGED vars \/ Terminated
    BY <1>1 DEF Terminated, vars, UnresetInv, AnswerInv, NotAhead, SentOnly, AckIsDue, DemandIsLast,
       Accepted, TurnedFrom, RefusedInv, Unsent, AckDue, AckComes, Writer, Engaged, Packet,
       Begun
<1>2. CASE Next
    <2>1. PICK a \in Ends : EndStep(a) \/ Stray(a) \/ Reset(a) \/ Overrun(a)
        BY <1>2 DEF Next
    <2>2. EndStep(a)
        BY <2>1, NoReset DEF Stray
    <2>3. PICK b \in Ends : b = Other(a) /\ Ends = {a, b}
        BY TwoEnds
    <2>4. /\ WayInv(a) /\ WayInv(b) /\ WayInv(b)' /\ AnswerInv(a) /\ AnswerInv(b)
          /\ RefusedInv
        BY DEF DisturbedInv, UnresetInv
    <2>5. StepOf(a, b) /\ (refused' = refused \/ RejectLength(a))
        BY <2>2, <2>3, <2>4, EndStepIs
    <2>6. BegunGrows(a) /\ Begun(a)' \in Nat /\ script' = script
        BY <2>3, <2>5, StepGrows
    <2>7. AnswerInv(a)' /\ AnswerInv(b)'
        <3>1. CASE SendsOn(a, b)
            BY <2>3, <2>4, <2>6, <3>1, SendsKeep
        <3>2. CASE GetsAnswer(a, b)
            BY <2>3, <2>4, <2>6, <3>2, AnswersKeep
        <3>3. CASE Skips(a, b)
            BY <2>3, <2>4, <2>6, <3>3, SkipsKeep
        <3>4. CASE \E m \in Nat : ReadsOn(a, b, m)
            BY <2>3, <2>4, <2>6, <3>4, ReadsKeepReader, ReadsKeepWriter
        <3> QED
            BY <2>5, <3>1, <3>2, <3>3, <3>4 DEF StepOf
    <2>8. ASSUME NEW n \in refused'
          PROVE  /\ n \in 1 .. Len(script)
                 /\ script[n].type # "DEBUG" => Unsent(n, script[n].from)'
        <3>1. CASE n \in refused
            <4>1. /\ n \in 1 .. Len(script)
                  /\ script[n].type # "DEBUG" => Unsent(n, script[n].from)
                BY <2>4, <3>1 DEF RefusedInv
            <4>2. PICK w \in Ends : w = script[n].from
                BY <4>1, PacketFacts
            <4>3. Unsent(n, w) => Unsent(n, w)'
                BY <2>3, <2>4, <2>5, <4>1, <4>2, UnsentStill
            <4> QED
                BY <2>6, <4>1, <4>2, <4>3
        <3>2. CASE RejectLength(a) /\ n = Head(chan[a]).packet
            BY <2>3, <2>4, <3>2, RefusedUnsent
        <3> QED
            BY <2>5, <2>8, <3>1, <3>2 DEF RejectLength
    <2>9. RefusedInv'
        BY <2>6, <2>8 DEF RefusedInv
    <2> QED
        BY <2>3, <2>7, <2>9 DEF UnresetInv
<1> QED
    BY <1>1, <1>2 DEF vars

LEMMA InitUnreset == ASSUME Init PROVE UnresetInv
<1>1. ASSUME NEW e \in Ends PROVE AnswerInv(e)
    <2>1. /\ st[e] = "idle" /\ chan[e] = <<>> /\ turn[e] = 1 /\ Len(<<>>) = 0
          /\ Other(e) \in Ends /\ chan[Other(e)] = <<>>
        BY TwoEnds DEF Init
    <2>2. NotAhead(e)
        <3>1. ASSUME NEW n \in 1 .. Len(script) PROVE ~(n < turn[e])
            BY <2>1
        <3> QED
            BY <2>1, <3>1 DEF NotAhead
    <2> QED
        BY <2>1, <2>2 DEF AnswerInv, SentOnly, AckIsDue, AckComes, DemandIsLast, Accepted,
           TurnedFrom
<1>2. RefusedInv
    BY DEF Init, RefusedInv
<1> QED
    BY <1>1, <1>2 DEF UnresetInv

LEMMA InitHeld == ASSUME Init, NEW e \in Ends PROVE Held(e)
<1>1. st[e] = "idle" /\ chan[e] = <<>> /\ Len(<<>>) = 0
    BY DEF Init
<1> QED
    BY <1>1 DEF Held

LEMMA HeldSteps ==
    ASSUME Unreset, IInv, IInv', DisturbedInv, UnresetInv, \A e \in Ends : Held(e),
           [Next \/ Terminated]_vars, astray = {}, astray' = {}
    PROVE  \A e \in Ends : Held(e)'
<1>1. CASE UNCHANGED vars \/ Terminated
    BY <1>1 DEF Terminated, vars, Held, Writer, Engaged, Packet, AckComes
<1>2. CASE Next
    <2>1. PICK a \in Ends : EndStep(a)
        BY <1>2, NoReset DEF Next, Stray
    <2>2. PICK b \in Ends : b = Other(a) /\ Ends = {a, b}
        BY TwoEnds
    <2>3. /\ WayInv(a) /\ WayInv(b) /\ AnswerInv(a) /\ AnswerInv(b)
          /\ Held(a) /\ Held(b)
        BY DEF DisturbedInv, UnresetInv
    <2>4. StepOf(a, b)
        BY <2>1, <2>2, <2>3, EndStepIs
    <2>5. Held(a)' /\ Held(b)'
        BY <2>2, <2>3, <2>4, HeldByMover, HeldByOther
    <2> QED
        BY <2>2, <2>5
<1> QED
    BY <1>1, <1>2 DEF vars

(* What holds as long as no end has lost its place, and what it takes for  *)
(* that: contents of a DEBUG packet, and a packet refused.                 *)
PlacedInv ==
    /\ astray = {} => UnresetInv /\ \A e \in Ends : Held(e)
    /\ refused = {} => LinkInv
    /\ astray # {} =>
          \E n \in 1 .. Len(script) : script[n].type = "DEBUG" /\ script[n].len > 0

(* Places are not regained, and a refusal is remembered.                   *)
LEMMA RecordGrows ==
    ASSUME [Next \/ Terminated]_vars
    PROVE  /\ script' = script /\ astray \subseteq astray' /\ refused \subseteq refused'
           /\ \/ astray' = astray
              \/ \E e \in Ends : Skip(e) \/ Garble(e) \/ Reset(e) \/ Overrun(e)
<1>1. CASE UNCHANGED vars \/ Terminated
    BY <1>1 DEF Terminated, vars
<1>2. ASSUME NEW e \in Ends, EndStep(e) \/ Stray(e) \/ Reset(e) \/ Overrun(e)
      PROVE  /\ script' = script /\ astray \subseteq astray' /\ refused \subseteq refused'
             /\ astray' = astray \/ Skip(e) \/ Garble(e) \/ Reset(e) \/ Overrun(e)
    <2>1. CASE \/ WriteHeader(e) \/ WriteByte(e) \/ WriteHexByte(e)
               \/ HeaderAcked(e) \/ HexBlockAcked(e) \/ BlockAcked(e) \/ FinalAcked(e)
        BY <2>1 DEF WriteHeader, WriteByte, WriteHexByte, HeaderAcked, HexBlockAcked,
           BlockAcked, FinalAcked, StillWriting, WriteReturns
    <2>2. CASE ReadHeader(e) \/ ReadByte(e)
        BY <2>2 DEF ReadHeader, ReadByte, ReadReturns
    <2>3. CASE RejectLength(e) \/ Stray(e)
        BY <2>3 DEF RejectLength, Stray
    <2>4. CASE Skip(e) \/ Garble(e) \/ Reset(e) \/ Overrun(e)
        BY <2>4 DEF Skip, Garble, Reset, Overrun, GoesAstray
    <2> QED
        BY <1>2, <2>1, <2>2, <2>3, <2>4 DEF EndStep
<1> QED
    BY <1>1, <1>2 DEF Next

LEMMA PlacedSteps ==
    ASSUME Unreset, IInv, IInv', DisturbedInv, DisturbedInv', PlacedInv,
           [Next \/ Terminated]_vars
    PROVE  PlacedInv'
<1>1. /\ script' = script /\ astray \subseteq astray' /\ refused \subseteq refused'
      /\ astray' = astray \/ \E e \in Ends : Skip(e) \/ Garble(e)
    BY RecordGrows, NoReset
<1>2. ASSUME astray' = {} PROVE UnresetInv' /\ \A e \in Ends : Held(e)'
    <2>1. astray = {}
        BY <1>1, <1>2
    <2> QED
        BY <1>2, <2>1, UnresetSteps, HeldSteps DEF PlacedInv
<1>3. ASSUME refused' = {} PROVE LinkInv'
    <2>1. refused = {} /\ \A e \in Ends : ~RejectLength(e)
        BY <1>1, <1>3 DEF RejectLength
    <2> QED
        BY <2>1, LinkSteps DEF PlacedInv
<1>4. ASSUME astray' # {}
      PROVE  \E n \in 1 .. Len(script) : script[n].type = "DEBUG" /\ script[n].len > 0
    <2>1. CASE astray # {}
        BY <2>1 DEF PlacedInv
    <2>2. CASE astray = {}
        <3>1. PICK e \in Ends : Skip(e) \/ Garble(e)
            BY <1>1, <1>4, <2>2
        <3>2. WayInv(e) /\ AnswerInv(e) /\ Held(e)
            BY <2>2 DEF PlacedInv, DisturbedInv, UnresetInv
        <3> QED
            BY <3>1, <3>2, DebugLosesPlace
    <2> QED
        BY <2>1, <2>2
<1> QED
    BY <1>1, <1>2, <1>3, <1>4 DEF PlacedInv

(* On a link without resets the ends are in the phases of an undisturbed   *)
(* link until a packet is refused; and from then on, until an end loses    *)
(* its place, the ACK that comes to an end is the one it waits for.        *)
THEOREM Placed == ASSUME Unreset PROVE Spec => []PlacedInv
<1>1. Init => DisturbedInv /\ PlacedInv
    <2>1. Init => UnresetInv /\ LinkInv /\ astray = {} /\ \A e \in Ends : Held(e)
        BY InitUnreset, InitLink, InitHeld DEF Init
    <2> QED
        BY <2>1, InitDisturbed DEF PlacedInv
<1>2. IInv /\ IInv' /\ DisturbedInv /\ [Next \/ Terminated]_vars => DisturbedInv'
    BY DisturbedSteps
<1>3. /\ IInv /\ IInv' /\ DisturbedInv /\ DisturbedInv' /\ PlacedInv
      /\ [Next \/ Terminated]_vars
      => PlacedInv'
    BY PlacedSteps
<1> QED
    BY <1>1, <1>2, <1>3, Inductive, PTL DEF Spec

(* On a link without resets, a packet longer than its reader allows is     *)
(* refused by read_packet before write_packet sent any of its contents,    *)
(* and write_packet does not return MSG_OK for it, as long as both ends    *)
(* have their place in the stream.                                         *)
THEOREM RefusesUnsent == ASSUME Unreset PROVE Spec => []RefusedNotSent
<1>1. PlacedInv => RefusedNotSent
    BY DEF PlacedInv, UnresetInv, RefusedInv, Unsent, RefusedNotSent
<1> QED
    BY <1>1, Placed, PTL

(* On a link without resets an end loses its place only after a packet was *)
(* refused, and only where the conversation has a DEBUG packet whose       *)
(* contents come without a request.                                        *)
THEOREM PlaceKept == ASSUME Unreset PROVE Spec => []KeepsPlace
<1>1. PlacedInv => KeepsPlace
    BY DEF PlacedInv, LinkInv, KeepsPlace
<1> QED
    BY <1>1, Placed, PTL
=============================================================================
