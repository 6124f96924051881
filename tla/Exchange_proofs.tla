--------------------------- MODULE Exchange_proofs ---------------------------
(***************************************************************************)
(* Commands implements FileExchange: a step of an HSM writes, offers,      *)
(* receives, loses or damages files the way FileExchange has it, or        *)
(* changes nothing there; and so does one with which the two lose step.    *)
(***************************************************************************)
EXTENDS Commands_proofs

-----------------------------------------------------------------------------
(***************************************************************************)
(* Counting what is on the wire                                            *)
(***************************************************************************)
Occurrences(units, body) == {i \in 1 .. Len(units) : units[i] = body}

LEMMA CopiesNat ==
    ASSUME NEW S, NEW units \in Seq(S), NEW body
    PROVE  /\ IsFiniteSet(Occurrences(units, body))
           /\ Copies(units, body) = Cardinality(Occurrences(units, body))
           /\ Copies(units, body) \in Nat
           /\ units = <<>> => Copies(units, body) = 0
<1>1. Len(units) \in Nat /\ IsFiniteSet(1 .. Len(units))
    BY FS_Interval
<1>2. IsFiniteSet(Occurrences(units, body))
    BY <1>1, FS_Subset DEF Occurrences
<1>3. Cardinality(Occurrences(units, body)) \in Nat
    BY <1>2, FS_CardinalityType
<1>4. units = <<>> => Occurrences(units, body) = {}
    BY DEF Occurrences
<1> QED
    BY <1>2, <1>3, <1>4, FS_EmptySet DEF Copies, Occurrences

LEMMA CopiesAppend ==
    ASSUME NEW S, NEW units \in Seq(S), NEW u \in S, NEW body
    PROVE  Copies(Append(units, u), body)
              = Copies(units, body) + (IF u = body THEN 1 ELSE 0)
<1> DEFINE n == Len(units) + 1
           longer == Append(units, u)
<1>1. /\ longer \in Seq(S) /\ Len(longer) = n /\ longer[n] = u /\ n \notin 1 .. Len(units)
      /\ \A i \in 1 .. Len(units) : longer[i] = units[i]
      /\ 1 .. n = (1 .. Len(units)) \cup {n}
    OBVIOUS
<1> HIDE DEF longer
<1>0. /\ Copies(units, body) = Cardinality(Occurrences(units, body))
      /\ Copies(longer, body) = Cardinality(Occurrences(longer, body))
      /\ IsFiniteSet(Occurrences(units, body)) /\ Copies(units, body) \in Nat
    BY <1>1, CopiesNat
<1>2. CASE u = body
    <2>1. Occurrences(longer, body) = Occurrences(units, body) \cup {n}
        BY <1>1, <1>2 DEF Occurrences
    <2>2. n \notin Occurrences(units, body)
        BY <1>1 DEF Occurrences
    <2> QED
        BY <1>0, <1>2, <2>1, <2>2, FS_AddElement DEF longer
<1>3. CASE u # body
    <2>1. Occurrences(longer, body) = Occurrences(units, body)
        BY <1>1, <1>3 DEF Occurrences
    <2> QED
        BY <1>0, <1>3, <2>1 DEF longer
<1> QED
    BY <1>2, <1>3

LEMMA CopiesTail ==
    ASSUME NEW S, NEW units \in Seq(S), units # <<>>, NEW body
    PROVE  Copies(units, body)
              = Copies(Tail(units), body) + (IF Head(units) = body THEN 1 ELSE 0)
<1> DEFINE rest == Tail(units)
           later == Occurrences(units, body) \ {1}
           shift == [i \in Occurrences(rest, body) |-> i + 1]
<1>1. /\ rest \in Seq(S) /\ Len(rest) = Len(units) - 1 /\ Len(units) \in Nat \ {0}
      /\ \A i \in 1 .. Len(rest) : rest[i] = units[i + 1]
      /\ Head(units) = units[1]
    OBVIOUS
<1>2. shift \in Bijection(Occurrences(rest, body), later)
    <2>1. shift \in [Occurrences(rest, body) -> later]
        BY <1>1 DEF Occurrences
    <2>2. \A i, j \in Occurrences(rest, body) : shift[i] = shift[j] => i = j
        BY <1>1 DEF Occurrences
    <2>3. \A k \in later : \E i \in Occurrences(rest, body) : shift[i] = k
        <3> SUFFICES ASSUME NEW k \in later
                     PROVE  k - 1 \in Occurrences(rest, body) /\ shift[k - 1] = k
            OBVIOUS
        <3>1. k \in 2 .. Len(units) /\ units[k] = body
            BY <1>1 DEF Occurrences
        <3>2. k - 1 \in 1 .. Len(rest) /\ rest[k - 1] = body
            BY <1>1, <3>1
        <3> QED
            BY <3>1, <3>2 DEF Occurrences
    <2> QED
        BY <2>1, <2>2, <2>3 DEF Bijection, Injection, Surjection, IsInjective
<1> HIDE DEF rest
<1>3. /\ IsFiniteSet(Occurrences(rest, body)) /\ IsFiniteSet(Occurrences(units, body))
      /\ Copies(units, body) = Cardinality(Occurrences(units, body))
      /\ Copies(rest, body) = Cardinality(Occurrences(rest, body))
      /\ Copies(units, body) \in Nat /\ Copies(rest, body) \in Nat
    BY <1>1, CopiesNat
<1>4. Cardinality(later) = Cardinality(Occurrences(rest, body)) /\ IsFiniteSet(later)
    BY <1>2, <1>3, FS_Bijection DEF ExistsBijection
<1>5. CASE Head(units) = body
    <2>1. 1 \in Occurrences(units, body)
        BY <1>1, <1>5 DEF Occurrences
    <2> QED
        BY <1>3, <1>4, <1>5, <2>1, FS_RemoveElement DEF rest
<1>6. CASE Head(units) # body
    <2>1. later = Occurrences(units, body)
        BY <1>1, <1>6 DEF Occurrences
    <2> QED
        <3> HIDE DEF later, shift
        <3>1. Copies(units, body) = Copies(rest, body)
            BY <1>3, <1>4, <2>1
        <3> QED
            BY <1>3, <1>6, <3>1 DEF rest
<1> QED
    BY <1>5, <1>6

-----------------------------------------------------------------------------
(***************************************************************************)
(* The offers on their way to an HSM                                       *)
(***************************************************************************)
Held(h, f) == IF Asking(h) /\ got[h].body = FileBody(f) THEN 1 ELSE 0

Announced(h, f) ==
    IF pc[Other(h)] = "headerAck" /\ out[Other(h)] = FileBody(f) THEN 1 ELSE 0

LEMMA OffersParts ==
    ASSUME TypeOK, NEW h \in Hsms, NEW f \in Files
    PROVE  /\ OffersOf(h, f) = Copies(wire[h], FileBody(f)) + Held(h, f) + Announced(h, f)
           /\ Copies(wire[h], FileBody(f)) \in Nat
           /\ Held(h, f) \in {0, 1} /\ Announced(h, f) \in {0, 1}
           /\ OffersOf(h, f) \in Nat
<1>1. wire[h] \in Seq(Units)
    BY DEF TypeOK
<1>2. Copies(wire[h], FileBody(f)) \in Nat
    BY <1>1, CopiesNat
<1> QED
    BY <1>2 DEF OffersOf, Held, Announced

LEMMA OffersPartsNext ==
    ASSUME TypeOK', NEW h \in Hsms, NEW f \in Files
    PROVE  /\ OffersOf(h, f)' =
                 Copies(wire'[h], FileBody(f)) + Held(h, f)' + Announced(h, f)'
           /\ Copies(wire'[h], FileBody(f)) \in Nat
           /\ Held(h, f)' \in {0, 1} /\ Announced(h, f)' \in {0, 1}
           /\ OffersOf(h, f)' \in Nat
<1>1. wire'[h] \in Seq(Units)
    BY DEF TypeOK
<1>2. Copies(wire'[h], FileBody(f)) \in Nat
    BY <1>1, CopiesNat
<1> QED
    BY <1>2 DEF OffersOf, Held, Announced, Copies

(* A step in which the two keep their place on the wire.                   *)
Steady == ~astray /\ ~astray'

(* How taking and sending changes what is counted.                         *)
LEMMA WireCounts ==
    ASSUME TypeOK, Steady, NEW h \in Hsms, NEW f \in Files
    PROVE  LET g == Other(h)
               b == FileBody(f)
               taken == IF Head(wire[h]) = b THEN 1 ELSE 0
               Sent(u) == IF u = b THEN 1 ELSE 0
           IN
           /\ wire[h] # <<>> /\ Take(h) =>
                 /\ Copies(wire[h], b) = Copies(wire'[h], b) + taken
                 /\ wire'[g] = wire[g]
           /\ \A u \in Units :
                 /\ Send(h, u) =>
                       /\ wire'[h] = wire[h]
                       /\ Copies(wire'[g], b) = Copies(wire[g], b) + Sent(u)
                 /\ wire[h] # <<>> /\ TakeAndSend(h, u) =>
                       /\ Copies(wire[h], b) = Copies(wire'[h], b) + taken
                       /\ Copies(wire'[g], b) = Copies(wire[g], b) + Sent(u)
<1> DEFINE g == Other(h)
           b == FileBody(f)
<1>1. /\ wire \in [Hsms -> Seq(Units)] /\ g \in Hsms /\ g # h
      /\ wire[h] \in Seq(Units) /\ wire[g] \in Seq(Units)
    BY OtherHsm DEF TypeOK
<1>2. wire[h] # <<>> =>
         Copies(wire[h], b) = Copies(Tail(wire[h]), b) + (IF Head(wire[h]) = b THEN 1 ELSE 0)
    BY <1>1, CopiesTail
<1>3. \A u \in Units :
         Copies(Append(wire[g], u), b) = Copies(wire[g], b) + (IF u = b THEN 1 ELSE 0)
    BY <1>1, CopiesAppend
<1>4. Take(h) => wire'[h] = Tail(wire[h]) /\ wire'[g] = wire[g]
    BY <1>1 DEF Take, Steady
<1>5. \A u : Send(h, u) => wire'[h] = wire[h] /\ wire'[g] = Append(wire[g], u)
    BY <1>1 DEF Send, Steady
<1>6. \A u : TakeAndSend(h, u) => wire'[h] = Tail(wire[h]) /\ wire'[g] = Append(wire[g], u)
    BY <1>1 DEF TakeAndSend, Steady
<1> HIDE DEF b, g
<1>7. wire[h] # <<>> /\ Take(h) =>
         /\ Copies(wire[h], b) = Copies(wire'[h], b) + (IF Head(wire[h]) = b THEN 1 ELSE 0)
         /\ wire'[g] = wire[g]
    BY <1>2, <1>4
<1>8. \A u \in Units :
         Send(h, u) =>
            /\ wire'[h] = wire[h]
            /\ Copies(wire'[g], b) = Copies(wire[g], b) + (IF u = b THEN 1 ELSE 0)
    BY <1>3, <1>5
<1>9. \A u \in Units :
         wire[h] # <<>> /\ TakeAndSend(h, u) =>
            /\ Copies(wire[h], b) = Copies(wire'[h], b) + (IF Head(wire[h]) = b THEN 1 ELSE 0)
            /\ Copies(wire'[g], b) = Copies(wire[g], b) + (IF u = b THEN 1 ELSE 0)
    BY <1>2, <1>3, <1>6
<1> QED
    BY <1>7, <1>8, <1>9 DEF b, g

(* What a step of h leaves of the offers to h and to the other HSM.        *)
LEMMA OffersKept ==
    ASSUME TypeOK, TypeOK', NEW h \in Hsms, OthersKept(h), NEW f \in Files
    PROVE  LET g == Other(h)
               b == FileBody(f)
           IN
           /\ OffersOf(h, f) = Copies(wire[h], b) + Held(h, f) + Announced(h, f)
           /\ OffersOf(h, f)' = Copies(wire'[h], b) + Held(h, f)' + Announced(h, f)
           /\ OffersOf(g, f) = Copies(wire[g], b) + Held(g, f) + Announced(g, f)
           /\ OffersOf(g, f)' = Copies(wire'[g], b) + Held(g, f) + Announced(g, f)'
<1> DEFINE g == Other(h)
<1>1. g \in Hsms /\ g # h /\ Other(g) = h
    BY OtherHsm
<1>2. /\ pc'[g] = pc[g] /\ out'[g] = out[g] /\ got'[g] = got[g]
      /\ command'[g] = command[g]
    BY <1>1 DEF TypeOK, OthersKept
<1>3. Announced(h, f)' = Announced(h, f)
    BY <1>2 DEF Announced
<1>4. Held(g, f)' = Held(g, f)
    BY <1>2 DEF Held, Asking, Doing
<1> QED
    BY <1>1, <1>3, <1>4, OffersParts, OffersPartsNext

LEMMA OffersFewer ==
    ASSUME TypeOK, TypeOK', Steady, NEW h \in Hsms, OthersKept(h),
           \A f \in Files :
              LET g == Other(h)
                  b == FileBody(f)
              IN
              /\ Copies(wire'[h], b) + Held(h, f)' <= Copies(wire[h], b) + Held(h, f)
              /\ Copies(wire'[g], b) + Announced(g, f)'
                    <= Copies(wire[g], b) + Announced(g, f)
    PROVE  Exchange!Fewer
<1>1. ASSUME NEW e \in Hsms, NEW f \in Files
      PROVE  /\ OffersOf(e, f) \in Nat /\ OffersOf(e, f)' \in Nat
             /\ OffersOf(e, f)' <= OffersOf(e, f)
    <2>1. OffersOf(e, f) \in Nat /\ OffersOf(e, f)' \in Nat
        BY OffersParts, OffersPartsNext
    <2>2. OffersOf(h, f)' <= OffersOf(h, f)
        BY OffersKept, OffersParts, OffersPartsNext
    <2>3. OffersOf(Other(h), f)' <= OffersOf(Other(h), f)
        BY OtherHsm, OffersKept, OffersParts, OffersPartsNext
    <2> QED
        BY <2>1, <2>2, <2>3, OtherHsm
<1> QED
    BY <1>1 DEF Exchange!Fewer, Steady

(* Once the two are astray there are no offers.                            *)
LEMMA NoOffersAstray ==
    ASSUME TypeOK, TypeOK', astray'
    PROVE  Exchange!Fewer
<1>1. ASSUME NEW e \in Hsms, NEW f \in Files
      PROVE  OffersOf(e, f) \in Nat
    BY OffersParts
<1>2. astray' = TRUE
    BY DEF TypeOK
<1>3. (~astray)' \in {~astray, FALSE}
    <2>1. (~astray)' = FALSE
        BY <1>2
    <2> QED
        BY <2>1, Zenon
<1>4. [e \in Hsms |-> [f \in Files |-> IF astray THEN 0 ELSE OffersOf(e, f)]]'
         = [e \in Hsms |-> [f \in Files |-> 0]]
    BY <1>2
<1>5. \A e \in Hsms, f \in Files :
         0 <= [d \in Hsms |-> [k \in Files |-> IF astray THEN 0 ELSE OffersOf(d, k)]][e][f]
    BY <1>1
<1> QED
    BY <1>3, <1>4, <1>5 DEF Exchange!Fewer

LEMMA OffersSame ==
    ASSUME UNCHANGED astray,
           ~astray => \A e \in Hsms, f \in Files : OffersOf(e, f)' = OffersOf(e, f)
    PROVE  [e \in Hsms |-> [f \in Files |-> IF astray THEN 0 ELSE OffersOf(e, f)]]'
              = [e \in Hsms |-> [f \in Files |-> IF astray THEN 0 ELSE OffersOf(e, f)]]
OBVIOUS

-----------------------------------------------------------------------------
(***************************************************************************)
(* Each step is one of FileExchange, or changes nothing there              *)
(***************************************************************************)
LEMMA NotAFile ==
    ASSUME NEW f
    PROVE  /\ None # FileBody(f) /\ ErrorText # FileBody(f) /\ Ack # FileBody(f)
           /\ \A several : ListBody(several) # FileBody(f)
           /\ \A s, t : Request(s, t) # FileBody(f)
           /\ \A cmd, body : Header(cmd, body) # FileBody(f)
           /\ NoPacket.body # FileBody(f)
           /\ \A cmd : Packet(cmd, None).body # FileBody(f)
<1>1. FileBody(f).kind = "file"
    BY DEF FileBody
<1>2. /\ None.kind # "file" /\ ErrorText.kind # "file" /\ Ack.kind # "file"
      /\ \A several : ListBody(several).kind # "file"
      /\ \A s, t : Request(s, t).kind # "file"
      /\ \A cmd, body : Header(cmd, body).kind # "file"
      /\ NoPacket.body = None /\ \A cmd : Packet(cmd, None).body = None
    BY DEF None, ErrorText, Ack, ListBody, Request, Header, NoPacket, Packet
<1> QED
    BY <1>1, <1>2

(* Steps after which h holds no file, and announces none it did not before.*)
LEMMA QuietStep ==
    ASSUME IInv, IInv', Steady, NEW h \in Hsms, OthersKept(h), UNCHANGED store,
           \A f \in Files : Held(h, f)' = 0 /\ Announced(Other(h), f)' = 0,
           \/ UNCHANGED wire
           \/ wire[h] # <<>> /\ Take(h)
           \/ \E u \in Units : /\ \A f \in Files : u # FileBody(f)
                               /\ Send(h, u) \/ (wire[h] # <<>> /\ TakeAndSend(h, u))
    PROVE  Exchange!Withdraw
<1> DEFINE g == Other(h)
<1>1. TypeOK /\ TypeOK' /\ g \in Hsms
    BY OtherHsm DEF IInv
<1>2. ASSUME NEW f \in Files
      PROVE  /\ Copies(wire'[h], FileBody(f)) + Held(h, f)'
                   <= Copies(wire[h], FileBody(f)) + Held(h, f)
             /\ Copies(wire'[g], FileBody(f)) + Announced(g, f)'
                   <= Copies(wire[g], FileBody(f)) + Announced(g, f)
    <2> DEFINE b == FileBody(f)
    <2>1. Held(h, f)' = 0 /\ Announced(g, f)' = 0
        OBVIOUS
    <2>2. /\ Copies(wire[h], b) \in Nat /\ Copies(wire[g], b) \in Nat
          /\ Copies(wire'[h], b) \in Nat /\ Copies(wire'[g], b) \in Nat
          /\ Held(h, f) \in {0, 1} /\ Announced(g, f) \in {0, 1}
        BY <1>1, OffersParts, OffersPartsNext
    <2>3. Copies(wire'[h], b) <= Copies(wire[h], b) /\ Copies(wire'[g], b) <= Copies(wire[g], b)
        <3>1. CASE UNCHANGED wire
            BY <2>2, <3>1
        <3>2. CASE wire[h] # <<>> /\ Take(h)
            BY <1>1, <2>2, <3>2, WireCounts
        <3>3. ASSUME NEW u \in Units, u # FileBody(f),
                     Send(h, u) \/ (wire[h] # <<>> /\ TakeAndSend(h, u))
              PROVE  /\ Copies(wire'[h], b) <= Copies(wire[h], b)
                     /\ Copies(wire'[g], b) <= Copies(wire[g], b)
            BY <1>1, <2>2, <3>3, WireCounts
        <3> QED
            BY <3>1, <3>2, <3>3
    <2> HIDE DEF b, g
    <2>4. /\ Copies(wire'[h], b) + Held(h, f)' <= Copies(wire[h], b) + Held(h, f)
          /\ Copies(wire'[g], b) + Announced(g, f)' <= Copies(wire[g], b) + Announced(g, f)
        BY <2>1, <2>2, <2>3
    <2> QED
        BY <2>4 DEF b, g
<1>3. Exchange!Fewer
    BY <1>1, <1>2, OffersFewer
<1> QED
    BY <1>3 DEF Exchange!Withdraw

(* ... because the command is over, ...                                    *)
LEMMA RespondQuiet ==
    ASSUME IInv, NEW h \in Hsms, NEW type, Respond(h, type), UNCHANGED store
    PROVE  /\ OthersKept(h)
           /\ \A f \in Files : Held(h, f)' = 0 /\ Announced(Other(h), f)' = 0
<1>1. TypeOK
    BY DEF IInv
<1>2. OthersKept(h) /\ pc'[h] = "main" /\ got'[h] = NoPacket
    BY <1>1, RespondOwn DEF TypeOK, OthersKept
<1> QED
    BY <1>2, OtherHsm, NotAFile DEF Held, Announced

(* ... or because it goes on without a file.                               *)
LEMMA GotoQuiet ==
    ASSUME IInv, NEW h \in Hsms, NEW place, NEW body, NEW packet,
           Goto(h, place, body, packet), UNCHANGED store,
           \A f \in Files : packet.body # FileBody(f),
           place # "headerAck" \/ \A f \in Files : body # FileBody(f)
    PROVE  /\ OthersKept(h)
           /\ \A f \in Files : Held(h, f)' = 0 /\ Announced(Other(h), f)' = 0
<1>1. OthersKept(h) /\ pc'[h] = place /\ out'[h] = body /\ got'[h] = packet
    BY GotoOwn DEF IInv
<1> QED
    BY <1>1, OtherHsm DEF Held, Announced

LEMMA WrittenQuiet ==
    ASSUME IInv, NEW h \in Hsms, Written(h), UNCHANGED store
    PROVE  /\ OthersKept(h)
           /\ \A f \in Files : Held(h, f)' = 0 /\ Announced(Other(h), f)' = 0
<1>1. CASE Goto(h, "readHeader", None, NoPacket)
    BY <1>1, GotoQuiet, NotAFile
<1>2. CASE Respond(h, "LISTEN")
    BY <1>2, RespondQuiet
<1> QED
    BY <1>1, <1>2 DEF Written

LEMMA AloneWithdraws ==
    ASSUME IInv, IInv', Steady, NEW h \in Hsms,
           \/ Invalid(h) \/ WrongPin(h) \/ List(h) \/ Read(h)
           \/ Mismatch(h) \/ Interrogated(h) \/ AnswerNothing(h)
    PROVE  Exchange!Withdraw
<1>1. UNCHANGED <<store, wire>> /\ \E type \in Replies : Respond(h, type)
    BY DEF Invalid, WrongPin, List, Read, Mismatch, Interrogated, AnswerNothing,
           Replies
<1> QED
    BY <1>1, RespondQuiet, QuietStep

LEMMA HostCommandWithdraws ==
    ASSUME IInv, IInv', Steady, NEW h \in Hsms, NEW c \in HostCommands, HostCommand(h, c)
    PROVE  Exchange!Withdraw
<1>1. TypeOK
    BY DEF IInv
<1>2. OthersKept(h)
    BY <1>1 DEF TypeOK, OthersKept, HostCommand
<1>3. pc'[h] = "dispatch" /\ got'[h] = NoPacket /\ UNCHANGED <<store, wire>>
    BY <1>1 DEF TypeOK, HostCommand
<1>4. \A f \in Files : Held(h, f)' = 0 /\ Announced(Other(h), f)' = 0
    BY <1>3, OtherHsm, NotAFile DEF Held, Announced
<1> QED
    BY <1>2, <1>3, <1>4, QuietStep

LEMMA AskWithdraws ==
    ASSUME IInv, IInv', Steady, NEW h \in Hsms, Ask(h)
    PROVE  Exchange!Withdraw
<1> DEFINE op == command[h].op
           body == IF Doing(h, "RECEIVE")
                   THEN Request(command[h].read_slot, global_permissions[h])
                   ELSE None
<1>1. /\ op \in {"RECEIVE", "INTERROGATE"}
      /\ Send(h, Header(op, body)) /\ Goto(h, "headerAck", body, NoPacket)
      /\ UNCHANGED <<store, dirty>>
    BY DEF Ask, Dispatch, Doing, Asking, WritePacket
<1>2. body \in Bodies
    BY CommandFacts, BodiesSent DEF IInv, TypeOK, Doing
<1>3. Header(op, body) \in Units /\ \A f \in Files : Header(op, body) # FileBody(f)
    BY <1>1, <1>2, HeaderIsUnit, NotAFile DEF Opcodes
<1>4. \A f \in Files : body # FileBody(f) /\ NoPacket.body # FileBody(f)
    BY NotAFile
<1> HIDE DEF body, op
<1> QED
    BY <1>1, <1>3, <1>4, GotoQuiet, QuietStep

LEMMA ListenWithdraws ==
    ASSUME IInv, IInv', Steady, NEW h \in Hsms, Listen(h)
    PROVE  Exchange!Withdraw
BY GotoQuiet, QuietStep, NotAFile DEF Listen

(* A file that was announced is sent, or is not.                           *)
LEMMA HeaderAckedWithdraws ==
    ASSUME IInv, IInv', Steady, NEW h \in Hsms, HeaderAcked(h)
    PROVE  Exchange!Withdraw
<1> DEFINE g == Other(h)
<1>1. /\ TypeOK /\ TypeOK' /\ g \in Hsms /\ Other(g) = h /\ wire[h] # <<>>
      /\ pc[h] = "headerAck" /\ UNCHANGED store
    BY OtherHsm, ReadsHead DEF IInv, HeaderAcked, Headers, Steady
<1>2. CASE TakeAndSend(h, out[h]) /\ Goto(h, "bodyAck", out[h], NoPacket)
    <2>1. /\ OthersKept(h) /\ pc'[h] = "bodyAck" /\ got'[h] = NoPacket
          /\ out[h] \in Units
        BY <1>1, <1>2, GotoOwn DEF TypeOK, Units
    <2>2. ASSUME NEW f \in Files
          PROVE  /\ Copies(wire'[h], FileBody(f)) + Held(h, f)'
                       <= Copies(wire[h], FileBody(f)) + Held(h, f)
                 /\ Copies(wire'[g], FileBody(f)) + Announced(g, f)'
                       <= Copies(wire[g], FileBody(f)) + Announced(g, f)
        <3>1. Held(h, f)' = 0 /\ Announced(g, f)' = 0
            BY <1>1, <2>1, NotAFile DEF Held, Announced
        <3>2. Announced(g, f) = IF out[h] = FileBody(f) THEN 1 ELSE 0
            BY <1>1 DEF Announced
        <3>3. /\ Copies(wire'[g], FileBody(f)) = Copies(wire[g], FileBody(f))
                     + (IF out[h] = FileBody(f) THEN 1 ELSE 0)
              /\ Copies(wire[h], FileBody(f)) = Copies(wire'[h], FileBody(f))
                     + (IF Head(wire[h]) = FileBody(f) THEN 1 ELSE 0)
            BY <1>1, <1>2, <2>1, WireCounts
        <3>4. /\ Copies(wire[h], FileBody(f)) \in Nat /\ Copies(wire[g], FileBody(f)) \in Nat
              /\ Copies(wire'[h], FileBody(f)) \in Nat /\ Held(h, f) \in {0, 1}
            BY <1>1, OffersParts, OffersPartsNext
        <3> HIDE DEF g
        <3> QED
            BY <3>1, <3>2, <3>3, <3>4
    <2>3. Exchange!Fewer
        BY <1>1, <2>1, <2>2, OffersFewer
    <2> QED
        BY <1>1, <2>3 DEF Exchange!Withdraw
<1>3. CASE Take(h) /\ Written(h)
    BY <1>1, <1>3, WrittenQuiet, QuietStep
<1> QED
    BY <1>2, <1>3 DEF HeaderAcked

LEMMA BodyAckedWithdraws ==
    ASSUME IInv, IInv', Steady, NEW h \in Hsms, BodyAcked(h)
    PROVE  Exchange!Withdraw
<1>1. wire[h] # <<>> /\ Take(h) /\ Written(h) /\ UNCHANGED store
    BY ReadsHead DEF IInv, BodyAcked, Headers, Steady
<1> QED
    BY <1>1, WrittenQuiet, QuietStep

LEMMA ReadHeaderWithdraws ==
    ASSUME IInv, IInv', Steady, NEW h \in Hsms, ReadHeader(h)
    PROVE  Exchange!Withdraw
<1>1. UNCHANGED store /\ wire[h] # <<>>
    BY ReadsHead DEF IInv, ReadHeader, Headers, Steady
<1>2. Take(h) \/ TakeAndSend(h, Ack)
    BY DEF ReadHeader
<1>3. PICK header \in Headers(h), place \in {"got", "readBody"} :
         Goto(h, place, None, Packet(header.cmd, None))
    BY DEF ReadHeader
<1>4. \A f \in Files : Packet(header.cmd, None).body # FileBody(f)
    BY NotAFile
<1>5. /\ OthersKept(h)
      /\ \A f \in Files : Held(h, f)' = 0 /\ Announced(Other(h), f)' = 0
    <2>1. place # "headerAck"
        OBVIOUS
    <2> QED
        BY <1>1, <1>3, <1>4, <2>1, GotoQuiet
<1>6. Ack \in Units /\ \A f \in Files : Ack # FileBody(f)
    BY AckIsUnit, NotAFile
<1>7. CASE Take(h)
    BY <1>1, <1>5, <1>7, QuietStep
<1>8. CASE TakeAndSend(h, Ack)
    BY <1>1, <1>5, <1>6, <1>8, QuietStep
<1> QED
    BY <1>2, <1>7, <1>8

LEMMA ReadBodyWithdraws ==
    ASSUME IInv, IInv', Steady, NEW h \in Hsms, ReadBody(h)
    PROVE  Exchange!Withdraw
<1> DEFINE g == Other(h)
           body == Head(wire[h])
<1>1. /\ TypeOK /\ TypeOK' /\ g \in Hsms /\ Other(g) = h /\ wire[h] # <<>>
      /\ UNCHANGED store /\ TakeAndSend(h, Ack)
      /\ Goto(h, "got", None, Packet(got[h].cmd, body))
    BY OtherHsm, ReadsHead DEF IInv, ReadBody, Contents, Steady
<1>2. /\ OthersKept(h) /\ pc'[h] = "got" /\ got'[h].body = body
    BY <1>1, GotoOwn DEF Packet
<1>3. ASSUME NEW f \in Files
      PROVE  /\ Copies(wire'[h], FileBody(f)) + Held(h, f)'
                   <= Copies(wire[h], FileBody(f)) + Held(h, f)
             /\ Copies(wire'[g], FileBody(f)) + Announced(g, f)'
                   <= Copies(wire[g], FileBody(f)) + Announced(g, f)
    <2>1. /\ Held(h, f)' \in {0, 1} /\ (Held(h, f)' = 1 => body = FileBody(f))
          /\ Announced(g, f)' = 0
        BY <1>1, <1>2 DEF Held, Announced
    <2>2. /\ Copies(wire'[g], FileBody(f)) = Copies(wire[g], FileBody(f))
          /\ Copies(wire[h], FileBody(f)) = Copies(wire'[h], FileBody(f))
                 + (IF body = FileBody(f) THEN 1 ELSE 0)
        <3>1. Copies(wire[g], FileBody(f)) \in Nat
            BY <1>1, OffersParts
        <3> HIDE DEF g
        <3> QED
            BY <1>1, <3>1, WireCounts, AckIsUnit, NotAFile DEF g
    <2>3. /\ Copies(wire[h], FileBody(f)) \in Nat /\ Copies(wire[g], FileBody(f)) \in Nat
          /\ Copies(wire'[h], FileBody(f)) \in Nat /\ Held(h, f) \in {0, 1}
          /\ Announced(g, f) \in {0, 1}
        BY <1>1, OffersParts, OffersPartsNext
    <2> HIDE DEF g, body
    <2> QED
        BY <2>1, <2>2, <2>3
<1>4. Exchange!Fewer
    BY <1>1, <1>2, <1>3, OffersFewer
<1> QED
    BY <1>1, <1>4 DEF Exchange!Withdraw

LEMMA AnswerWithoutFile ==
    ASSUME IInv, IInv', Steady, NEW h \in Hsms, NEW cmd \in Opcodes, NEW body \in Bodies,
           \A f \in Files : body # FileBody(f),
           WritePacket(h, cmd, body), UNCHANGED store
    PROVE  Exchange!Withdraw
<1>1. /\ Send(h, Header(cmd, body)) /\ Goto(h, "headerAck", body, NoPacket)
      /\ Header(cmd, body) \in Units
    BY HeaderIsUnit DEF WritePacket
<1> QED
    BY <1>1, GotoQuiet, QuietStep, NotAFile

LEMMA AnswerInterrogateWithdraws ==
    ASSUME IInv, IInv', Steady, NEW h \in Hsms, AnswerInterrogate(h)
    PROVE  Exchange!Withdraw
<1>1. PICK body \in Lists(h) : WritePacket(h, "INTERROGATE", body)
    BY DEF AnswerInterrogate
<1>2. body \in Bodies /\ (\A f \in Files : body # FileBody(f)) /\ UNCHANGED store
    BY BodiesSent, NotAFile DEF Lists, AnswerInterrogate
<1> QED
    BY <1>1, <1>2, AnswerWithoutFile DEF Opcodes

(* A unit that is lost.                                                    *)
LEMMA LostWithdraws ==
    ASSUME IInv, IInv', Steady, NEW h \in Hsms, Skip(h) \/ Overrun(h)
    PROVE  Exchange!Withdraw
<1> DEFINE g == Other(h)
<1>1. /\ TypeOK /\ TypeOK' /\ g \in Hsms /\ Other(g) = h /\ wire[h] # <<>> /\ Take(h)
      /\ UNCHANGED <<store, pc, command, out, got, reply>>
    BY OtherHsm, ReadsHead DEF IInv, Skip, Overrun, Contents, GoAstray, Steady
<1>2. OthersKept(h)
    BY <1>1 DEF TypeOK, OthersKept
<1>3. ASSUME NEW f \in Files
      PROVE  /\ Copies(wire'[h], FileBody(f)) + Held(h, f)'
                   <= Copies(wire[h], FileBody(f)) + Held(h, f)
             /\ Copies(wire'[g], FileBody(f)) + Announced(g, f)'
                   <= Copies(wire[g], FileBody(f)) + Announced(g, f)
    <2>1. Held(h, f)' = Held(h, f) /\ Announced(g, f)' = Announced(g, f)
        BY <1>1 DEF Held, Announced, Asking, Doing
    <2>2. /\ Copies(wire'[g], FileBody(f)) = Copies(wire[g], FileBody(f))
          /\ Copies(wire[h], FileBody(f)) = Copies(wire'[h], FileBody(f))
                 + (IF Head(wire[h]) = FileBody(f) THEN 1 ELSE 0)
        BY <1>1, WireCounts
    <2>3. /\ Copies(wire[h], FileBody(f)) \in Nat /\ Copies(wire[g], FileBody(f)) \in Nat
          /\ Copies(wire'[h], FileBody(f)) \in Nat /\ Held(h, f) \in {0, 1}
          /\ Announced(g, f) \in {0, 1}
        BY <1>1, OffersParts, OffersPartsNext
    <2> HIDE DEF g
    <2> QED
        BY <2>1, <2>2, <2>3
<1>4. Exchange!Fewer
    BY <1>1, <1>2, <1>3, OffersFewer
<1> QED
    BY <1>1, <1>4 DEF Exchange!Withdraw

(* A listener that grants offers a file of its own.                        *)
LEMMA OfferStep ==
    ASSUME IInv, IInv', Steady, NEW h \in Hsms, NEW s \in Slots, store[h][s] \in Files,
           MayReceive(Other(h), store[h][s]), pc[h] = "got", Doing(h, "LISTEN"),
           WritePacket(h, "RECEIVE", FileBody(store[h][s])), UNCHANGED store
    PROVE  Exchange!Offer(Other(h), s)
<1> DEFINE g == Other(h)
           file == store[h][s]
           header == Header("RECEIVE", FileBody(file))
<1>1. /\ TypeOK /\ TypeOK' /\ g \in Hsms /\ g # h /\ Other(g) = h
      /\ \A e \in Hsms : e = h \/ e = g
    BY OtherHsm DEF IInv
<1>2. Send(h, header) /\ Goto(h, "headerAck", FileBody(file), NoPacket)
    BY DEF WritePacket
<1>3. header \in Units /\ \A f \in Files : header # FileBody(f)
    BY HeaderIsUnit, BodiesSent, NotAFile DEF Opcodes
<1>4. /\ OthersKept(h) /\ pc'[h] = "headerAck" /\ out'[h] = FileBody(file)
      /\ got'[h] = NoPacket /\ ~Asking(h)
    BY <1>1, <1>2, GotoOwn DEF Asking, Doing
<1>5. ASSUME NEW f \in Files
      PROVE  /\ OffersOf(h, f)' = OffersOf(h, f)
             /\ OffersOf(g, f)' = IF f = file THEN OffersOf(g, f) + 1 ELSE OffersOf(g, f)
    <2>1. Held(h, f) = 0 /\ Held(h, f)' = 0
        BY <1>4, NotAFile DEF Held
    <2>2. Announced(g, f) = 0 /\ Announced(g, f)' = IF f = file THEN 1 ELSE 0
        BY <1>1, <1>4 DEF Announced, FileBody
    <2>3. /\ Copies(wire'[h], FileBody(f)) = Copies(wire[h], FileBody(f))
          /\ Copies(wire'[g], FileBody(f)) = Copies(wire[g], FileBody(f))
        <3>1. Copies(wire[g], FileBody(f)) \in Nat
            BY <1>1, OffersParts
        <3> HIDE DEF g, header
        <3> QED
            BY <1>1, <1>2, <1>3, <3>1, WireCounts DEF g
    <2>4. /\ Copies(wire[h], FileBody(f)) \in Nat /\ Copies(wire[g], FileBody(f)) \in Nat
          /\ Announced(h, f) \in {0, 1} /\ Held(g, f) \in {0, 1}
        BY <1>1, OffersParts
    <2>5. /\ OffersOf(h, f) = Copies(wire[h], FileBody(f)) + Held(h, f) + Announced(h, f)
          /\ OffersOf(h, f)' = Copies(wire'[h], FileBody(f)) + Held(h, f)' + Announced(h, f)
          /\ OffersOf(g, f) = Copies(wire[g], FileBody(f)) + Held(g, f) + Announced(g, f)
          /\ OffersOf(g, f)' = Copies(wire'[g], FileBody(f)) + Held(g, f) + Announced(g, f)'
        BY <1>1, <1>4, OffersKept
    <2> HIDE DEF g, file
    <2> QED
        BY <2>1, <2>2, <2>3, <2>4, <2>5
<1> HIDE DEF g
<1>6. [e \in Hsms |-> [f \in Files |-> IF astray THEN 0 ELSE OffersOf(e, f)]]'
         = [[e \in Hsms |-> [f \in Files |-> IF astray THEN 0 ELSE OffersOf(e, f)]]
               EXCEPT ![g][file] = @ + 1]
    <2>1. [e \in Hsms |-> [f \in Files |-> OffersOf(e, f)']]
             = [[e \in Hsms |-> [f \in Files |-> OffersOf(e, f)]]
                   EXCEPT ![g][file] = @ + 1]
        BY <1>1, <1>5
    <2>2. [e \in Hsms |-> [f \in Files |-> IF astray THEN 0 ELSE OffersOf(e, f)]]
             = [e \in Hsms |-> [f \in Files |-> OffersOf(e, f)]]
        BY DEF Steady
    <2>3. [e \in Hsms |-> [f \in Files |-> IF astray THEN 0 ELSE OffersOf(e, f)]]'
             = [e \in Hsms |-> [f \in Files |-> OffersOf(e, f)']]
        BY DEF Steady
    <2> QED
        BY <2>1, <2>2, <2>3
<1>7. (~astray)' = ~astray /\ ~astray
    BY DEF Steady
<1> QED
    BY <1>1, <1>6, <1>7 DEF Exchange!Offer, g

LEMMA AnswerReceiveOffers ==
    ASSUME IInv, IInv', Steady, NEW h \in Hsms, AnswerReceive(h)
    PROVE  Exchange!Withdraw \/ \E s \in Slots : Exchange!Offer(Other(h), s)
<1>1. CASE WritePacket(h, "ERROR", ErrorText)
    BY <1>1, AnswerReceiveEffect, AnswerWithoutFile, BodiesSent, NotAFile DEF Opcodes
<1>2. CASE WritePacket(h, "RECEIVE", FileBody(Damaged))
    <2>1. FileBody(Damaged) \in Bodies /\ \A f \in Files : FileBody(Damaged) # FileBody(f)
        BY BodiesSent, CommandsAssumption DEF FileBody, CommandsAssumption
    <2> QED
        BY <1>2, <2>1, AnswerReceiveEffect, AnswerWithoutFile DEF Opcodes
<1>3. ASSUME NEW s \in Slots, store[h][s] \in Files,
             astray \/ MayReceive(Other(h), store[h][s]),
             WritePacket(h, "RECEIVE", FileBody(store[h][s]))
      PROVE  Exchange!Offer(Other(h), s)
    BY <1>3, AnswerReceiveEffect, OfferStep DEF Steady
<1> QED
    BY <1>1, <1>2, <1>3, AnswerReceiveEffect

(* write_file begins: the slot is damaged, and what is on its way remains. *)
LEMMA BeginFails ==
    ASSUME IInv, IInv', NEW h \in Hsms, NEW slot \in Slots, NEW body,
           pc[h] \in {"dispatch", "got"}, WriteFile(h, slot, body),
           UNCHANGED <<wire>>, Asking(h) => got[h].body = body
    PROVE  Exchange!Fail(h, slot)
<1> DEFINE g == Other(h)
<1>1. /\ TypeOK /\ TypeOK' /\ g \in Hsms /\ Other(g) = h
      /\ \A e \in Hsms : e = h \/ e = g
    BY OtherHsm DEF IInv
<1>2. /\ OthersKept(h) /\ pc'[h] = "writing" /\ command'[h] = command[h]
      /\ got'[h].body = body /\ astray' = astray
    BY <1>1 DEF TypeOK, WriteFile, Goto, OthersKept, Packet
<1>3. ASSUME NEW f \in Files
      PROVE  OffersOf(h, f)' = OffersOf(h, f) /\ OffersOf(g, f)' = OffersOf(g, f)
    <2>1. Held(h, f)' = Held(h, f)
        BY <1>2 DEF Held, Asking, Doing
    <2>2. Announced(g, f)' = Announced(g, f)
        BY <1>1, <1>2 DEF Announced
    <2> QED
        BY <1>1, <1>2, <2>1, <2>2, OffersKept
<1> HIDE DEF g
<1> QED
    BY <1>1, <1>2, <1>3, OffersSame DEF Exchange!Fail, Exchange!Keep, WriteFile

(* The response to the host gives up what h has read.                      *)
LEMMA RespondWithdraws ==
    ASSUME IInv, IInv', NEW h \in Hsms, NEW type, Respond(h, type),
           UNCHANGED <<store, wire>>
    PROVE  Exchange!Withdraw
<1>1. TypeOK /\ TypeOK' /\ astray' = astray
    BY DEF IInv, Respond
<1>2. CASE astray'
    BY <1>1, <1>2, NoOffersAstray DEF Exchange!Withdraw
<1>3. CASE ~astray'
    BY <1>1, <1>3, RespondQuiet, QuietStep DEF Steady
<1> QED
    BY <1>2, <1>3

LEMMA WriteFails ==
    ASSUME IInv, IInv', NEW h \in Hsms, Write(h)
    PROVE  Exchange!Withdraw \/ \E s \in Slots : Exchange!Fail(h, s)
<1>1. command[h].op = "WRITE" /\ ~Asking(h) /\ UNCHANGED wire /\ pc[h] = "dispatch"
    BY DEF Write, Dispatch, Doing, Asking
<1>2. CASE /\ command[h].slot \in Slots
           /\ WriteFile(h, command[h].slot, FileBody(command[h].file))
    BY <1>1, <1>2, BeginFails
<1>3. CASE Respond(h, "ERROR") /\ UNCHANGED store
    BY <1>1, <1>3, RespondWithdraws
<1> QED
    BY <1>2, <1>3 DEF Write

LEMMA ReceivedFails ==
    ASSUME IInv, IInv', NEW h \in Hsms, Received(h)
    PROVE  \E s \in Slots : Exchange!Fail(h, s)
BY BeginFails DEF Received

(* A file that is stored was written, or is one of the offers to h.        *)
LEMMA StoredReceives ==
    ASSUME IInv, IInv', NEW h \in Hsms, Stored(h)
    PROVE  \/ Exchange!Withdraw
           \/ \E s \in Slots, f \in Files : Exchange!Write(h, s, f) \/ Exchange!Receive(h, s, f)
<1> DEFINE g == Other(h)
           s == Target(h)
           file == got[h].body.file
<1>1. /\ TypeOK /\ TypeOK' /\ g \in Hsms /\ g # h /\ Other(g) = h
      /\ \A e \in Hsms : e = h \/ e = g
    BY OtherHsm DEF IInv
<1>2. /\ s \in Slots /\ command[h].op \in {"WRITE", "RECEIVE"} /\ UNCHANGED wire
      /\ pc[h] = "writing"
    BY StoredEffect DEF Stored
<1>3. PICK type \in Replies : Respond(h, type)
    BY StoredEffect
<1>4. CASE UNCHANGED store
    BY <1>2, <1>3, <1>4, RespondWithdraws
<1>5. CASE /\ store' = [store EXCEPT ![h] = [@ EXCEPT ![s] = file]]
           /\ got[h].body = FileBody(file) /\ file = Damaged
    <2>1. store[h][s] = Damaged
        BY <1>2 DEF IInv, WritingInv
    <2>2. UNCHANGED store
        BY <1>1, <1>2, <1>5, <2>1 DEF TypeOK
    <2> QED
        BY <1>4, <2>2
<1>6. CASE /\ store' = [store EXCEPT ![h] = [@ EXCEPT ![s] = file]]
           /\ got[h].body = FileBody(file) /\ file \in Files
    <2>1. /\ OthersKept(h) /\ pc'[h] = "main" /\ got'[h] = NoPacket /\ astray' = astray
        <3>1. store' = [store EXCEPT ![h] = store'[h]]
            BY <1>1, <1>6 DEF TypeOK
        <3> QED
            BY <1>1, <1>3, <3>1, RespondOwn DEF OthersKept
    <2>2. ASSUME NEW f \in Files
          PROVE  /\ OffersOf(g, f)' = OffersOf(g, f)
                 /\ OffersOf(h, f) \in Nat
                 /\ OffersOf(h, f)' =
                       IF Asking(h) /\ f = file THEN OffersOf(h, f) - 1 ELSE OffersOf(h, f)
                 /\ Asking(h) /\ f = file => OffersOf(h, f) > 0
        <3>1. Held(h, f) = (IF Asking(h) /\ f = file THEN 1 ELSE 0) /\ Held(h, f)' = 0
            BY <1>6, <2>1, NotAFile DEF Held, FileBody
        <3>2. Announced(g, f) = 0 /\ Announced(g, f)' = 0
            BY <1>1, <1>2, <2>1 DEF Announced
        <3>3. /\ Copies(wire[h], FileBody(f)) \in Nat /\ Announced(h, f) \in {0, 1}
              /\ OffersOf(h, f) \in Nat
            BY <1>1, OffersParts
        <3>4. OffersOf(g, f)' = OffersOf(g, f)
            BY <1>1, <1>2, <2>1, <3>2, OffersKept
        <3>5. /\ OffersOf(h, f) = Copies(wire[h], FileBody(f)) + Held(h, f) + Announced(h, f)
              /\ OffersOf(h, f)' = Copies(wire[h], FileBody(f)) + Held(h, f)' + Announced(h, f)
            BY <1>1, <1>2, <2>1, OffersKept
        <3> HIDE DEF g, file
        <3> QED
            BY <3>1, <3>3, <3>4, <3>5
    <2>3. CASE Doing(h, "WRITE")
        <3>1. ~Asking(h) /\ MayWrite(h, file)
            BY <1>2, <1>6, <2>3, StoredFileAllowed DEF Asking, Doing, FileBody
        <3>2. \A e \in Hsms, f \in Files : OffersOf(e, f)' = OffersOf(e, f)
            BY <1>1, <2>2, <3>1
        <3>3. Exchange!Write(h, s, file)
            BY <1>6, <2>1, <3>1, <3>2, OffersSame DEF Exchange!Write, Exchange!Keep
        <3> QED
            BY <1>2, <1>6, <3>3
    <2>4. CASE Doing(h, "RECEIVE") /\ astray
        <3>1. Exchange!Receive(h, s, file)
            BY <1>6, <2>1, <2>4, OffersSame DEF Exchange!Receive, Exchange!Keep
        <3> QED
            BY <1>2, <1>6, <3>1
    <2>5. CASE Doing(h, "RECEIVE") /\ ~astray
        <3>1. Asking(h)
            BY <2>5 DEF Asking
        <3>2. [e \in Hsms |-> [f \in Files |-> IF astray THEN 0 ELSE OffersOf(e, f)]]'
                 = [[e \in Hsms |-> [f \in Files |-> IF astray THEN 0 ELSE OffersOf(e, f)]]
                       EXCEPT ![h][file] = @ - 1]
            BY <1>1, <1>6, <2>1, <2>2, <2>5, <3>1
        <3>3. OffersOf(h, file) > 0
            BY <1>6, <2>2, <3>1
        <3>4. Exchange!Receive(h, s, file)
            BY <1>6, <2>1, <2>5, <3>2, <3>3 DEF Exchange!Receive, Exchange!Keep
        <3> QED
            BY <1>2, <1>6, <3>4
    <2> QED
        BY <1>2, <2>3, <2>4, <2>5 DEF Doing
<1> QED
    BY <1>4, <1>5, <1>6, StoredEffect

LEMMA ResetResets ==
    ASSUME IInv, IInv', NEW h \in Hsms, Reset(h)
    PROVE  Exchange!Reset(h)
<1> DEFINE g == Other(h)
<1>1. TypeOK /\ TypeOK' /\ g \in Hsms /\ g # h /\ Other(g) = h
    BY OtherHsm DEF IInv
<1>2. PICK dropped \in SUBSET Slots :
         store' = [store EXCEPT ![h] =
                     [s \in Slots |-> IF s \in dropped THEN Empty ELSE store[h][s]]]
    BY ResetEffect
<1>3. OthersKept(h) /\ pc'[h] = "main" /\ got'[h] = NoPacket /\ out'[h] = None
    BY <1>1, <1>2 DEF TypeOK, Reset, OthersKept
<1>4. ASSUME ~astray', NEW f \in Files
      PROVE  /\ Copies(wire'[h], FileBody(f)) + Held(h, f)'
                   <= Copies(wire[h], FileBody(f)) + Held(h, f)
             /\ Copies(wire'[g], FileBody(f)) + Announced(g, f)'
                   <= Copies(wire[g], FileBody(f)) + Announced(g, f)
    <2>1. Held(h, f)' = 0 /\ Announced(g, f)' = 0
        BY <1>1, <1>3, NotAFile DEF Held, Announced
    <2>2. /\ Copies(wire[h], FileBody(f)) \in Nat /\ Copies(wire[g], FileBody(f)) \in Nat
          /\ Held(h, f) \in {0, 1} /\ Announced(g, f) \in {0, 1}
        BY <1>1, OffersParts
    <2>3. wire'[g] = wire[g] /\ (wire'[h] = wire[h] \/ wire'[h] = <<>>)
        BY <1>1, <1>4 DEF Reset, GoAstray, TypeOK
    <2>4. Copies(wire'[h], FileBody(f)) <= Copies(wire[h], FileBody(f))
        <3>1. wire'[h] \in Seq(Units)
            BY <1>1 DEF TypeOK
        <3>2. wire'[h] = <<>> => Copies(wire'[h], FileBody(f)) = 0
            BY <3>1, CopiesNat
        <3> QED
            BY <2>2, <2>3, <3>2
    <2>5. Copies(wire'[h], FileBody(f)) \in Nat
        BY <1>1, OffersPartsNext
    <2> HIDE DEF g
    <2> QED
        BY <2>1, <2>2, <2>3, <2>4, <2>5
<1>5. CASE astray'
    <2>1. Exchange!Fewer
        BY <1>1, <1>5, NoOffersAstray
    <2> QED
        BY <1>1, <1>2, <2>1 DEF Exchange!Reset, TypeOK
<1>6. CASE ~astray'
    <2>1. Steady
        BY <1>1, <1>6 DEF Reset, GoAstray, TypeOK, Steady
    <2>2. Exchange!Fewer
        BY <1>1, <1>3, <1>4, <1>6, <2>1, OffersFewer
    <2> QED
        BY <1>1, <1>2, <2>2 DEF Exchange!Reset, TypeOK
<1> QED
    BY <1>5, <1>6

LEMMA InitialExchange == Init => Exchange!Init
<1> SUFFICES ASSUME Init PROVE Exchange!Init
    OBVIOUS
<1>1. TypeOK
    BY InitialInv DEF IInv
<1>2. ASSUME NEW h \in Hsms, NEW f \in Files
      PROVE  OffersOf(h, f) = 0
    <2>1. Held(h, f) = 0
        BY NotAFile DEF Init, Held
    <2>2. Announced(h, f) = 0
        BY OtherHsm, NotAFile DEF Init, Announced
    <2>3. wire[h] = <<>> /\ wire[h] \in Seq(Units)
        BY <1>1 DEF Init, TypeOK
    <2>4. Copies(wire[h], FileBody(f)) = 0
        BY <2>3, CopiesNat
    <2> QED
        BY <1>1, <2>1, <2>2, <2>4, OffersParts
<1> QED
    BY <1>2 DEF Init, Exchange!Init

(* Once they are astray the two stay so.                                   *)
LEMMA AstrayStays ==
    ASSUME IInv, Next
    PROVE  astray => astray'
<1>1. ASSUME NEW h \in Hsms, Step(h)
      PROVE  astray => astray'
    <2>1. ASSUME NEW type, Respond(h, type)
          PROVE  astray => astray'
        BY <2>1 DEF Respond
    <2>2. ASSUME NEW place, NEW body, NEW packet, Goto(h, place, body, packet)
          PROVE  astray => astray'
        BY <2>2 DEF Goto
    <2>3. CASE Invalid(h) \/ WrongPin(h) \/ List(h) \/ Read(h) \/ Write(h)
        BY <2>1, <2>2, <2>3 DEF Invalid, WrongPin, List, Read, Write, WriteFile
    <2>4. CASE Ask(h) \/ Listen(h) \/ HeaderAcked(h) \/ BodyAcked(h)
        BY <2>1, <2>2, <2>4
           DEF Ask, Listen, HeaderAcked, BodyAcked, Written, WritePacket
    <2>5. CASE ReadHeader(h) \/ ReadBody(h) \/ Mismatch(h) \/ Interrogated(h)
        BY <2>1, <2>2, <2>5 DEF ReadHeader, ReadBody, Mismatch, Interrogated
    <2>6. CASE Received(h) \/ Stored(h)
        BY <2>1, <2>2, <2>6 DEF Received, WriteFile, Stored, WriteFileDone
    <2>7. CASE AnswerInterrogate(h) \/ AnswerReceive(h) \/ AnswerNothing(h)
        BY <2>1, <2>2, <2>7
           DEF AnswerInterrogate, AnswerReceive, AnswerNothing, WritePacket, Deny
    <2>8. CASE Undefined(h) \/ Skip(h) \/ Garble(h)
        BY <2>8 DEF Undefined, Skip, Garble, GoAstray
    <2> QED
        BY <1>1, <2>3, <2>4, <2>5, <2>6, <2>7, <2>8 DEF Step
<1>2. ASSUME NEW h \in Hsms,
             Overrun(h) \/ Reset(h) \/ \E c \in HostCommands : HostCommand(h, c)
      PROVE  astray => astray'
    BY <1>2 DEF Overrun, Reset, HostCommand, GoAstray
<1> QED
    BY <1>1, <1>2 DEF Next

LEMMA NextExchange == IInv /\ IInv' /\ [Next]_vars => [Exchange!Next]_(Exchange!vars)
<1> SUFFICES ASSUME IInv, IInv', [Next]_vars PROVE [Exchange!Next]_(Exchange!vars)
    OBVIOUS
<1>1. CASE UNCHANGED vars
    BY <1>1 DEF vars, Exchange!vars, OffersOf, Copies, Asking, Doing
<1>2. ASSUME NEW h \in Hsms, Write(h) \/ Received(h) \/ Stored(h) \/ Reset(h)
      PROVE  Exchange!Next
    <2>1. CASE Write(h) \/ Received(h)
        BY <2>1, WriteFails, ReceivedFails DEF Exchange!Next
    <2>2. CASE Stored(h)
        BY <2>2, StoredReceives DEF Exchange!Next
    <2>3. CASE Reset(h)
        BY <2>3, ResetResets DEF Exchange!Next
    <2> QED
        BY <1>2, <2>1, <2>2, <2>3
<1>3. CASE Next /\ astray'
    <2>1. CASE UNCHANGED store
        BY <1>3, <2>1, NoOffersAstray DEF IInv, Exchange!Withdraw, Exchange!Next
    <2> QED
        BY <1>2, <1>3, <2>1, StoreKept
<1>4. CASE Next /\ ~astray'
    <2>1. Steady
        BY <1>4, AstrayStays DEF Steady
    <2>2. ASSUME NEW h \in Hsms, Step(h)
          PROVE  Exchange!Next
        <3>1. CASE \/ Invalid(h) \/ WrongPin(h) \/ List(h) \/ Read(h)
                   \/ Mismatch(h) \/ Interrogated(h) \/ AnswerNothing(h)
            BY <2>1, <3>1, AloneWithdraws DEF Exchange!Next
        <3>2. CASE \/ Ask(h) \/ Listen(h) \/ HeaderAcked(h) \/ BodyAcked(h)
                   \/ ReadHeader(h) \/ ReadBody(h) \/ AnswerInterrogate(h) \/ Skip(h)
            BY <2>1, <3>2, AskWithdraws, ListenWithdraws, HeaderAckedWithdraws,
               BodyAckedWithdraws, ReadHeaderWithdraws, ReadBodyWithdraws,
               AnswerInterrogateWithdraws, LostWithdraws
               DEF Exchange!Next
        <3>3. CASE AnswerReceive(h)
            BY <2>1, <3>3, AnswerReceiveOffers, OtherHsm DEF Exchange!Next
        <3>4. CASE Undefined(h) \/ Garble(h)
            BY <1>4, <3>4 DEF Undefined, Garble, GoAstray
        <3> QED
            BY <1>2, <2>2, <3>1, <3>2, <3>3, <3>4 DEF Step
    <2>3. ASSUME NEW h \in Hsms, NEW c \in HostCommands, HostCommand(h, c)
          PROVE  Exchange!Next
        BY <2>1, <2>3, HostCommandWithdraws DEF Exchange!Next
    <2>4. ASSUME NEW h \in Hsms, Overrun(h)
          PROVE  Exchange!Next
        BY <2>1, <2>4, LostWithdraws DEF Exchange!Next
    <2> QED
        BY <1>2, <1>4, <2>2, <2>3, <2>4 DEF Next
<1> QED
    BY <1>1, <1>3, <1>4

(* The commands of the two HSMs implement the exchange of files: a file    *)
(* comes into a slot only by a write that is permitted, or as one of the   *)
(* offers of the other HSM, each of which is good for one file at most,    *)
(* made with a file that HSM held and this one may receive, and stored as  *)
(* it was; whatever is lost or skipped, whoever is reset, and whichever    *)
(* packets cross.  From the moment the two lose their place on the wire,   *)
(* what is received may be any file, and the rest of it still holds.       *)
THEOREM ExchangeImplemented == Spec => ExchangeSpec
BY InitialExchange, NextExchange, Inductive, PTL
   DEF Spec, ExchangeSpec, Exchange!Spec
=============================================================================
