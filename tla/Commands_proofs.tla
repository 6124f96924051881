--------------------------- MODULE Commands_proofs ---------------------------
(***************************************************************************)
(* Theorems about Commands, for any files, slots, permissions and PINs,    *)
(* any hosts, any number of resets, flash errors at any write, and HSMs    *)
(* that lose their place on the wire.                                      *)
(***************************************************************************)
EXTENDS Commands, SequenceTheorems, FiniteSetTheorems, TLAPS

-----------------------------------------------------------------------------
(***************************************************************************)
(* The inductive invariant                                                 *)
(***************************************************************************)
OnTransfer == {"headerAck", "bodyAck", "readHeader", "readBody", "got"}

(* Which command an HSM is at where; past the dispatch its PIN was right.  *)
PlaceInv(h) ==
    /\ pc[h] \in OnTransfer => Asking(h) \/ Doing(h, "LISTEN")
    /\ pc[h] = "writing" => Doing(h, "WRITE") \/ Doing(h, "RECEIVE")
    /\ pc[h] # "dispatch" /\ (Asking(h) \/ Doing(h, "WRITE")) => CheckPin(h)

(* While write_file runs, its slot is one of the table and damaged, and    *)
(* what write stores is the file it was given and may write.               *)
WritingInv(h) ==
    pc[h] = "writing" =>
        /\ Target(h) \in Slots /\ store[h][Target(h)] = Damaged
        /\ Doing(h, "WRITE") =>
              /\ got[h].body = FileBody(command[h].file)
              /\ MayWrite(h, command[h].file)

(* What may be on its way to h: a request is one with the table of the HSM *)
(* that sends it, and a file one that h may receive; unless the two are    *)
(* astray.                                                                 *)
Fits(h, unit) ==
    /\ unit.kind = "request" => unit.permissions = global_permissions[Other(h)]
    /\ unit.kind = "file" /\ unit.file \in Files => MayReceive(h, unit.file)

Proper(h, unit) == astray \/ Fits(h, unit)

TransitInv(h) ==
    /\ Proper(h, out[Other(h)])
    /\ \A i \in 1 .. Len(wire[h]) : Proper(h, wire[h][i])
    /\ ~Doing(h, "WRITE") => Proper(h, got[h].body)

IInv ==
    /\ TypeOK
    /\ \A h \in Hsms : PlaceInv(h) /\ WritingInv(h) /\ TransitInv(h)

-----------------------------------------------------------------------------
(***************************************************************************)
(* The constants, and what is sent                                         *)
(***************************************************************************)

(* The other HSM of the other HSM is the HSM itself.                       *)
LEMMA OtherHsm ==
    ASSUME NEW h \in Hsms
    PROVE  /\ Other(h) \in Hsms /\ Other(h) # h /\ Other(Other(h)) = h
           /\ \A g \in Hsms : g = h \/ g = Other(h)
<1>1. PICK a \in Hsms, b \in Hsms : a # b /\ Hsms = {a, b}
    BY CommandsAssumption DEF CommandsAssumption
<1>2. ASSUME NEW g \in Hsms
      PROVE  Other(g) \in Hsms /\ Other(g) # g
    <2>1. \E other \in Hsms : other # g
        BY <1>1
    <2> QED
        BY <2>1 DEF Other
<1> QED
    BY <1>1, <1>2

(* The kinds of contents and their fields.                                 *)
LEMMA BodyFacts ==
    ASSUME NEW b \in Bodies
    PROVE  /\ b.kind # "header"
           /\ b.kind = "file" =>
                 b.file \in Files \cup {Damaged} /\ b = FileBody(b.file)
           /\ b.kind = "request" => b.slot \in SlotNumbers
           /\ TooLongForListen(b) \in BOOLEAN
BY DEF Bodies, None, ErrorText, ListBody, FileBody, Request, TooLongForListen

LEMMA BodiesSent ==
    /\ None \in Bodies /\ ErrorText \in Bodies
    /\ \A several \in BOOLEAN : ListBody(several) \in Bodies
    /\ \A f \in Files \cup {Damaged} : FileBody(f) \in Bodies
    /\ \A s \in SlotNumbers, h \in Hsms : Request(s, global_permissions[h]) \in Bodies
BY DEF Bodies

LEMMA HeaderIsUnit ==
    ASSUME NEW cmd \in Opcodes, NEW b \in Bodies
    PROVE  Header(cmd, b) \in Units
BY BodyFacts DEF Units, Header

LEMMA AckIsUnit == Ack \in Units
BY HeaderIsUnit, BodiesSent DEF Ack, Opcodes

(* A unit is a header or contents.                                         *)
LEMMA UnitFacts ==
    ASSUME NEW u \in Units
    PROVE  /\ u.kind # "header" => u \in Bodies
           /\ u.kind = "header" => u.cmd \in Opcodes
BY BodyFacts DEF Units

(* What an HSM reads next.                                                 *)
LEMMA IncomingFacts ==
    ASSUME TypeOK, NEW h \in Hsms
    PROVE  /\ Incoming(h) # {} => astray \/ wire[h] # <<>>
           /\ \A u \in Headers(h) : u \in Incoming(h) /\ u.cmd \in Opcodes
           /\ \A u \in Contents(h) : u \in Incoming(h) /\ u \in Bodies
           /\ ~astray /\ wire[h] # <<>> => Incoming(h) = {wire[h][1]}
<1>1. wire[h] \in Seq(Units)
    BY DEF TypeOK
<1>2. StrayUnits \subseteq Units
    BY BodiesSent DEF StrayUnits, Units
<1>3. wire[h] # <<>> => Head(wire[h]) = wire[h][1] /\ Head(wire[h]) \in Units
    BY <1>1
<1>4. Incoming(h) \subseteq Units
    BY <1>2, <1>3 DEF Incoming
<1>5. ~astray /\ wire[h] # <<>> => Incoming(h) = {wire[h][1]}
    BY <1>3 DEF Incoming
<1>6. Incoming(h) # {} => astray \/ wire[h] # <<>>
    BY DEF Incoming
<1> QED
    BY <1>4, <1>5, <1>6, UnitFacts DEF Headers, Contents

(* Without straying, what an HSM reads is the head of its wire.            *)
LEMMA ReadsHead ==
    ASSUME TypeOK, ~astray, NEW h \in Hsms, Incoming(h) # {}
    PROVE  /\ wire[h] # <<>>
           /\ \A u \in Incoming(h) : u = Head(wire[h])
BY DEF Incoming

(* The fields of a command.                                                *)
LEMMA CommandFacts ==
    ASSUME NEW c \in HostCommands \cup {NoCommand}
    PROVE  /\ c.op \in {"LIST", "INTERROGATE", "LISTEN", "INVALID", "READ", "WRITE",
                         "RECEIVE", "NONE"}
           /\ c.op = "NONE" <=> c = NoCommand
           /\ c.op \in {"READ", "WRITE"} => c.slot \in SlotNumbers
           /\ c.op = "WRITE" => c.file \in Files
           /\ c.op = "RECEIVE" =>
                 c.read_slot \in SlotNumbers /\ c.write_slot \in SlotNumbers
BY DEF HostCommands, NoCommand
-----------------------------------------------------------------------------
(***************************************************************************)
(* What a step of h changes, and what it must establish                    *)
(***************************************************************************)
Own(h) ==
    /\ store[h] \in [Slots -> Files \cup {Empty, Damaged}]
    /\ pc[h] \in Places
    /\ command[h] \in HostCommands \cup {NoCommand}
    /\ out[h] \in Bodies
    /\ got[h] \in Packets
    /\ reply[h] \in Replies
    /\ pc[h] \in {"main", "undefined"} <=> command[h] = NoCommand
    /\ command[h] = NoCommand => out[h] = None /\ got[h] = NoPacket
    /\ PlaceInv(h) /\ WritingInv(h)
    /\ Proper(Other(h), out[h])
    /\ ~Doing(h, "WRITE") => Proper(h, got[h].body)

OthersKept(h) ==
    /\ store' = [store EXCEPT ![h] = store'[h]]
    /\ pc' = [pc EXCEPT ![h] = pc'[h]]
    /\ command' = [command EXCEPT ![h] = command'[h]]
    /\ out' = [out EXCEPT ![h] = out'[h]]
    /\ got' = [got EXCEPT ![h] = got'[h]]
    /\ reply' = [reply EXCEPT ![h] = reply'[h]]

(* Only the head of its wire is taken, or all of it is lost, and one       *)
(* proper unit is sent; or the two go astray and nothing is left.          *)
WireStep(h) ==
    /\ wire' \in [Hsms -> Seq(Units)]
    /\ astray' \in BOOLEAN /\ (astray => astray')
    /\ \/ wire'[h] = wire[h]
       \/ wire[h] # <<>> /\ wire'[h] = Tail(wire[h])
       \/ wire'[h] = <<>>
    /\ \/ wire'[Other(h)] = wire[Other(h)]
       \/ wire'[Other(h)] = <<>>
       \/ \E u \in Units : /\ Proper(Other(h), u)
                           /\ wire'[Other(h)] = Append(wire[Other(h)], u)

LEMMA WireSteps ==
    ASSUME TypeOK, NEW h \in Hsms
    PROVE  /\ GoAstray => WireStep(h)
           /\ UNCHANGED <<wire, astray>> => WireStep(h)
           /\ Incoming(h) # {} /\ Take(h) /\ UNCHANGED astray => WireStep(h)
           /\ \A u \in Units :
                 Proper(Other(h), u) /\ UNCHANGED astray =>
                     /\ Send(h, u) => WireStep(h)
                     /\ Incoming(h) # {} /\ TakeAndSend(h, u) => WireStep(h)
<1>1. /\ wire \in [Hsms -> Seq(Units)] /\ Other(h) \in Hsms /\ Other(h) # h
      /\ astray \in BOOLEAN
    BY OtherHsm DEF TypeOK
<1>2. ASSUME wire[h] # <<>>
      PROVE  Tail(wire[h]) \in Seq(Units)
    BY <1>1, <1>2
<1>3. ASSUME NEW u \in Units
      PROVE  Append(wire[Other(h)], u) \in Seq(Units)
    BY <1>1
<1>4. UNCHANGED <<wire, astray>> => WireStep(h)
    BY <1>1 DEF WireStep
<1>5. ~astray /\ Incoming(h) # {} => wire[h] # <<>>
    BY IncomingFacts
<1>6. GoAstray => WireStep(h)
    <2>1. <<>> \in Seq(Units)
        BY EmptySeq
    <2> QED
        BY <1>1, <2>1 DEF GoAstray, WireStep
<1>7. CASE ~astray
    <2>1. Incoming(h) # {} /\ Take(h) /\ UNCHANGED astray => WireStep(h)
        BY <1>1, <1>2, <1>5, <1>7 DEF WireStep, Take
    <2>2. ASSUME NEW u \in Units, Proper(Other(h), u), UNCHANGED astray
          PROVE  /\ Send(h, u) => WireStep(h)
                 /\ Incoming(h) # {} /\ TakeAndSend(h, u) => WireStep(h)
        BY <1>1, <1>2, <1>3, <1>5, <1>7, <2>2 DEF WireStep, Send, TakeAndSend
    <2> QED
        BY <1>4, <1>6, <2>1, <2>2
<1>8. CASE astray
    <2>1. \A u : Take(h) \/ Send(h, u) \/ TakeAndSend(h, u) => UNCHANGED wire
        BY <1>8 DEF Take, Send, TakeAndSend
    <2> QED
        BY <1>4, <1>6, <2>1
<1> QED
    BY <1>7, <1>8

(* A step that changes only what is h's keeps the invariant if it          *)
(* establishes h's part of it.                                             *)
LEMMA StepKeeps ==
    ASSUME IInv, NEW h \in Hsms, OthersKept(h), Own(h)', WireStep(h),
           dirty' \subseteq Hsms, resets' \in 0 .. MaxResets
    PROVE  IInv'
<1> DEFINE g == Other(h)
<1>1. /\ g \in Hsms /\ g # h /\ Other(g) = h
      /\ \A e \in Hsms : e = h \/ e = g
    BY OtherHsm
<1> HIDE DEF g
<1>2. TypeOK
    BY DEF IInv
<1>3. /\ store'[g] = store[g] /\ pc'[g] = pc[g] /\ command'[g] = command[g]
      /\ out'[g] = out[g] /\ got'[g] = got[g] /\ reply'[g] = reply[g]
    BY <1>1, <1>2 DEF TypeOK, OthersKept
<1>4. TypeOK'
    <2>1. /\ store' \in [Hsms -> [Slots -> Files \cup {Empty, Damaged}]]
          /\ pc' \in [Hsms -> Places]
          /\ command' \in [Hsms -> HostCommands \cup {NoCommand}]
          /\ out' \in [Hsms -> Bodies]
          /\ got' \in [Hsms -> Packets]
          /\ reply' \in [Hsms -> Replies]
        BY <1>2 DEF TypeOK, OthersKept, Own
    <2>2. \A e \in Hsms :
              /\ pc'[e] \in {"main", "undefined"} <=> command'[e] = NoCommand
              /\ command'[e] = NoCommand => out'[e] = None /\ got'[e] = NoPacket
        BY <1>1, <1>2, <1>3 DEF TypeOK, Own
    <2> QED
        BY <2>1, <2>2 DEF TypeOK, WireStep
<1>5. PlaceInv(h)' /\ WritingInv(h)'
    BY DEF Own
<1>6. PlaceInv(g)' /\ WritingInv(g)'
    BY <1>1, <1>3
       DEF IInv, PlaceInv, WritingInv, Asking, Doing, CheckPin, Target
<1>7. ASSUME NEW e \in Hsms, NEW u, Proper(e, u)
      PROVE  astray' \/ Fits(e, u)
    BY <1>7 DEF Proper, WireStep
<1>8. TransitInv(h)'
    <2>1. astray' \/ Fits(h, out'[g])
        BY <1>1, <1>3, <1>7 DEF IInv, TransitInv, g
    <2>2. \A i \in 1 .. Len(wire'[h]) : astray' \/ Fits(h, wire'[h][i])
        <3>1. /\ wire[h] \in Seq(Units)
              /\ \A i \in 1 .. Len(wire[h]) : astray' \/ Fits(h, wire[h][i])
            BY <1>2, <1>7 DEF TypeOK, IInv, TransitInv
        <3>2. CASE wire'[h] = wire[h]
            BY <3>1, <3>2
        <3>3. CASE wire[h] # <<>> /\ wire'[h] = Tail(wire[h])
            BY <3>1, <3>3
        <3>4. CASE wire'[h] = <<>>
            BY <3>4
        <3> QED
            BY <3>2, <3>3, <3>4 DEF WireStep
    <2> QED
        BY <1>1, <2>1, <2>2 DEF TransitInv, Own, Proper, g
<1>9. TransitInv(g)'
    <2>1. astray' \/ Fits(g, out'[h])
        BY DEF Own, Proper, g
    <2>2. \A i \in 1 .. Len(wire'[g]) : astray' \/ Fits(g, wire'[g][i])
        <3>1. /\ wire[g] \in Seq(Units)
              /\ \A i \in 1 .. Len(wire[g]) : astray' \/ Fits(g, wire[g][i])
            BY <1>1, <1>2, <1>7 DEF TypeOK, IInv, TransitInv
        <3>2. CASE wire'[g] = wire[g] \/ wire'[g] = <<>>
            BY <3>1, <3>2
        <3>3. ASSUME NEW u \in Units, Proper(g, u), wire'[g] = Append(wire[g], u)
              PROVE  \A i \in 1 .. Len(wire'[g]) : astray' \/ Fits(g, wire'[g][i])
            <4>1. astray' \/ Fits(g, u)
                BY <1>1, <1>7, <3>3
            <4> QED
                BY <3>1, <3>3, <4>1
        <3> QED
            BY <3>2, <3>3 DEF WireStep, g
    <2>3. ~Doing(g, "WRITE")' => astray' \/ Fits(g, got'[g].body)
        BY <1>1, <1>3, <1>7 DEF IInv, TransitInv, Doing
    <2> QED
        BY <1>1, <2>1, <2>2, <2>3 DEF TransitInv, Proper
<1> QED
    BY <1>1, <1>4, <1>5, <1>6, <1>8, <1>9 DEF IInv
-----------------------------------------------------------------------------
(***************************************************************************)
(* The pieces of the actions keep the invariant                            *)
(***************************************************************************)
LEMMA ProperUnits ==
    ASSUME NEW h \in Hsms
    PROVE  /\ Proper(h, None) /\ Proper(h, ErrorText) /\ Proper(h, Ack)
           /\ \A several \in BOOLEAN : Proper(h, ListBody(several))
           /\ \A cmd, body : Proper(h, Header(cmd, body))
           /\ \A s : Proper(h, Request(s, global_permissions[Other(h)]))
           /\ NoPacket \in Packets /\ Proper(h, NoPacket.body)
           /\ Fits(h, None) /\ Fits(h, NoPacket.body)
BY BodiesSent
   DEF Proper, Fits, None, ErrorText, Ack, ListBody, Header, Request, NoPacket,
       Packet, Packets, Opcodes

LEMMA GotoOwn ==
    ASSUME TypeOK, NEW h \in Hsms, NEW place, NEW body, NEW packet,
           Goto(h, place, body, packet), UNCHANGED store
    PROVE  /\ OthersKept(h)
           /\ store'[h] = store[h] /\ command'[h] = command[h] /\ reply'[h] = reply[h]
           /\ pc'[h] = place /\ out'[h] = body /\ got'[h] = packet
           /\ resets' = resets /\ astray' = astray
BY DEF TypeOK, Goto, OthersKept

LEMMA RespondOwn ==
    ASSUME TypeOK, NEW h \in Hsms, NEW type, Respond(h, type)
    PROVE  /\ pc' = [pc EXCEPT ![h] = pc'[h]]
           /\ command' = [command EXCEPT ![h] = command'[h]]
           /\ out' = [out EXCEPT ![h] = out'[h]]
           /\ got' = [got EXCEPT ![h] = got'[h]]
           /\ reply' = [reply EXCEPT ![h] = reply'[h]]
           /\ pc'[h] = "main" /\ command'[h] = NoCommand /\ out'[h] = None
           /\ got'[h] = NoPacket /\ reply'[h] = type
           /\ resets' = resets /\ astray' = astray
BY DEF TypeOK, Respond

(* An HSM that is back in the main loop has nothing to keep, and neither   *)
(* has one that has gone beyond an array.                                  *)
LEMMA MainIsOwn ==
    ASSUME NEW h \in Hsms, pc'[h] \in {"main", "undefined"}, command'[h] = NoCommand,
           out'[h] = None, got'[h] = NoPacket, reply'[h] \in Replies,
           store'[h] \in [Slots -> Files \cup {Empty, Damaged}]
    PROVE  Own(h)'
<1>1. /\ NoPacket \in Packets /\ Proper(h, NoPacket.body)
      /\ None \in Bodies /\ Fits(Other(h), None) /\ Fits(h, NoPacket.body)
    BY BodiesSent, ProperUnits, OtherHsm
<1>2. ~Doing(h, "WRITE")' /\ ~Doing(h, "RECEIVE")' /\ ~Doing(h, "INTERROGATE")'
    BY DEF Doing, NoCommand
<1>3. PlaceInv(h)' /\ WritingInv(h)'
    BY <1>2 DEF PlaceInv, WritingInv, Asking, OnTransfer
<1>4. pc'[h] \in Places
    BY DEF Places, NotReading
<1> QED
    BY <1>1, <1>3, <1>4 DEF Own, Proper

LEMMA RespondKeeps ==
    ASSUME IInv, NEW h \in Hsms, NEW type \in Replies, Respond(h, type),
           UNCHANGED <<store, dirty>>, WireStep(h)
    PROVE  IInv'
<1>1. TypeOK
    BY DEF IInv
<1>2. OthersKept(h) /\ resets' \in 0 .. MaxResets /\ dirty' \subseteq Hsms
    BY <1>1, RespondOwn DEF TypeOK, OthersKept
<1>3. Own(h)'
    BY <1>1, RespondOwn, MainIsOwn DEF TypeOK
<1> QED
    BY <1>2, <1>3, StepKeeps

(* On the way through receive, interrogate and listen.                     *)
LEMMA GotoKeeps ==
    ASSUME IInv, NEW h \in Hsms, NEW place \in OnTransfer,
           NEW body \in Bodies, Proper(Other(h), body),
           NEW packet \in Packets, Proper(h, packet.body),
           Goto(h, place, body, packet), UNCHANGED <<store, dirty>>,
           (Asking(h) /\ CheckPin(h)) \/ Doing(h, "LISTEN"), WireStep(h)
    PROVE  IInv'
<1>1. TypeOK
    BY DEF IInv
<1>2. /\ OthersKept(h) /\ resets' \in 0 .. MaxResets /\ dirty' \subseteq Hsms
      /\ astray' = astray
    BY <1>1, GotoOwn DEF TypeOK
<1>3. /\ store'[h] = store[h] /\ command'[h] = command[h] /\ reply'[h] = reply[h]
      /\ pc'[h] = place /\ out'[h] = body /\ got'[h] = packet
    BY <1>1, GotoOwn
<1>4. /\ pc'[h] \in Places /\ pc'[h] \notin {"main", "undefined"}
      /\ command[h] # NoCommand
      /\ pc'[h] # "writing"
    BY <1>3 DEF OnTransfer, Places, NotReading, Asking, Doing, NoCommand
<1>5. PlaceInv(h)' /\ WritingInv(h)'
    BY <1>3, <1>4 DEF PlaceInv, WritingInv, Asking, Doing, CheckPin
<1>6. Own(h)'
    BY <1>1, <1>2, <1>3, <1>4, <1>5 DEF TypeOK, Own, Proper
<1> QED
    BY <1>2, <1>6, StepKeeps

(* After a PIN check, or in the middle of an exchange.                     *)
LEMMA Exchanging ==
    ASSUME IInv, NEW h \in Hsms, pc[h] \in OnTransfer
    PROVE  /\ (Asking(h) /\ CheckPin(h)) \/ Doing(h, "LISTEN")
           /\ ~Doing(h, "WRITE") /\ Proper(h, got[h].body)
           /\ got[h] \in Packets /\ got[h].body \in Bodies /\ got[h].cmd \in Opcodes
           /\ out[h] \in Bodies /\ Proper(Other(h), out[h])
<1>1. PlaceInv(h) /\ TransitInv(h) /\ TransitInv(Other(h)) /\ TypeOK
    BY OtherHsm DEF IInv
<1>2. pc[h] # "dispatch" /\ (Asking(h) \/ Doing(h, "LISTEN"))
    BY <1>1 DEF PlaceInv, OnTransfer
<1>3. ~Doing(h, "WRITE")
    BY <1>2 DEF Asking, Doing
<1>4. Asking(h) => CheckPin(h)
    BY <1>1, <1>2 DEF PlaceInv
<1>5. Proper(Other(h), out[h])
    BY <1>1, OtherHsm DEF TransitInv
<1>6. Proper(h, got[h].body)
    BY <1>1, <1>3 DEF TransitInv
<1> QED
    BY <1>1, <1>2, <1>3, <1>4, <1>5, <1>6 DEF TypeOK, Packets
-----------------------------------------------------------------------------
(***************************************************************************)
(* Each action keeps the invariant                                         *)
(***************************************************************************)
LEMMA HostCommandKeeps ==
    ASSUME IInv, NEW h \in Hsms, NEW c \in HostCommands, HostCommand(h, c)
    PROVE  IInv'
<1>1. TypeOK /\ TransitInv(Other(h)) /\ TransitInv(h)
    BY OtherHsm DEF IInv
<1>2. /\ OthersKept(h) /\ WireStep(h)
      /\ resets' \in 0 .. MaxResets /\ dirty' \subseteq Hsms /\ astray' = astray
    BY <1>1, WireSteps DEF TypeOK, OthersKept, HostCommand
<1>3. /\ store'[h] = store[h] /\ out'[h] = None /\ got'[h] = NoPacket
      /\ command'[h] = c /\ c # NoCommand /\ pc'[h] = "dispatch" /\ reply'[h] = "NONE"
    BY <1>1, CommandFacts DEF TypeOK, HostCommand, HostCommands, NoCommand
<1>4. PlaceInv(h)' /\ WritingInv(h)'
    BY <1>3 DEF PlaceInv, WritingInv, OnTransfer
<1>5. Own(h)'
    BY <1>1, <1>3, <1>4, ProperUnits, OtherHsm, BodiesSent
       DEF TypeOK, Own, Places, NotReading, Replies, Proper
<1> QED
    BY <1>2, <1>5, StepKeeps

(* The commands an HSM handles on its own, write aside.                    *)
LEMMA AloneKeeps ==
    ASSUME IInv, NEW h \in Hsms,
           Invalid(h) \/ WrongPin(h) \/ List(h) \/ Read(h)
    PROVE  IInv'
<1>1. WireStep(h)
    BY WireSteps DEF IInv, Invalid, WrongPin, List, Read, Respond
<1>2. UNCHANGED <<store, dirty>>
    BY DEF Invalid, WrongPin, List, Read
<1>3. \E type \in Replies : Respond(h, type)
    BY DEF Invalid, WrongPin, List, Read, Replies
<1> QED
    BY <1>1, <1>2, <1>3, RespondKeeps

LEMMA WriteKeeps ==
    ASSUME IInv, NEW h \in Hsms, Write(h)
    PROVE  IInv'
<1>1. TypeOK /\ WireStep(h)
    BY WireSteps DEF IInv, Write, WriteFile, Goto, Respond
<1>2. /\ pc[h] = "dispatch" /\ command[h].op = "WRITE" /\ CheckPin(h)
      /\ command[h].file \in Files
      /\ command[h] # NoCommand
    BY <1>1, CommandFacts DEF TypeOK, Write, Dispatch, Doing, NoCommand
<1>3. CASE ~MayWrite(h, command[h].file)
    <2>1. Respond(h, "ERROR") /\ UNCHANGED <<store, dirty>>
        BY <1>3 DEF Write
    <2> QED
        BY <1>1, <2>1, RespondKeeps DEF Replies
<1>4. CASE MayWrite(h, command[h].file)
    <2> DEFINE slot == command[h].slot
               body == FileBody(command[h].file)
    <2>1. WriteFile(h, slot, body) /\ slot \in Slots
        BY <1>4 DEF Write
    <2>2. /\ OthersKept(h)
          /\ store'[h] = [store[h] EXCEPT ![slot] = Damaged]
          /\ pc'[h] = "writing" /\ out'[h] = None /\ command'[h] = command[h]
          /\ got'[h] = Packet(got[h].cmd, body) /\ reply'[h] = reply[h]
          /\ resets' \in 0 .. MaxResets /\ dirty' \subseteq Hsms
          /\ astray' = astray
        BY <1>1, <2>1 DEF TypeOK, WriteFile, Goto, OthersKept
    <2>3. got'[h] \in Packets /\ got'[h].body = body
        BY <1>1, <1>2, <2>2, BodiesSent DEF TypeOK, Packets, Packet
    <2>4. PlaceInv(h)' /\ WritingInv(h)'
        <3>1. store'[h][slot] = Damaged
            BY <1>1, <2>1, <2>2 DEF TypeOK
        <3> QED
            BY <1>2, <1>4, <2>1, <2>2, <2>3, <3>1
               DEF PlaceInv, WritingInv, OnTransfer, Target, Doing, Asking, CheckPin
    <2>5. out'[h] \in Bodies /\ Proper(Other(h), out[h])'
        BY <2>2, ProperUnits, BodiesSent, OtherHsm DEF Proper
    <2>6. /\ Doing(h, "WRITE")' /\ command'[h] \in HostCommands \cup {NoCommand}
          /\ command'[h] # NoCommand /\ pc'[h] \in Places \ {"main", "undefined"}
        BY <1>1, <1>2, <2>2 DEF TypeOK, Doing, Places, NotReading
    <2>7. store'[h] \in [Slots -> Files \cup {Empty, Damaged}] /\ reply'[h] \in Replies
        <3>1. store[h] \in [Slots -> Files \cup {Empty, Damaged}] /\ reply[h] \in Replies
            BY <1>1 DEF TypeOK
        <3> QED
            BY <2>2, <3>1
    <2>8. Own(h)'
        BY <2>3, <2>4, <2>5, <2>6, <2>7 DEF Own
    <2> QED
        BY <1>1, <2>2, <2>8, StepKeeps
<1> QED
    BY <1>3, <1>4

LEMMA AskKeeps ==
    ASSUME IInv, NEW h \in Hsms, Ask(h)
    PROVE  IInv'
<1> DEFINE op == command[h].op
           body == IF Doing(h, "RECEIVE")
                   THEN Request(command[h].read_slot, global_permissions[h])
                   ELSE None
<1>1. TypeOK
    BY DEF IInv
<1>2. /\ op \in {"RECEIVE", "INTERROGATE"} /\ CheckPin(h) /\ Asking(h)
      /\ Send(h, Header(op, body)) /\ Goto(h, "headerAck", body, NoPacket)
      /\ UNCHANGED <<store, dirty>>
    BY DEF Ask, Dispatch, Doing, Asking, WritePacket
<1>3. body \in Bodies
    BY <1>1, CommandFacts, BodiesSent DEF TypeOK, Doing
<1>4. Proper(Other(h), body)
    BY ProperUnits, OtherHsm
<1>5. Header(op, body) \in Units
    BY <1>2, <1>3, HeaderIsUnit DEF Opcodes
<1>6. WireStep(h)
    BY <1>1, <1>2, <1>5, WireSteps, ProperUnits, OtherHsm DEF Goto
<1> QED
    BY <1>2, <1>3, <1>4, <1>6, GotoKeeps, ProperUnits DEF OnTransfer

LEMMA ListenKeeps ==
    ASSUME IInv, NEW h \in Hsms, Listen(h)
    PROVE  IInv'
<1>1. /\ Doing(h, "LISTEN") /\ Goto(h, "readHeader", None, NoPacket)
      /\ UNCHANGED <<store, dirty, wire>>
    BY DEF Listen, Dispatch
<1>2. WireStep(h)
    BY <1>1, WireSteps DEF IInv, Goto
<1> QED
    BY <1>1, <1>2, GotoKeeps, ProperUnits, BodiesSent, OtherHsm DEF OnTransfer

(* write_packet has returned.                                              *)
LEMMA WrittenKeeps ==
    ASSUME IInv, NEW h \in Hsms, pc[h] \in OnTransfer, Written(h),
           UNCHANGED <<store, dirty>>, WireStep(h)
    PROVE  IInv'
<1>1. CASE Asking(h)
    <2>1. Goto(h, "readHeader", None, NoPacket)
        BY <1>1 DEF Written
    <2>2. CheckPin(h) \/ Doing(h, "LISTEN")
        BY Exchanging
    <2> QED
        BY <1>1, <2>1, <2>2, GotoKeeps, ProperUnits, BodiesSent, OtherHsm DEF OnTransfer
<1>2. CASE ~Asking(h)
    BY <1>2, RespondKeeps DEF Written, Replies
<1> QED
    BY <1>1, <1>2

LEMMA HeaderAckedKeeps ==
    ASSUME IInv, NEW h \in Hsms, HeaderAcked(h)
    PROVE  IInv'
<1>1. /\ pc[h] \in OnTransfer /\ pc[h] = "headerAck" /\ UNCHANGED <<store, dirty>>
      /\ TypeOK
    BY DEF HeaderAcked, OnTransfer, IInv
<1>2. Incoming(h) # {}
    BY DEF HeaderAcked, Headers
<1>3. CASE TakeAndSend(h, out[h]) /\ Goto(h, "bodyAck", out[h], NoPacket)
    <2>1. /\ (Asking(h) /\ CheckPin(h)) \/ Doing(h, "LISTEN")
          /\ out[h] \in Bodies /\ Proper(Other(h), out[h])
        BY <1>1, Exchanging
    <2>2. WireStep(h)
        BY <1>1, <1>2, <1>3, <2>1, WireSteps DEF Units, Goto
    <2> QED
        BY <1>1, <1>3, <2>1, <2>2, GotoKeeps, ProperUnits DEF OnTransfer
<1>4. CASE Take(h) /\ Written(h)
    <2>1. WireStep(h)
        BY <1>1, <1>2, <1>4, WireSteps DEF Written, Goto, Respond
    <2> QED
        BY <1>1, <1>4, <2>1, WrittenKeeps
<1> QED
    BY <1>3, <1>4 DEF HeaderAcked

LEMMA BodyAckedKeeps ==
    ASSUME IInv, NEW h \in Hsms, BodyAcked(h)
    PROVE  IInv'
<1>1. /\ pc[h] \in OnTransfer /\ Incoming(h) # {} /\ Take(h) /\ Written(h)
      /\ UNCHANGED <<store, dirty>>
    BY DEF BodyAcked, Headers, OnTransfer
<1>2. WireStep(h)
    BY <1>1, WireSteps DEF IInv, Written, Goto, Respond
<1> QED
    BY <1>1, <1>2, WrittenKeeps
LEMMA ReadHeaderKeeps ==
    ASSUME IInv, NEW h \in Hsms, ReadHeader(h)
    PROVE  IInv'
<1>1. TypeOK /\ pc[h] \in OnTransfer /\ UNCHANGED <<store, dirty>>
    BY DEF IInv, ReadHeader, OnTransfer
<1>2. PICK header \in Headers(h), place \in {"got", "readBody"} :
         /\ Take(h) \/ TakeAndSend(h, Ack)
         /\ Goto(h, place, None, Packet(header.cmd, None))
    BY DEF ReadHeader
<1>3. Incoming(h) # {} /\ header.cmd \in Opcodes
    BY <1>1, IncomingFacts
<1>4. Packet(header.cmd, None) \in Packets /\ Proper(h, Packet(header.cmd, None).body)
    BY <1>3, BodiesSent, ProperUnits DEF Packet, Packets
<1>5. WireStep(h)
    BY <1>1, <1>2, <1>3, WireSteps, AckIsUnit, ProperUnits, OtherHsm DEF Goto
<1>6. (Asking(h) /\ CheckPin(h)) \/ Doing(h, "LISTEN")
    BY <1>1, Exchanging
<1>7. place \in OnTransfer
    BY DEF OnTransfer
<1> QED
    BY <1>1, <1>2, <1>4, <1>5, <1>6, <1>7, GotoKeeps, BodiesSent, ProperUnits, OtherHsm

LEMMA ReadBodyKeeps ==
    ASSUME IInv, NEW h \in Hsms, ReadBody(h)
    PROVE  IInv'
<1>1. /\ TypeOK /\ TransitInv(h) /\ pc[h] \in OnTransfer
      /\ TakeAndSend(h, Ack) /\ UNCHANGED <<store, dirty>>
    BY DEF IInv, ReadBody, OnTransfer
<1>2. PICK body \in Contents(h) : Goto(h, "got", None, Packet(got[h].cmd, body))
    BY DEF ReadBody
<1>3. body \in Incoming(h) /\ body \in Bodies
    BY <1>1, IncomingFacts
<1>4. Proper(h, body)
    <2>1. CASE ~astray
        <3>1. wire[h] \in Seq(Units) /\ wire[h] # <<>> /\ body = wire[h][1]
            BY <1>1, <1>3, <2>1, IncomingFacts DEF TypeOK
        <3>2. 1 \in 1 .. Len(wire[h])
            BY <3>1
        <3> QED
            BY <1>1, <3>1, <3>2 DEF TransitInv
    <2> QED
        BY <2>1 DEF Proper
<1>5. /\ (Asking(h) /\ CheckPin(h)) \/ Doing(h, "LISTEN")
      /\ got[h].cmd \in Opcodes
    BY <1>1, Exchanging
<1>6. Packet(got[h].cmd, body) \in Packets /\ Packet(got[h].cmd, body).body = body
    BY <1>3, <1>5 DEF Packet, Packets
<1>7. WireStep(h)
    BY <1>1, <1>2, <1>3, WireSteps, AckIsUnit, ProperUnits, OtherHsm DEF Goto
<1> QED
    BY <1>1, <1>2, <1>4, <1>5, <1>6, <1>7, GotoKeeps, BodiesSent, ProperUnits, OtherHsm
       DEF OnTransfer

LEMMA MismatchKeeps ==
    ASSUME IInv, NEW h \in Hsms, Mismatch(h) \/ Interrogated(h) \/ AnswerNothing(h)
    PROVE  IInv'
<1>1. WireStep(h)
    BY WireSteps DEF IInv, Mismatch, Interrogated, AnswerNothing, Respond
<1>2. UNCHANGED <<store, dirty>> /\ \E type \in Replies : Respond(h, type)
    BY DEF Mismatch, Interrogated, AnswerNothing, Replies
<1> QED
    BY <1>1, <1>2, RespondKeeps

LEMMA ReceivedKeeps ==
    ASSUME IInv, NEW h \in Hsms, Received(h)
    PROVE  IInv'
<1> DEFINE slot == command[h].write_slot
<1>1. TypeOK /\ WireStep(h)
    BY WireSteps DEF IInv, Received, WriteFile, Goto
<1>2. /\ command[h].op = "RECEIVE" /\ command[h] # NoCommand /\ slot \in Slots
      /\ pc[h] \in OnTransfer /\ WriteFile(h, slot, got[h].body)
    BY <1>1, CommandFacts DEF TypeOK, Received, Doing, NoCommand, OnTransfer
<1>3. CheckPin(h) /\ got[h] \in Packets /\ Proper(h, got[h].body)
    BY <1>2, Exchanging DEF Doing
<1>4. /\ OthersKept(h)
      /\ store'[h] = [store[h] EXCEPT ![slot] = Damaged]
      /\ pc'[h] = "writing" /\ out'[h] = None /\ command'[h] = command[h]
      /\ got'[h] = Packet(got[h].cmd, got[h].body) /\ reply'[h] = reply[h]
      /\ resets' \in 0 .. MaxResets /\ dirty' \subseteq Hsms /\ astray' = astray
    BY <1>1, <1>2 DEF TypeOK, WriteFile, Goto, OthersKept
<1>5. got'[h] = got[h]
    BY <1>3, <1>4 DEF Packets, Packet
<1>6. PlaceInv(h)' /\ WritingInv(h)'
    <2>1. store'[h][slot] = Damaged
        BY <1>1, <1>2, <1>4 DEF TypeOK
    <2> QED
        BY <1>2, <1>3, <1>4, <2>1
           DEF PlaceInv, WritingInv, OnTransfer, Target, Doing, Asking, CheckPin
<1>7. Own(h)'
    BY <1>1, <1>2, <1>3, <1>4, <1>5, <1>6, ProperUnits, BodiesSent, OtherHsm
       DEF TypeOK, Own, Places, NotReading, Doing, Proper
<1> QED
    BY <1>1, <1>4, <1>7, StepKeeps

(* What comes into the slot when write_file is done, if anything does, is  *)
(* the file that is to be stored.                                          *)
LEMMA StoredEffect ==
    ASSUME IInv, NEW h \in Hsms, Stored(h)
    PROVE  /\ Target(h) \in Slots /\ CheckPin(h)
           /\ command[h].op \in {"WRITE", "RECEIVE"}
           /\ \/ /\ got[h].body.kind = "file"
                 /\ store' = [store EXCEPT ![h] =
                                 [@ EXCEPT ![Target(h)] = got[h].body.file]]
                 /\ got[h].body = FileBody(got[h].body.file)
                 /\ got[h].body.file \in Files \cup {Damaged}
              \/ UNCHANGED store
           /\ \E type \in Replies : Respond(h, type)
           /\ dirty' \subseteq dirty
           /\ UNCHANGED wire
<1>1. TypeOK /\ PlaceInv(h) /\ WritingInv(h)
    BY DEF IInv
<1>2. pc[h] = "writing" /\ WriteFileDone(h, Target(h), command[h].op) /\ UNCHANGED wire
    BY DEF Stored
<1>3. command[h].op \in {"WRITE", "RECEIVE"} /\ CheckPin(h)
    BY <1>1, <1>2 DEF PlaceInv, Doing, Asking
<1>4. Target(h) \in Slots
    BY <1>1, <1>2 DEF WritingInv
<1>5. got[h].body \in Bodies
    BY <1>1 DEF TypeOK, Packets
<1>6. \E type \in Replies : Respond(h, type)
    BY <1>2, <1>3 DEF WriteFileDone, Replies
<1> QED
    BY <1>2, <1>3, <1>4, <1>5, <1>6, BodyFacts DEF WriteFileDone

LEMMA StoredKeeps ==
    ASSUME IInv, NEW h \in Hsms, Stored(h)
    PROVE  IInv'
<1>1. TypeOK
    BY DEF IInv
<1>2. PICK type \in Replies : Respond(h, type)
    BY StoredEffect
<1>3. /\ store' = [store EXCEPT ![h] = store'[h]]
      /\ store'[h] \in [Slots -> Files \cup {Empty, Damaged}]
    <2>1. CASE UNCHANGED store
        BY <1>1, <2>1 DEF TypeOK
    <2>2. ASSUME NEW s \in Slots, NEW file \in Files \cup {Damaged},
                 store' = [store EXCEPT ![h] = [@ EXCEPT ![s] = file]]
          PROVE  /\ store' = [store EXCEPT ![h] = store'[h]]
                 /\ store'[h] \in [Slots -> Files \cup {Empty, Damaged}]
        BY <1>1, <2>2 DEF TypeOK
    <2> QED
        BY <2>1, <2>2, StoredEffect
<1>4. OthersKept(h) /\ resets' \in 0 .. MaxResets /\ dirty' \subseteq Hsms
    BY <1>1, <1>2, <1>3, RespondOwn, StoredEffect DEF TypeOK, OthersKept
<1>5. Own(h)'
    BY <1>1, <1>2, <1>3, RespondOwn, MainIsOwn
<1>6. WireStep(h)
    BY <1>1, <1>2, StoredEffect, WireSteps DEF Respond
<1> QED
    BY <1>4, <1>5, <1>6, StepKeeps

(* The body of a listener's answer: a list, or a file the requester may    *)
(* receive by the table it sent.                                           *)
LEMMA AnswerKeeps ==
    ASSUME IInv, NEW h \in Hsms, pc[h] \in OnTransfer,
           NEW cmd \in Opcodes, NEW body \in Bodies, Proper(Other(h), body),
           WritePacket(h, cmd, body), UNCHANGED <<store, dirty>>
    PROVE  IInv'
<1>1. Send(h, Header(cmd, body)) /\ Goto(h, "headerAck", body, NoPacket)
    BY DEF WritePacket
<1>2. Header(cmd, body) \in Units
    BY HeaderIsUnit
<1>3. WireStep(h)
    BY <1>1, <1>2, WireSteps, ProperUnits, OtherHsm DEF IInv, Goto
<1>4. (Asking(h) /\ CheckPin(h)) \/ Doing(h, "LISTEN")
    BY Exchanging
<1> QED
    BY <1>1, <1>3, <1>4, GotoKeeps, ProperUnits DEF OnTransfer

LEMMA AnswerInterrogateKeeps ==
    ASSUME IInv, NEW h \in Hsms, AnswerInterrogate(h)
    PROVE  IInv'
<1>1. PICK body \in Lists(h) : WritePacket(h, "INTERROGATE", body)
    BY DEF AnswerInterrogate
<1>2. body \in Bodies /\ Proper(Other(h), body)
    BY BodiesSent, ProperUnits, OtherHsm DEF Lists
<1>3. pc[h] \in OnTransfer /\ UNCHANGED <<store, dirty>>
    BY DEF AnswerInterrogate, OnTransfer
<1> QED
    BY <1>1, <1>2, <1>3, AnswerKeeps DEF Opcodes

(* A listener grants by the requester's table, which came with the         *)
(* request; a request it has no room for has no permissions at all.        *)
LEMMA GrantedMayReceive ==
    ASSUME IInv, NEW h \in Hsms, pc[h] \in OnTransfer, NEW f \in Files,
           Granted(h, RequestOf(h), GroupOf[f])
    PROVE  astray \/ MayReceive(Other(h), f)
<1>1. CASE got[h].body.kind = "request"
    <2>1. astray \/ got[h].body.permissions = global_permissions[Other(h)]
        BY <1>1, Exchanging DEF Proper, Fits
    <2> QED
        BY <1>1, <2>1 DEF Granted, RequestOf, MayReceive
<1>2. CASE got[h].body.kind # "request"
    <2>1. \A i \in 1 .. MAX_PERMS : ~ZeroRequest.permissions[i].receive
        BY DEF ZeroRequest, Request, ZeroEntry
    <2> QED
        BY <1>2, <2>1 DEF Granted, RequestOf, RequesterMayReceive
<1> QED
    BY <1>1, <1>2

(* What listen answers to a RECEIVE: an error, or what a slot holds.       *)
LEMMA AnswerReceiveEffect ==
    ASSUME IInv, NEW h \in Hsms, AnswerReceive(h)
    PROVE  /\ pc[h] = "got" /\ Doing(h, "LISTEN") /\ UNCHANGED <<store, dirty>>
           /\ \/ WritePacket(h, "ERROR", ErrorText)
              \/ WritePacket(h, "RECEIVE", FileBody(Damaged))
              \/ \E s \in Slots :
                    /\ store[h][s] \in Files
                    /\ astray \/ MayReceive(Other(h), store[h][s])
                    /\ WritePacket(h, "RECEIVE", FileBody(store[h][s]))
<1>1. pc[h] = "got" /\ Doing(h, "LISTEN") /\ UNCHANGED <<store, dirty>> /\ TypeOK
    BY DEF AnswerReceive, IInv
<1>2. PICK slot \in Slots :
         \/ Deny(h)
         \/ /\ store[h][slot] # Empty
            /\ \E group \in GroupsIn(h, slot) :
                  /\ IsStray(h) \/ Granted(h, RequestOf(h), group)
                  /\ WritePacket(h, "RECEIVE", FileBody(store[h][slot]))
    BY DEF AnswerReceive
<1> DEFINE file == store[h][slot]
<1>3. file \in Files \cup {Empty, Damaged}
    BY <1>1 DEF TypeOK
<1>4. CASE Deny(h)
    BY <1>1, <1>4 DEF Deny
<1>5. CASE file = Damaged /\ WritePacket(h, "RECEIVE", FileBody(file))
    BY <1>1, <1>5
<1>6. ASSUME file \in Files, NEW group \in GroupsIn(h, slot),
             IsStray(h) \/ Granted(h, RequestOf(h), group)
      PROVE  astray \/ MayReceive(Other(h), file)
    <2>1. group = GroupOf[file]
        BY <1>6, CommandsAssumption DEF GroupsIn, CommandsAssumption
    <2>2. IsStray(h) => astray
        BY DEF IsStray
    <2> QED
        BY <1>1, <1>6, <2>1, <2>2, GrantedMayReceive DEF OnTransfer
<1> QED
    BY <1>1, <1>2, <1>3, <1>4, <1>5, <1>6

LEMMA AnswerReceiveKeeps ==
    ASSUME IInv, NEW h \in Hsms, AnswerReceive(h)
    PROVE  IInv'
<1>1. pc[h] \in OnTransfer /\ UNCHANGED <<store, dirty>> /\ Other(h) \in Hsms
    BY AnswerReceiveEffect, OtherHsm DEF OnTransfer
<1>2. CASE WritePacket(h, "ERROR", ErrorText)
    BY <1>1, <1>2, AnswerKeeps, BodiesSent, ProperUnits DEF Opcodes
<1>3. CASE WritePacket(h, "RECEIVE", FileBody(Damaged))
    <2>1. Proper(Other(h), FileBody(Damaged))
        BY CommandsAssumption DEF Proper, Fits, FileBody, CommandsAssumption
    <2> QED
        BY <1>1, <1>3, <2>1, AnswerKeeps, BodiesSent DEF Opcodes
<1>4. ASSUME NEW f \in Files, astray \/ MayReceive(Other(h), f),
             WritePacket(h, "RECEIVE", FileBody(f))
      PROVE  IInv'
    <2>1. Proper(Other(h), FileBody(f))
        BY <1>4 DEF Proper, Fits, FileBody
    <2> QED
        BY <1>1, <1>4, <2>1, AnswerKeeps, BodiesSent DEF Opcodes
<1> QED
    BY <1>2, <1>3, <1>4, AnswerReceiveEffect

LEMMA UndefinedKeeps ==
    ASSUME IInv, NEW h \in Hsms, Undefined(h)
    PROVE  IInv'
<1>1. TypeOK /\ WireStep(h)
    BY WireSteps DEF IInv, Undefined
<1>2. /\ OthersKept(h) /\ resets' \in 0 .. MaxResets /\ dirty' \subseteq Hsms
      /\ pc'[h] = "undefined" /\ command'[h] = NoCommand /\ out'[h] = None
      /\ got'[h] = NoPacket /\ reply'[h] = reply[h] /\ store'[h] = store[h]
    BY <1>1 DEF TypeOK, OthersKept, Undefined
<1>3. Own(h)'
    BY <1>1, <1>2, MainIsOwn DEF TypeOK
<1> QED
    BY <1>1, <1>2, <1>3, StepKeeps

(* Units that come at the wrong time.                                      *)
LEMMA WrongTimeKeeps ==
    ASSUME IInv, NEW h \in Hsms, Overrun(h) \/ Skip(h) \/ Garble(h)
    PROVE  IInv'
<1>1. /\ TypeOK /\ PlaceInv(h) /\ WritingInv(h) /\ TransitInv(h)
      /\ TransitInv(Other(h))
    BY OtherHsm DEF IInv
<1>2. UNCHANGED <<store, dirty, pc, command, out, got, reply, resets>>
    BY DEF Overrun, Skip, Garble
<1>3. WireStep(h)
    <2>1. wire[h] # <<>> \/ astray => Incoming(h) # {} \/ astray
        BY DEF Incoming
    <2>2. Contents(h) # {} => Incoming(h) # {}
        BY DEF Contents
    <2>3. CASE astray
        BY <1>1, <2>3, WireSteps DEF Overrun, Skip, Garble, Take
    <2>4. CASE ~astray
        BY <1>1, <2>1, <2>2, <2>4, WireSteps DEF Overrun, Skip, Garble, Incoming
    <2> QED
        BY <2>3, <2>4
<1>4. OthersKept(h) /\ resets' \in 0 .. MaxResets /\ dirty' \subseteq Hsms
    BY <1>1, <1>2 DEF TypeOK, OthersKept
<1>5. PlaceInv(h)' /\ WritingInv(h)'
    BY <1>1, <1>2 DEF PlaceInv, WritingInv, Asking, Doing, CheckPin, Target
<1>6. Proper(Other(h), out[h])' /\ (~Doing(h, "WRITE") => Proper(h, got[h].body))'
    BY <1>1, <1>2, <1>3, OtherHsm DEF TransitInv, Proper, WireStep, Doing
<1>7. Own(h)'
    BY <1>1, <1>2, <1>5, <1>6 DEF TypeOK, Own
<1> QED
    BY <1>3, <1>4, <1>7, StepKeeps

(* A reset may drop files, but only of a store that was dirty.             *)
LEMMA ResetEffect ==
    ASSUME IInv, NEW h \in Hsms, Reset(h)
    PROVE  \E dropped \in SUBSET Slots :
              /\ h \notin dirty => dropped = {}
              /\ store' = [store EXCEPT ![h] =
                    [s \in Slots |-> IF s \in dropped THEN Empty ELSE store[h][s]]]
<1>1. PICK contents \in Store(h)!AfterReset(store[h], h \in dirty) :
         store' = [store EXCEPT ![h] = contents]
    BY DEF Reset
<1>2. PICK dropped \in IF h \in dirty THEN SUBSET Slots ELSE {{}} :
         contents = [s \in Slots |-> IF s \in dropped THEN Empty ELSE store[h][s]]
    BY DEF Store!AfterReset
<1>3. dropped \in SUBSET Slots /\ (h \notin dirty => dropped = {})
    BY <1>2
<1> QED
    BY <1>1, <1>2, <1>3

LEMMA ResetKeeps ==
    ASSUME IInv, NEW h \in Hsms, Reset(h)
    PROVE  IInv'
<1>1. TypeOK
    BY DEF IInv
<1>2. PICK dropped \in SUBSET Slots :
         store' = [store EXCEPT ![h] =
                     [s \in Slots |-> IF s \in dropped THEN Empty ELSE store[h][s]]]
    BY ResetEffect
<1>3. WireStep(h)
    <2>1. wire \in [Hsms -> Seq(Units)] /\ <<>> \in Seq(Units)
        BY <1>1, EmptySeq DEF TypeOK
    <2>2. CASE wire' = wire /\ UNCHANGED astray
        BY <1>1, <2>2, WireSteps
    <2>3. CASE wire' = [wire EXCEPT ![h] = <<>>] /\ UNCHANGED astray
        BY <1>1, <2>1, <2>3, OtherHsm DEF WireStep, TypeOK
    <2>4. CASE GoAstray
        BY <1>1, <2>4, WireSteps
    <2> QED
        BY <2>2, <2>3, <2>4 DEF Reset
<1>4. /\ OthersKept(h) /\ dirty' \subseteq Hsms
      /\ store'[h] \in [Slots -> Files \cup {Empty, Damaged}]
    BY <1>1, <1>2 DEF TypeOK, Reset, OthersKept
<1>5. /\ pc'[h] = "main" /\ command'[h] = NoCommand /\ out'[h] = None
      /\ got'[h] = NoPacket /\ reply'[h] \in Replies
    BY <1>1 DEF TypeOK, Reset, Replies
<1>6. resets' \in 0 .. MaxResets
    BY <1>1, CommandsAssumption DEF TypeOK, Reset, CommandsAssumption
<1> QED
    BY <1>3, <1>4, <1>5, <1>6, MainIsOwn, StepKeeps

-----------------------------------------------------------------------------
LEMMA InitialInv == Init => IInv
<1> SUFFICES ASSUME Init PROVE IInv
    OBVIOUS
<1>1. TypeOK
    <2>1. None \in Bodies /\ \A h \in Hsms : NoPacket \in Packets
        BY BodiesSent, ProperUnits
    <2>2. <<>> \in Seq(Units) /\ 0 \in 0 .. MaxResets
        BY CommandsAssumption, EmptySeq DEF CommandsAssumption
    <2> QED
        BY <2>1, <2>2 DEF Init, TypeOK, Places, NotReading, Replies
<1>2. ASSUME NEW h \in Hsms
      PROVE  PlaceInv(h) /\ WritingInv(h) /\ TransitInv(h)
    <2>1. pc[h] = "main" /\ ~Asking(h) /\ ~Doing(h, "WRITE")
        BY DEF Init, Asking, Doing, NoCommand
    <2>2. TransitInv(h)
        BY OtherHsm, ProperUnits DEF Init, TransitInv
    <2> QED
        BY <2>1, <2>2 DEF PlaceInv, WritingInv, OnTransfer
<1> QED
    BY <1>1, <1>2 DEF IInv

LEMMA NextKeeps == IInv /\ [Next]_vars => IInv'
<1> SUFFICES ASSUME IInv, [Next]_vars PROVE IInv'
    OBVIOUS
<1>1. CASE UNCHANGED vars
    BY <1>1 DEF vars, IInv, TypeOK, PlaceInv, WritingInv, TransitInv, Asking,
                Doing, CheckPin, Target, Proper
<1>2. ASSUME NEW h \in Hsms, Step(h)
      PROVE  IInv'
    BY <1>2, AloneKeeps, WriteKeeps, AskKeeps, ListenKeeps, HeaderAckedKeeps,
       BodyAckedKeeps, ReadHeaderKeeps, ReadBodyKeeps, MismatchKeeps,
       ReceivedKeeps, StoredKeeps, AnswerInterrogateKeeps, AnswerReceiveKeeps,
       UndefinedKeeps, WrongTimeKeeps
       DEF Step
<1>3. ASSUME NEW h \in Hsms, Overrun(h) \/ Reset(h)
      PROVE  IInv'
    BY <1>3, WrongTimeKeeps, ResetKeeps
<1>4. ASSUME NEW h \in Hsms, NEW c \in HostCommands, HostCommand(h, c)
      PROVE  IInv'
    BY <1>4, HostCommandKeeps
<1> QED
    BY <1>1, <1>2, <1>3, <1>4 DEF Next

(* The invariant holds in every reachable state.                           *)
THEOREM Inductive == Spec => []IInv
BY InitialInv, NextKeeps, PTL DEF Spec

(* Every variable keeps its type, and in the main loop nothing is left of  *)
(* the last command.                                                       *)
THEOREM TypeCorrect == Spec => []TypeOK
<1>1. IInv => TypeOK
    BY DEF IInv
<1> QED
    BY <1>1, Inductive, PTL

-----------------------------------------------------------------------------
(***************************************************************************)
(* What is stored                                                          *)
(***************************************************************************)
LEMMA StoreKept ==
    ASSUME IInv, Next
    PROVE  \/ UNCHANGED store
           \/ \E h \in Hsms : Write(h) \/ Received(h) \/ Stored(h) \/ Reset(h)
BY Zenon
   DEF Next, Step, HostCommand, Invalid, WrongPin, List, Read, Ask, Listen,
       HeaderAcked, BodyAcked, ReadHeader, ReadBody, Mismatch, Interrogated,
       AnswerInterrogate, AnswerReceive, AnswerNothing, Undefined, Skip, Garble, Overrun

LEMMA BeginAllowed ==
    ASSUME IInv, NEW h \in Hsms, Write(h) \/ Received(h),
           NEW g \in Hsms, NEW s \in Slots
    PROVE  ChangeAllowed(g, s)
<1>1. TypeOK
    BY DEF IInv
<1>2. CASE Write(h)
    <2>1. CASE UNCHANGED store
        BY <2>1 DEF ChangeAllowed
    <2>2. CASE store' = [store EXCEPT ![h] = [@ EXCEPT ![command[h].slot] = Damaged]]
        BY <1>1, <1>2, <2>2 DEF TypeOK, ChangeAllowed, Write, Dispatch
    <2> QED
        BY <1>2, <2>1, <2>2 DEF Write, WriteFile
<1>3. CASE Received(h)
    <2>1. CheckPin(h) /\ Doing(h, "RECEIVE")
        BY <1>3, Exchanging DEF Received, OnTransfer, Doing
    <2>2. store' = [store EXCEPT ![h] = [@ EXCEPT ![command[h].write_slot] = Damaged]]
        BY <1>3 DEF Received, WriteFile
    <2> QED
        BY <1>1, <2>1, <2>2 DEF TypeOK, ChangeAllowed
<1> QED
    BY <1>2, <1>3

(* A file that comes into the slot is the one write was given, or one that *)
(* was on its way to the HSM.                                              *)
LEMMA StoredFileAllowed ==
    ASSUME IInv, NEW h \in Hsms, Stored(h), got[h].body.kind = "file"
    PROVE  LET f == got[h].body.file IN
           /\ Doing(h, "WRITE") => f = command[h].file /\ MayWrite(h, f)
           /\ Doing(h, "RECEIVE") => f = Damaged \/ MayReceive(h, f) \/ astray
<1>1. WritingInv(h) /\ TransitInv(h) /\ pc[h] = "writing"
    BY DEF IInv, Stored
<1>2. CASE Doing(h, "WRITE")
    BY <1>1, <1>2 DEF WritingInv, FileBody, Doing
<1>3. CASE Doing(h, "RECEIVE")
    <2>1. Proper(h, got[h].body)
        BY <1>1, <1>3 DEF TransitInv, Doing
    <2>2. got[h].body.file \in Files \cup {Damaged}
        <3>1. got[h].body \in Bodies
            BY DEF IInv, TypeOK, Packets
        <3> QED
            BY <3>1, BodyFacts
    <2> QED
        BY <1>3, <2>1, <2>2 DEF Proper, Fits, Doing
<1> QED
    BY <1>2, <1>3

LEMMA StoredAllowed ==
    ASSUME IInv, NEW h \in Hsms, Stored(h), NEW g \in Hsms, NEW s \in Slots
    PROVE  ChangeAllowed(g, s)
<1>1. TypeOK /\ CheckPin(h) /\ command[h].op \in {"WRITE", "RECEIVE"}
    BY StoredEffect DEF IInv
<1>2. CASE UNCHANGED store
    BY <1>2 DEF ChangeAllowed
<1>3. CASE /\ got[h].body.kind = "file"
           /\ store' = [store EXCEPT ![h] = [@ EXCEPT ![Target(h)] = got[h].body.file]]
    <2>1. CASE Doing(h, "WRITE")
        <3>1. Target(h) = command[h].slot /\ MayWrite(h, got[h].body.file)
            BY <1>3, <2>1, StoredFileAllowed DEF Target
        <3> QED
            BY <1>1, <1>3, <2>1, <3>1 DEF TypeOK, ChangeAllowed
    <2>2. CASE Doing(h, "RECEIVE")
        <3>1. /\ Target(h) = command[h].write_slot
              /\ \/ got[h].body.file = Damaged \/ MayReceive(h, got[h].body.file)
                 \/ astray
            BY <1>3, <2>2, StoredFileAllowed DEF Target, Doing
        <3> QED
            BY <1>1, <1>3, <2>2, <3>1 DEF TypeOK, ChangeAllowed
    <2> QED
        BY <1>1, <2>1, <2>2 DEF Doing
<1> QED
    BY <1>2, <1>3, StoredEffect

LEMMA ResetAllowed ==
    ASSUME IInv, NEW h \in Hsms, Reset(h), NEW g \in Hsms, NEW s \in Slots
    PROVE  ChangeAllowed(g, s)
<1>1. TypeOK
    BY DEF IInv
<1>2. PICK dropped \in SUBSET Slots :
         /\ h \notin dirty => dropped = {}
         /\ store' = [store EXCEPT ![h] =
               [t \in Slots |-> IF t \in dropped THEN Empty ELSE store[h][t]]]
    BY ResetEffect
<1>3. resets' > resets
    BY <1>1 DEF Reset, TypeOK
<1> QED
    BY <1>1, <1>2, <1>3 DEF TypeOK, ChangeAllowed

(* What is stored changes only for a write or a receive with the PIN, in   *)
(* the slot that was named, and the file that comes there is one the HSM   *)
(* may write or, as long as the two HSMs have not lost their place on the  *)
(* wire, receive; a reset drops files only of a store whose table is       *)
(* unreliable.  For any number of resets, and hosts that do as they        *)
(* please; of an HSM that went beyond an array nothing is said.            *)
THEOREM OnlyAllowedStored == Spec => StoreChangesAllowed
<1>1. IInv /\ [Next]_vars => [\A h \in Hsms, s \in Slots : ChangeAllowed(h, s)]_vars
    <2> SUFFICES ASSUME IInv, Next, NEW g \in Hsms, NEW s \in Slots
                 PROVE  ChangeAllowed(g, s)
        OBVIOUS
    <2>1. CASE UNCHANGED store
        BY <2>1 DEF ChangeAllowed
    <2>2. ASSUME NEW h \in Hsms, Write(h) \/ Received(h) \/ Stored(h) \/ Reset(h)
          PROVE  ChangeAllowed(g, s)
        BY <2>2, BeginAllowed, StoredAllowed, ResetAllowed
    <2> QED
        BY <2>1, <2>2, StoreKept
<1> QED
    BY <1>1, Inductive, PTL DEF Spec, StoreChangesAllowed

-----------------------------------------------------------------------------
(***************************************************************************)
(* How the handlers use their stores                                       *)
(***************************************************************************)

(* What FileStore sees of the store of h.                                  *)
Seen(h) == <<store[h], h \in dirty, pc[h] = "writing">>

UsesStore(h) == UNCHANGED Seen(h) \/ Store(h)!Next

LEMMA WritingIsCall ==
    ASSUME NEW slot, NEW body
    PROVE  [slot |-> slot, body |-> body] # NoCommand
BY DEF NoCommand

LEMMA QuietUse ==
    ASSUME IInv, NEW h \in Hsms, Step(h) \/ Overrun(h) \/ (\E c \in HostCommands : HostCommand(h, c))
    PROVE  (\A e \in Hsms : UNCHANGED Seen(e)) \/ Write(h) \/ Received(h) \/ Stored(h)
<1>1. TypeOK
    BY DEF IInv
<1>2. ASSUME NEW type, Respond(h, type), pc[h] # "writing", UNCHANGED <<store, dirty>>
      PROVE  \A e \in Hsms : UNCHANGED Seen(e)
    BY <1>1, <1>2 DEF TypeOK, Respond, Seen
<1>3. ASSUME NEW place, NEW body, NEW packet, Goto(h, place, body, packet),
             place # "writing", pc[h] # "writing", UNCHANGED <<store, dirty>>
      PROVE  \A e \in Hsms : UNCHANGED Seen(e)
    BY <1>1, <1>3 DEF TypeOK, Goto, Seen
<1>4. ASSUME Written(h), pc[h] # "writing", UNCHANGED <<store, dirty>>
      PROVE  \A e \in Hsms : UNCHANGED Seen(e)
    BY <1>2, <1>3, <1>4 DEF Written
<1>5. CASE Invalid(h) \/ WrongPin(h) \/ List(h) \/ Read(h)
    BY <1>2, <1>5 DEF Invalid, WrongPin, List, Read, Dispatch
<1>6. CASE Mismatch(h) \/ Interrogated(h) \/ AnswerNothing(h)
    BY <1>2, <1>6 DEF Mismatch, Interrogated, AnswerNothing
<1>7. CASE Ask(h) \/ Listen(h)
    BY <1>3, <1>7 DEF Ask, Listen, Dispatch, WritePacket
<1>8. CASE HeaderAcked(h) \/ BodyAcked(h)
    BY <1>3, <1>4, <1>8 DEF HeaderAcked, BodyAcked
<1>9. CASE ReadHeader(h) \/ ReadBody(h)
    BY <1>3, <1>9 DEF ReadHeader, ReadBody
<1>10. CASE AnswerInterrogate(h) \/ AnswerReceive(h)
    BY <1>3, <1>10 DEF AnswerInterrogate, AnswerReceive, WritePacket, Deny
<1>11. CASE Skip(h) \/ Garble(h) \/ Overrun(h)
    BY <1>1, <1>11 DEF TypeOK, Skip, Garble, Overrun, Seen
<1>12. CASE \E c \in HostCommands : HostCommand(h, c)
    BY <1>1, <1>12 DEF TypeOK, HostCommand, Seen
<1>13. CASE Undefined(h)
    <2>1. pc[h] # "writing"
        BY <1>13 DEF Undefined, UnsafeCommand, UnsafeAnswer, UnsafeRequest
    <2> QED
        BY <1>1, <1>13, <2>1 DEF TypeOK, Undefined, Seen
<1> QED
    BY <1>5, <1>6, <1>7, <1>8, <1>9, <1>10, <1>11, <1>12, <1>13 DEF Step

LEMMA OthersUnused ==
    ASSUME IInv, NEW h \in Hsms, Write(h) \/ Received(h) \/ Stored(h) \/ Reset(h),
           NEW e \in Hsms, e # h
    PROVE  UNCHANGED Seen(e)
<1>1. TypeOK
    BY DEF IInv
<1>2. CASE Write(h) \/ Received(h)
    BY <1>1, <1>2 DEF TypeOK, Write, Received, WriteFile, Goto, Respond, Seen
<1>3. CASE Stored(h)
    BY <1>1, <1>3 DEF TypeOK, Stored, WriteFileDone, Respond, Seen
<1>4. CASE Reset(h)
    <2>1. store'[e] = store[e]
        BY <1>1, <1>4, ResetEffect DEF TypeOK
    <2> QED
        BY <1>1, <1>4, <2>1 DEF TypeOK, Reset, Seen
<1> QED
    BY <1>2, <1>3, <1>4

LEMMA BeginUse ==
    ASSUME IInv, IInv', NEW h \in Hsms, Write(h) \/ Received(h)
    PROVE  UsesStore(h)
<1> DEFINE Begins(slot, body) == WriteFile(h, slot, body) /\ Target(h) = slot
           call == [slot |-> Target(h)', body |-> got'[h].body]
<1>1. TypeOK /\ TypeOK' /\ pc[h] # "writing"
    BY DEF IInv, Write, Received, Dispatch
<1>2. CASE Write(h) /\ Respond(h, "ERROR") /\ UNCHANGED <<store, dirty>>
    BY <1>1, <1>2 DEF TypeOK, Respond, Seen, UsesStore
<1>3. ASSUME NEW slot \in Slots, NEW body \in Bodies, Begins(slot, body)
      PROVE  UsesStore(h)
    <2>1. /\ pc'[h] = "writing" /\ got'[h].body = body /\ Target(h)' = slot
          /\ store'[h] = [store[h] EXCEPT ![slot] = Damaged] /\ h \in dirty'
        BY <1>1, <1>3 DEF TypeOK, WriteFile, Goto, Packet, Target, Doing
    <2>2. call \in [slot : Slots, body : Bodies] /\ call.slot = slot
        BY <2>1
    <2>3. Store(h)!Begin(call)
        BY <1>1, <2>1 DEF Store!Begin
    <2> QED
        BY <2>2, <2>3 DEF Store!Next, UsesStore
<1>4. CASE /\ Write(h) /\ command[h].slot \in Slots
           /\ WriteFile(h, command[h].slot, FileBody(command[h].file))
    <2>1. /\ command[h].slot \in Slots /\ FileBody(command[h].file) \in Bodies
          /\ Target(h) = command[h].slot
        BY <1>1, <1>4, CommandFacts, BodiesSent DEF TypeOK, Write, Dispatch, Doing, Target
    <2> QED
        BY <1>3, <1>4, <2>1
<1>5. CASE Received(h)
    <2>1. /\ command[h].write_slot \in Slots /\ got[h].body \in Bodies
          /\ Target(h) = command[h].write_slot
        BY <1>1, <1>5 DEF TypeOK, Packets, Received, Doing, Target
    <2> QED
        BY <1>3, <1>5, <2>1 DEF Received
<1> QED
    BY <1>2, <1>4, <1>5 DEF Write

LEMMA StoredUse ==
    ASSUME IInv, NEW h \in Hsms, Stored(h)
    PROVE  UsesStore(h)
<1> DEFINE call == [slot |-> Target(h), body |-> got[h].body]
<1>1. TypeOK /\ pc[h] = "writing" /\ WriteFileDone(h, Target(h), command[h].op)
    BY DEF IInv, Stored
<1>2. pc'[h] = "main" /\ Target(h) \in Slots
    BY <1>1, StoredEffect, RespondOwn
<1>3. call # NoCommand
    BY WritingIsCall
<1>4. CASE /\ got[h].body.kind = "file" /\ dirty' = dirty \ {h}
           /\ store' = [store EXCEPT ![h] = [@ EXCEPT ![Target(h)] = got[h].body.file]]
    <2>1. store'[h] = [store[h] EXCEPT ![call.slot] = Content(call)] /\ h \notin dirty'
        BY <1>1, <1>4 DEF TypeOK, Content
    <2>2. Store(h)!Finish
        BY <1>1, <1>2, <1>3, <2>1 DEF Store!Finish
    <2> QED
        BY <2>2 DEF Store!Next, UsesStore
<1>5. CASE UNCHANGED store
    <2>1. Store(h)!Fail
        BY <1>1, <1>2, <1>3, <1>5 DEF Store!Fail
    <2> QED
        BY <2>1 DEF Store!Next, UsesStore
<1> QED
    BY <1>1, <1>4, <1>5 DEF WriteFileDone

LEMMA ResetUse ==
    ASSUME IInv, NEW h \in Hsms, Reset(h)
    PROVE  UsesStore(h)
<1>1. PICK contents \in Store(h)!AfterReset(store[h], h \in dirty) :
         store' = [store EXCEPT ![h] = contents]
    BY DEF Reset
<1>2. store'[h] \in Store(h)!AfterReset(store[h], h \in dirty)
    BY <1>1 DEF IInv, TypeOK
<1>3. pc'[h] = "main" /\ h \notin dirty'
    BY DEF IInv, TypeOK, Reset
<1>4. Store(h)!Reset
    BY <1>2, <1>3 DEF Store!Reset
<1> QED
    BY <1>4 DEF Store!Next, UsesStore

(* The handlers of each HSM use its store as FileStore has it, so what     *)
(* FileSystem is proved to promise is what they rely on: one write at a    *)
(* time, begun before it is done, and whatever a reset leaves.             *)
THEOREM StoreIsFileStore == Spec => StoresUsed
<1>1. IInv /\ IInv' /\ [Next]_vars =>
         [\A h \in Hsms :
             \/ UNCHANGED <<store[h], h \in dirty, pc[h] = "writing">>
             \/ Store(h)!Next]_vars
    <2> SUFFICES ASSUME IInv, IInv', Next, NEW g \in Hsms
                 PROVE  UsesStore(g)
        BY DEF UsesStore, Seen
    <2>1. PICK h \in Hsms :
             \/ Step(h) \/ Overrun(h) \/ (\E c \in HostCommands : HostCommand(h, c))
             \/ Reset(h)
        BY DEF Next
    <2>2. CASE \A e \in Hsms : UNCHANGED Seen(e)
        BY <2>2 DEF UsesStore
    <2>3. CASE Write(h) \/ Received(h) \/ Stored(h) \/ Reset(h)
        <3>1. UsesStore(h)
            BY <2>3, BeginUse, StoredUse, ResetUse
        <3> QED
            BY <2>3, <3>1, OthersUnused DEF UsesStore
    <2> QED
        BY <2>1, <2>2, <2>3, QuietUse
<1> QED
    BY <1>1, Inductive, PTL DEF Spec, StoresUsed
=============================================================================
