---------------------------- MODULE InStep_proofs ----------------------------
(***************************************************************************)
(* Two HSMs whose hosts agree who listens and who asks and name slots of   *)
(* the table, and that are not reset and have no flash errors, stay in     *)
(* step, for any files, slots, permissions and PINs.                       *)
(***************************************************************************)
EXTENDS Commands_proofs

-----------------------------------------------------------------------------
(***************************************************************************)
(* The course of an exchange of an asker a with a listener l, in the order *)
(* in which it goes.                                                       *)
(***************************************************************************)

(* Not at the transfer wire, and not about to ask.                         *)
Free(h) ==
    \/ pc[h] \in {"main", "writing"}
    \/ pc[h] = "dispatch" /\ ~Asking(h)
    \/ pc[h] = "got" /\ Asking(h)

Idle(a, l) ==
    /\ Free(a) /\ Free(l)
    /\ ~(Doing(a, "LISTEN") /\ Doing(l, "LISTEN"))
    /\ wire[a] = <<>> /\ wire[l] = <<>>

Waited(a, l) ==
    /\ Free(a) \/ (pc[a] = "dispatch" /\ Asking(a))
    /\ ~Doing(a, "LISTEN") /\ Listening(l)
    /\ wire[a] = <<>>

(* In an exchange.                                                         *)
Meet(a, l) ==
    /\ Asking(a) /\ Doing(l, "LISTEN")
    /\ pc[l] \in {"got", "readBody"} => got[l].cmd = command[a].op

(* An answer to op.                                                        *)
Answers(op, cmd, body) ==
    /\ op = "INTERROGATE" => body.kind # "file"
    /\ cmd = "RECEIVE" => body.kind = "file"

Asked(a, l) ==
    /\ Meet(a, l)
    /\ pc[a] = "headerAck" /\ wire[a] = <<>>
    /\ pc[l] = "readHeader" /\ wire[l] = <<Header(command[a].op, out[a])>>
    /\ ~TooLongForListen(out[a])

Accepted(a, l) ==
    /\ Meet(a, l)
    /\ pc[a] = "headerAck" /\ wire[a] = <<Ack>> /\ out[a] # None
    /\ pc[l] = "readBody" /\ wire[l] = <<>>

Requested(a, l) ==
    /\ Meet(a, l)
    /\ pc[a] = "bodyAck" /\ wire[a] = <<>>
    /\ pc[l] = "readBody" /\ wire[l] = <<out[a]>>

(* The asker has yet to take the last acknowledgement, or has, while the   *)
(* listener looks for an answer, or has sent the header of it.             *)
LastAck(a) == pc[a] = "bodyAck" \/ (pc[a] = "headerAck" /\ out[a] = None)

Looked(a, l) ==
    /\ Meet(a, l)
    /\ \/ LastAck(a) /\ wire[a] = <<Ack>>
       \/ pc[a] = "readHeader" /\ wire[a] = <<>>
    /\ pc[l] = "got" /\ wire[l] = <<>>

Answered(a, l) ==
    /\ Meet(a, l)
    /\ \E cmd \in Opcodes \ {"ACK"} :
          /\ Answers(command[a].op, cmd, out[l])
          /\ \/ LastAck(a) /\ wire[a] = <<Ack, Header(cmd, out[l])>>
             \/ pc[a] = "readHeader" /\ wire[a] = <<Header(cmd, out[l])>>
    /\ pc[l] = "headerAck" /\ wire[l] = <<>> /\ out[l] # None

Awaited(a, l) ==
    /\ Meet(a, l) /\ Answers(command[a].op, got[a].cmd, out[l])
    /\ pc[a] = "readBody" /\ wire[a] = <<>>
    /\ pc[l] = "headerAck" /\ wire[l] = <<Ack>> /\ out[l] # None

Delivered(a, l) ==
    /\ Meet(a, l) /\ Answers(command[a].op, got[a].cmd, out[l])
    /\ pc[a] = "readBody" /\ wire[a] = <<out[l]>>
    /\ pc[l] = "bodyAck" /\ wire[l] = <<>>

(* The asker may be done, and at another command, before the listener is.  *)
Parting(a, l) ==
    /\ Free(a) /\ ~Doing(a, "LISTEN") /\ Doing(l, "LISTEN")
    /\ wire[a] = <<>>
    /\ pc[l] = "bodyAck" /\ wire[l] = <<Ack>>

Together(a, l) ==
    \/ Idle(a, l) \/ Waited(a, l)
    \/ Asked(a, l) \/ Accepted(a, l) \/ Requested(a, l)
    \/ Looked(a, l) \/ Answered(a, l) \/ Awaited(a, l) \/ Delivered(a, l)
    \/ Parting(a, l)

StepInv == \E a \in Hsms : Together(a, Other(a))

(***************************************************************************)
(* What keeps an HSM within its arrays: commands and requests name slots   *)
(* of the table, no slot is damaged but the one being written, no damaged  *)
(* file is on its way, and an answer that was read is one to the request.  *)
(***************************************************************************)
NamesSlots(c) ==
    /\ c.op \in {"READ", "WRITE"} => c.slot \in Slots
    /\ c.op = "RECEIVE" => c.read_slot \in Slots /\ c.write_slot \in Slots

Sound(body) ==
    /\ body.kind = "file" => body.file # Damaged
    /\ body.kind = "request" => body.slot \in Slots

SoundInv(h) ==
    /\ NamesSlots(command[h])
    /\ \A s \in Slots :
          store[h][s] = Damaged => pc[h] = "writing" /\ s = Target(h)
    /\ Sound(out[h]) /\ Sound(got[h].body)
    /\ pc[h] = "got" /\ Asking(h) => Answers(command[h].op, got[h].cmd, got[h].body)
    /\ pc[h] = "writing" => got[h].body.kind = "file"

AllSound == \A h \in Hsms : SoundInv(h)

-----------------------------------------------------------------------------
(***************************************************************************)
(* Where each of the two may be                                            *)
(***************************************************************************)
LEMMA AskerAt ==
    ASSUME NEW a \in Hsms, NEW l \in Hsms, Together(a, l)
    PROVE  /\ pc[a] \in {"main", "writing", "dispatch", "got"} =>
                 Idle(a, l) \/ Waited(a, l) \/ Parting(a, l)
           /\ pc[a] = "readHeader" => Looked(a, l) \/ Answered(a, l)
           /\ pc[a] = "headerAck" =>
                 Asked(a, l) \/ Accepted(a, l) \/ Looked(a, l) \/ Answered(a, l)
           /\ pc[a] = "bodyAck" => Requested(a, l) \/ Looked(a, l) \/ Answered(a, l)
           /\ pc[a] = "readBody" => Awaited(a, l) \/ Delivered(a, l)
           /\ pc[a] # "undefined"
BY DEF Together, Idle, Waited, Asked, Accepted, Requested, Looked, Answered, Awaited,
       Delivered, Parting, Free, LastAck

LEMMA ListenerAt ==
    ASSUME NEW a \in Hsms, NEW l \in Hsms, Together(a, l)
    PROVE  /\ pc[l] \in {"main", "writing", "dispatch"} => Idle(a, l)
           /\ pc[l] = "got" => Idle(a, l) \/ Looked(a, l)
           /\ pc[l] = "readHeader" => Waited(a, l) \/ Asked(a, l)
           /\ pc[l] = "readBody" => Accepted(a, l) \/ Requested(a, l)
           /\ pc[l] = "headerAck" => Answered(a, l) \/ Awaited(a, l)
           /\ pc[l] = "bodyAck" => Delivered(a, l) \/ Parting(a, l)
           /\ pc[l] # "undefined"
BY DEF Together, Idle, Waited, Asked, Accepted, Requested, Looked, Answered, Awaited,
       Delivered, Parting, Free, Listening

(* The wires are short.                                                    *)
LEMMA ShortWires ==
    ASSUME NEW x, NEW y
    PROVE  /\ <<x>> # <<>> /\ Head(<<x>>) = x /\ Tail(<<x>>) = <<>>
           /\ <<x, y>> # <<>> /\ Head(<<x, y>>) = x /\ Tail(<<x, y>>) = <<y>>
           /\ Append(<<>>, x) = <<x>> /\ Append(<<x>>, y) = <<x, y>>
<1> DEFINE longer == Append(<<x>>, y)
           both == <<x, y>>
<1>1. longer \in Seq({x, y}) /\ Len(longer) = 2 /\ longer[1] = x /\ longer[2] = y
    <2>1. <<x>> \in Seq({x, y}) /\ Len(<<x>>) = 1 /\ <<x>>[1] = x
        OBVIOUS
    <2> QED
        BY <2>1
<1>2. both \in Seq({x, y}) /\ Len(both) = 2 /\ both[1] = x /\ both[2] = y
    OBVIOUS
<1> HIDE DEF longer, both
<1>3. \A i \in 1 .. Len(longer) : longer[i] = both[i]
    BY <1>1, <1>2
<1>4. longer = both
    BY <1>1, <1>2, <1>3, SeqEqual
<1> QED
    BY <1>4 DEF longer, both

LEMMA WireFrame ==
    ASSUME TypeOK, ~astray, NEW h \in Hsms
    PROVE  /\ Take(h) => wire'[h] = Tail(wire[h]) /\ wire'[Other(h)] = wire[Other(h)]
           /\ \A u : /\ Send(h, u) => /\ wire'[h] = wire[h]
                                      /\ wire'[Other(h)] = Append(wire[Other(h)], u)
                     /\ TakeAndSend(h, u) => /\ wire'[h] = Tail(wire[h])
                                             /\ wire'[Other(h)] = Append(wire[Other(h)], u)
BY OtherHsm DEF TypeOK, Take, Send, TakeAndSend

LEMMA GotoFrame ==
    ASSUME TypeOK, NEW h \in Hsms, NEW place, NEW body, NEW packet,
           Goto(h, place, body, packet)
    PROVE  /\ pc'[h] = place /\ out'[h] = body /\ got'[h] = packet
           /\ \A g \in Hsms \ {h} : pc'[g] = pc[g] /\ out'[g] = out[g] /\ got'[g] = got[g]
           /\ command' = command
BY DEF TypeOK, Goto

LEMMA RespondFrame ==
    ASSUME TypeOK, NEW h \in Hsms, NEW type, Respond(h, type)
    PROVE  /\ pc'[h] = "main" /\ command'[h] = NoCommand /\ got'[h] = NoPacket
           /\ \A g \in Hsms \ {h} :
                 pc'[g] = pc[g] /\ out'[g] = out[g] /\ got'[g] = got[g] /\ command'[g] = command[g]
BY DEF TypeOK, Respond

(* The effect of a step of h in an exchange with g.                        *)
Moves(h, g, place, body, packet) ==
    /\ pc'[h] = place /\ out'[h] = body /\ got'[h] = packet
    /\ pc'[g] = pc[g] /\ out'[g] = out[g] /\ got'[g] = got[g]
    /\ command' = command

LEMMA GotoMoves ==
    ASSUME TypeOK, NEW h \in Hsms, NEW g \in Hsms, g # h,
           NEW place, NEW body, NEW packet, Goto(h, place, body, packet)
    PROVE  Moves(h, g, place, body, packet)
BY GotoFrame DEF Moves

LEMMA TakeOne ==
    ASSUME TypeOK, ~astray, NEW h \in Hsms, NEW g \in Hsms, g = Other(h),
           NEW x, wire[h] = <<x>>
    PROVE  /\ Head(wire[h]) = x
           /\ Take(h) => wire'[h] = <<>> /\ wire'[g] = wire[g]
           /\ \A u : TakeAndSend(h, u) /\ wire[g] = <<>> => wire'[h] = <<>> /\ wire'[g] = <<u>>
<1>1. Tail(wire[h]) = <<>> /\ Head(wire[h]) = x
    BY ShortWires
<1>2. \A u : Append(<<>>, u) = <<u>>
    BY ShortWires
<1> QED
    BY <1>1, <1>2, WireFrame

LEMMA TakeFirst ==
    ASSUME TypeOK, ~astray, NEW h \in Hsms, NEW g \in Hsms, g = Other(h),
           NEW x, NEW y, wire[h] = <<x, y>>, Take(h)
    PROVE  wire'[h] = <<y>> /\ wire'[g] = wire[g]
<1>1. Tail(wire[h]) = <<y>>
    BY ShortWires
<1> QED
    BY <1>1, WireFrame

LEMMA HeaderFacts ==
    /\ Ack.kind = "header" /\ Ack.cmd = "ACK"
    /\ \A cmd, body : /\ Header(cmd, body).kind = "header" /\ Header(cmd, body).cmd = cmd
                      /\ Header(cmd, body).empty = (body = None)
                      /\ Header(cmd, body).long = TooLongForListen(body)
                      /\ Packet(cmd, body).cmd = cmd /\ Packet(cmd, body).body = body
BY DEF Ack, Header, Packet

-----------------------------------------------------------------------------
(***************************************************************************)
(* Commands an HSM handles on its own, and the begin of an exchange        *)
(***************************************************************************)
LEMMA IdleEitherWay ==
    ASSUME NEW a \in Hsms, NEW l \in Hsms
    PROVE  Idle(a, l) => Idle(l, a)
BY DEF Idle

(* A step at a command of its own.                                         *)
LEMMA Sides ==
    ASSUME StepInv
    PROVE  \E a, l \in Hsms :
              /\ Together(a, l) /\ a # l /\ l = Other(a) /\ a = Other(l)
              /\ \A g \in Hsms : g = a \/ g = l
BY OtherHsm DEF StepInv

LEMMA Onward ==
    ASSUME NEW a \in Hsms, NEW l \in Hsms, l = Other(a), Together(a, l)'
    PROVE  StepInv'
BY DEF StepInv, Together, Idle, Waited, Asked, Accepted, Requested, Looked, Answered,
       Awaited, Delivered, Parting, Listening, Meet, Free, LastAck, Asking, Doing

LEMMA FreeStep ==
    ASSUME StepInv, NEW h \in Hsms,
           pc[h] \in {"main", "dispatch", "writing"} \/ (pc[h] = "got" /\ Asking(h)),
           UNCHANGED wire, Free(h)',
           Doing(h, "LISTEN")' => Doing(h, "LISTEN") \/ ~Doing(Other(h), "LISTEN"),
           \A g \in Hsms \ {h} :
              pc'[g] = pc[g] /\ out'[g] = out[g] /\ got'[g] = got[g] /\ command'[g] = command[g]
    PROVE  StepInv'
<1>1. PICK a, l \in Hsms :
         /\ Together(a, l) /\ a # l /\ l = Other(a) /\ a = Other(l)
         /\ \A g \in Hsms : g = a \/ g = l
    BY Sides
<1>3. CASE h = a
    <2>1. Idle(a, l) \/ Waited(a, l) \/ Parting(a, l)
        BY <1>1, <1>3, AskerAt
    <2>2. /\ pc'[l] = pc[l] /\ out'[l] = out[l] /\ got'[l] = got[l] /\ command'[l] = command[l]
          /\ Free(a)' /\ (Doing(a, "LISTEN")' => Doing(a, "LISTEN") \/ ~Doing(l, "LISTEN"))
        BY <1>1, <1>3
    <2>3. Idle(a, l)' \/ Waited(a, l)' \/ Parting(a, l)'
        <3>1. CASE Idle(a, l)
            BY <2>2, <3>1 DEF Idle, Free, Asking, Doing
        <3>2. CASE Waited(a, l)
            BY <2>2, <3>2 DEF Waited, Listening, Doing
        <3>3. CASE Parting(a, l)
            BY <2>2, <3>3 DEF Parting, Doing
        <3> QED
            BY <2>1, <3>1, <3>2, <3>3
    <2> QED
        BY <1>1, <2>3, Onward DEF Together
<1>4. CASE h = l
    <2>1. Idle(a, l)
        <3>1. ~Looked(a, l)
            BY <1>4 DEF Looked, Meet, Asking, Doing
        <3> QED
            BY <1>1, <1>4, <3>1, ListenerAt
    <2>2. /\ pc'[a] = pc[a] /\ out'[a] = out[a] /\ got'[a] = got[a] /\ command'[a] = command[a]
          /\ Free(l)' /\ (Doing(l, "LISTEN")' => Doing(l, "LISTEN") \/ ~Doing(a, "LISTEN"))
        BY <1>1, <1>4
    <2>3. Idle(a, l)'
        BY <2>1, <2>2 DEF Idle, Free, Asking, Doing
    <2> QED
        BY <1>1, <2>3, Onward DEF Together
<1> QED
    BY <1>1, <1>3, <1>4

LEMMA RespondStep ==
    ASSUME IInv, StepInv, NEW h \in Hsms, NEW type, Respond(h, type),
           pc[h] \in {"dispatch", "writing"} \/ (pc[h] = "got" /\ Asking(h)),
           UNCHANGED wire
    PROVE  StepInv'
<1>1. Free(h)' /\ ~Doing(h, "LISTEN")'
    BY RespondFrame DEF IInv, Free, Doing, NoCommand
<1> QED
    BY <1>1, FreeStep, RespondFrame DEF IInv

LEMMA WriteFileStep ==
    ASSUME IInv, StepInv, NEW h \in Hsms, NEW slot, NEW body, WriteFile(h, slot, body),
           pc[h] = "dispatch" \/ (pc[h] = "got" /\ Asking(h)), UNCHANGED wire
    PROVE  StepInv'
<1>1. Goto(h, "writing", None, Packet(got[h].cmd, body))
    BY DEF WriteFile
<1>2. Free(h)' /\ (Doing(h, "LISTEN")' => Doing(h, "LISTEN"))
    BY <1>1, GotoFrame DEF IInv, Free, Doing
<1> QED
    BY <1>1, <1>2, FreeStep, GotoFrame DEF IInv

LEMMA AloneStep ==
    ASSUME IInv, StepInv, NEW h \in Hsms,
           \/ Invalid(h) \/ WrongPin(h) \/ List(h) \/ Read(h) \/ Write(h)
           \/ Mismatch(h) \/ Interrogated(h) \/ Received(h) \/ Stored(h)
    PROVE  StepInv'
<1>1. CASE Invalid(h) \/ WrongPin(h) \/ List(h) \/ Read(h)
    BY <1>1, RespondStep DEF Invalid, WrongPin, List, Read, Dispatch
<1>2. CASE Mismatch(h) \/ Interrogated(h)
    BY <1>2, RespondStep DEF Mismatch, Interrogated, Asking
<1>3. CASE Stored(h)
    BY <1>3, RespondStep DEF Stored, WriteFileDone
<1>4. CASE Write(h)
    BY <1>4, RespondStep, WriteFileStep DEF Write, Dispatch
<1>5. CASE Received(h)
    BY <1>5, WriteFileStep DEF Received, Asking
<1> QED
    BY <1>1, <1>2, <1>3, <1>4, <1>5

(* The hosts agree who listens and who asks.                               *)
LEMMA HostCommandStep ==
    ASSUME Coordinated = TRUE, IInv, StepInv, NEW h \in Hsms,
           NEW c \in HostCommands, HostCommand(h, c)
    PROVE  StepInv'
<1>1. /\ pc[h] = "main" /\ pc'[h] = "dispatch" /\ command'[h] = c
      /\ out'[h] = out[h] /\ UNCHANGED wire
      /\ \A g \in Hsms \ {h} :
            pc'[g] = pc[g] /\ out'[g] = out[g] /\ got'[g] = got[g] /\ command'[g] = command[g]
    BY DEF IInv, TypeOK, HostCommand
<1>2. CASE c.op \in {"RECEIVE", "INTERROGATE"}
    <2>1. Listening(Other(h))
        BY <1>2 DEF HostCommand, HostMay
    <2>2. PICK a, l \in Hsms :
             /\ Together(a, l) /\ a # l /\ l = Other(a) /\ a = Other(l)
             /\ \A g \in Hsms : g = a \/ g = l
        BY Sides
    <2>3. CASE h = a
        <3>1. Waited(a, l)
            <4>1. ~Idle(a, l) /\ ~Parting(a, l)
                BY <2>1, <2>2, <2>3 DEF Idle, Parting, Free, Listening
            <4> QED
                BY <1>1, <2>2, <2>3, <4>1, AskerAt
        <3>2. Waited(a, l)'
            BY <1>1, <1>2, <2>2, <2>3, <3>1 DEF Waited, Listening, Asking, Doing
        <3> QED
            BY <2>2, <3>2, Onward DEF Together
    <2>4. CASE h = l
        BY <1>1, <2>1, <2>2, <2>4, ListenerAt DEF Idle, Free, Listening
    <2> QED
        BY <2>2, <2>3, <2>4
<1>3. CASE c.op \notin {"RECEIVE", "INTERROGATE"}
    <2>1. Free(h)'
        BY <1>1, <1>3 DEF Free, Asking, Doing
    <2>2. Doing(h, "LISTEN")' => ~Doing(Other(h), "LISTEN")
        BY <1>1 DEF HostCommand, HostMay, Doing
    <2> QED
        BY <1>1, <2>1, <2>2, FreeStep
<1> QED
    BY <1>2, <1>3

LEMMA ListenStep ==
    ASSUME IInv, StepInv, NEW h \in Hsms, Listen(h)
    PROVE  StepInv'
<1>1. PICK a, l \in Hsms :
         /\ Together(a, l) /\ a # l /\ l = Other(a) /\ a = Other(l)
         /\ \A g \in Hsms : g = a \/ g = l
    BY Sides
<1>2. /\ pc[h] = "dispatch" /\ Doing(h, "LISTEN") /\ UNCHANGED wire
      /\ Goto(h, "readHeader", None, NoPacket)
    BY DEF Listen, Dispatch
<1>3. Idle(h, Other(h))
    <2>1. CASE h = a
        <3>1. ~Waited(a, l) /\ ~Parting(a, l)
            BY <1>2, <2>1 DEF Waited, Parting
        <3> QED
            BY <1>1, <1>2, <2>1, <3>1, AskerAt
    <2>2. CASE h = l
        BY <1>1, <1>2, <2>2, ListenerAt, IdleEitherWay
    <2> QED
        BY <1>1, <2>1, <2>2
<1>4. Waited(Other(h), h)'
    BY <1>2, <1>3, GotoFrame, OtherHsm
       DEF IInv, Idle, Waited, Free, Listening, Asking, Doing
<1> QED
    BY <1>4, OtherHsm, Onward DEF Together

LEMMA AskStep ==
    ASSUME IInv, StepInv, ~astray, NEW h \in Hsms, Ask(h)
    PROVE  StepInv'
<1> DEFINE body == IF Doing(h, "RECEIVE")
                   THEN Request(command[h].read_slot, global_permissions[h])
                   ELSE None
<1>1. PICK a, l \in Hsms :
         /\ Together(a, l) /\ a # l /\ l = Other(a) /\ a = Other(l)
         /\ \A g \in Hsms : g = a \/ g = l
    BY Sides
<1>2. /\ pc[h] = "dispatch" /\ Asking(h)
      /\ Send(h, Header(command[h].op, body)) /\ Goto(h, "headerAck", body, NoPacket)
    BY DEF Ask, Dispatch, WritePacket, Asking, Doing
<1>3. ~TooLongForListen(body)
    BY DEF TooLongForListen, Request, None
<1> HIDE DEF body
<1>4. CASE h = a
    <2>1. ~Idle(a, l) /\ ~Parting(a, l)
        BY <1>2, <1>4 DEF Idle, Parting, Free
    <2>2. Waited(a, l)
        BY <1>1, <1>2, <1>4, <2>1, AskerAt
    <2>3. /\ wire'[a] = <<>> /\ wire'[l] = <<Header(command[a].op, body)>>
          /\ command' = command /\ pc'[a] = "headerAck" /\ out'[a] = body
          /\ pc'[l] = pc[l]
        BY <1>1, <1>2, <1>4, <2>2, WireFrame, GotoFrame, ShortWires
           DEF IInv, Waited, Listening
    <2>4. Asked(a, l)'
        BY <1>2, <1>3, <1>4, <2>2, <2>3 DEF Asked, Meet, Waited, Listening, Asking, Doing
    <2> QED
        BY <1>1, <2>4, Onward DEF Together
<1>5. CASE h = l
    <2>1. ~Idle(a, l)
        BY <1>2, <1>5 DEF Idle, Free
    <2> QED
        BY <1>1, <1>2, <1>5, <2>1, ListenerAt
<1> QED
    BY <1>1, <1>4, <1>5

-----------------------------------------------------------------------------
(***************************************************************************)
(* The steps of an exchange                                                *)
(***************************************************************************)
(* The asker takes the last acknowledgement.                               *)
LEMMA LastAckTaken ==
    ASSUME TypeOK, ~astray, NEW a \in Hsms, NEW l \in Hsms, a # l, l = Other(a),
           pc[a] \in {"headerAck", "bodyAck"}, Looked(a, l) \/ Answered(a, l),
           Take(a), Goto(a, "readHeader", None, NoPacket)
    PROVE  StepInv'
<1>1. Moves(a, l, "readHeader", None, NoPacket)
    BY GotoMoves
<1>2. CASE Looked(a, l)
    <2>1. wire'[a] = <<>> /\ wire'[l] = wire[l]
        BY <1>2, TakeOne DEF Looked
    <2>2. Looked(a, l)'
        BY <1>1, <1>2, <2>1 DEF Moves, Looked, Meet, Asking, Doing
    <2> QED
        BY <2>2, Onward DEF Together
<1>3. CASE Answered(a, l)
    <2>1. PICK cmd \in Opcodes \ {"ACK"} :
             /\ wire[a] = <<Ack, Header(cmd, out[l])>>
             /\ Answers(command[a].op, cmd, out[l])
        BY <1>3 DEF Answered
    <2>2. wire'[a] = <<Header(cmd, out[l])>> /\ wire'[l] = wire[l]
        BY <2>1, TakeFirst
    <2>3. Answered(a, l)'
        BY <1>1, <1>3, <2>1, <2>2 DEF Moves, Answered, Meet, Asking, Doing
    <2> QED
        BY <2>3, Onward DEF Together
<1> QED
    BY <1>2, <1>3

LEMMA HeaderAckedStep ==
    ASSUME IInv, StepInv, ~astray, NEW h \in Hsms, HeaderAcked(h)
    PROVE  StepInv'
<1>1. PICK a, l \in Hsms :
         /\ Together(a, l) /\ a # l /\ l = Other(a) /\ a = Other(l)
         /\ \A g \in Hsms : g = a \/ g = l
    BY Sides
<1>2. TypeOK /\ pc[h] = "headerAck" /\ wire[h] # <<>>
    BY ReadsHead DEF IInv, HeaderAcked, Headers
<1>0. \/ /\ Head(wire[h]) = Ack /\ out[h] # None
         /\ TakeAndSend(h, out[h])
         /\ Goto(h, "bodyAck", out[h], NoPacket)
      \/ /\ ~(Head(wire[h]) = Ack /\ out[h] # None)
         /\ Take(h)
         /\ Written(h)
    BY <1>2, ReadsHead DEF HeaderAcked, Headers
<1>3. CASE h = a /\ Accepted(a, l)
    <2>1. wire[a] = <<Ack>> /\ wire[l] = <<>> /\ out[a] # None /\ Head(wire[a]) = Ack
        BY <1>1, <1>2, <1>3, TakeOne DEF Accepted
    <2>2. TakeAndSend(a, out[a]) /\ Goto(a, "bodyAck", out[a], NoPacket)
        BY <1>0, <1>3, <2>1
    <2>3. /\ Moves(a, l, "bodyAck", out[a], NoPacket)
          /\ wire'[a] = <<>> /\ wire'[l] = <<out[a]>>
        BY <1>1, <1>2, <2>1, <2>2, TakeOne, GotoMoves
    <2>4. Requested(a, l)'
        BY <1>3, <2>3 DEF Moves, Accepted, Requested, Meet, Asking, Doing
    <2> QED
        BY <1>1, <2>4, Onward DEF Together
<1>4. CASE h = a /\ (Looked(a, l) \/ Answered(a, l))
    <2>1. out[a] = None /\ Asking(a)
        BY <1>2, <1>4 DEF Looked, Answered, LastAck, Meet
    <2>2. Take(a) /\ Goto(a, "readHeader", None, NoPacket)
        BY <1>0, <1>4, <2>1 DEF Written
    <2> QED
        BY <1>1, <1>2, <1>4, <2>2, LastAckTaken
<1>5. CASE h = l /\ Awaited(a, l)
    <2>1. wire[l] = <<Ack>> /\ wire[a] = <<>> /\ out[l] # None /\ Head(wire[l]) = Ack
        BY <1>1, <1>2, <1>5, TakeOne DEF Awaited
    <2>2. TakeAndSend(l, out[l]) /\ Goto(l, "bodyAck", out[l], NoPacket)
        BY <1>0, <1>5, <2>1
    <2>3. /\ Moves(l, a, "bodyAck", out[l], NoPacket)
          /\ wire'[l] = <<>> /\ wire'[a] = <<out[l]>>
        BY <1>1, <1>2, <2>1, <2>2, TakeOne, GotoMoves
    <2>4. Delivered(a, l)'
        BY <1>5, <2>3 DEF Moves, Awaited, Delivered, Meet, Asking, Doing
    <2> QED
        BY <1>1, <2>4, Onward DEF Together
<1>6. CASE h = a
    <2>1. ~Asked(a, l)
        BY <1>2, <1>6 DEF Asked
    <2> QED
        BY <1>1, <1>2, <1>3, <1>4, <1>6, <2>1, AskerAt
<1>7. CASE h = l
    <2>1. ~Answered(a, l)
        BY <1>2, <1>7 DEF Answered
    <2> QED
        BY <1>1, <1>2, <1>5, <1>7, <2>1, ListenerAt
<1> QED
    BY <1>1, <1>6, <1>7

LEMMA BodyAckedStep ==
    ASSUME IInv, StepInv, ~astray, NEW h \in Hsms, BodyAcked(h)
    PROVE  StepInv'
<1>1. PICK a, l \in Hsms :
         /\ Together(a, l) /\ a # l /\ l = Other(a) /\ a = Other(l)
         /\ \A g \in Hsms : g = a \/ g = l
    BY Sides
<1>2. TypeOK /\ pc[h] = "bodyAck" /\ wire[h] # <<>> /\ Take(h) /\ Written(h)
    BY ReadsHead DEF IInv, BodyAcked, Headers
<1>3. CASE h = a /\ (Looked(a, l) \/ Answered(a, l))
    <2>1. Goto(a, "readHeader", None, NoPacket)
        BY <1>2, <1>3 DEF Written, Looked, Answered, Meet
    <2> QED
        BY <1>1, <1>2, <1>3, <2>1, LastAckTaken
<1>4. CASE h = l /\ Parting(a, l)
    <2>1. Respond(l, "LISTEN")
        BY <1>2, <1>4 DEF Written, Parting, Asking, Doing
    <2>2. wire'[l] = <<>> /\ wire'[a] = <<>>
        BY <1>1, <1>2, <1>4, TakeOne DEF Parting
    <2>3. Idle(a, l)'
        BY <1>1, <1>2, <1>4, <2>1, <2>2, RespondFrame
           DEF Parting, Idle, Free, Asking, Doing, NoCommand
    <2> QED
        BY <1>1, <2>3, Onward DEF Together
<1>5. CASE h = a
    <2>1. ~Requested(a, l)
        BY <1>2, <1>5 DEF Requested
    <2> QED
        BY <1>1, <1>2, <1>3, <1>5, <2>1, AskerAt
<1>6. CASE h = l
    <2>1. ~Delivered(a, l)
        BY <1>2, <1>6 DEF Delivered
    <2> QED
        BY <1>1, <1>2, <1>4, <1>6, <2>1, ListenerAt
<1> QED
    BY <1>1, <1>5, <1>6

LEMMA ReadHeaderStep ==
    ASSUME IInv, StepInv, ~astray, NEW h \in Hsms, ReadHeader(h)
    PROVE  StepInv'
<1> DEFINE header == Head(wire[h])
<1>1. PICK a, l \in Hsms :
         /\ Together(a, l) /\ a # l /\ l = Other(a) /\ a = Other(l)
         /\ \A g \in Hsms : g = a \/ g = l
    BY Sides
<1>2. TypeOK /\ pc[h] = "readHeader" /\ wire[h] # <<>>
    BY ReadsHead DEF IInv, ReadHeader, Headers
<1>3. ASSUME header.cmd # "ACK", ~(Doing(h, "LISTEN") /\ header.long)
      PROVE  /\ TakeAndSend(h, Ack)
             /\ Goto(h, IF header.empty THEN "got" ELSE "readBody", None,
                     Packet(header.cmd, None))
    BY <1>2, <1>3, ReadsHead DEF ReadHeader, Headers
<1>4. CASE h = l /\ Asked(a, l)
    <2>1. header = Header(command[a].op, out[a]) /\ command[a].op \in {"INTERROGATE", "RECEIVE"}
        <3>1. wire[l] = <<Header(command[a].op, out[a])>>
            BY <1>4 DEF Asked
        <3>2. header = Header(command[a].op, out[a])
            BY <1>1, <1>2, <1>4, <3>1, TakeOne
        <3> QED
            BY <1>4, <3>2 DEF Asked, Meet, Asking, Doing
    <2>2. /\ header.cmd = command[a].op /\ header.empty = (out[a] = None)
          /\ ~header.long
        BY <1>4, <2>1, HeaderFacts DEF Asked
    <2> HIDE DEF header
    <2>3. /\ TakeAndSend(l, Ack)
          /\ Goto(l, IF out[a] = None THEN "got" ELSE "readBody", None,
                  Packet(command[a].op, None))
        BY <1>3, <1>4, <2>1, <2>2
    <2>4. /\ wire'[l] = <<>> /\ wire'[a] = <<Ack>>
          /\ command' = command /\ got'[l].cmd = command[a].op
          /\ pc'[a] = "headerAck" /\ out'[a] = out[a]
          /\ pc'[l] = IF out[a] = None THEN "got" ELSE "readBody"
        <3>1. Moves(l, a, IF out[a] = None THEN "got" ELSE "readBody", None,
                    Packet(command[a].op, None))
            BY <1>1, <1>2, <2>3, GotoMoves
        <3>2. wire[l] = <<Header(command[a].op, out[a])>> /\ wire[a] = <<>>
            BY <1>4 DEF Asked
        <3>3. wire'[l] = <<>> /\ wire'[a] = <<Ack>>
            BY <1>1, <1>2, <2>3, <3>2, TakeOne
        <3>4. Packet(command[a].op, None).cmd = command[a].op
            BY HeaderFacts
        <3> QED
            BY <1>4, <3>1, <3>3, <3>4 DEF Moves, Asked
    <2>5. Looked(a, l)' \/ Accepted(a, l)'
        BY <1>4, <2>1, <2>4 DEF Asked, Looked, Accepted, LastAck, Meet, Asking, Doing
    <2> QED
        BY <1>1, <2>5, Onward DEF Together
<1>5. CASE h = a /\ Answered(a, l)
    <2>1. PICK cmd \in Opcodes \ {"ACK"} :
             /\ wire[a] = <<Header(cmd, out[l])>>
             /\ Answers(command[a].op, cmd, out[l])
        BY <1>2, <1>5 DEF Answered, LastAck
    <2>2. header.cmd = cmd /\ ~Doing(a, "LISTEN") /\ ~header.empty
        <3>1. header = Header(cmd, out[l])
            BY <1>1, <1>2, <1>5, <2>1, TakeOne
        <3>2. header.cmd = cmd /\ header.empty = (out[l] = None)
            BY <3>1, HeaderFacts
        <3> QED
            BY <1>5, <2>1, <3>2 DEF Answered, Meet, Asking, Doing
    <2> HIDE DEF header
    <2>3. TakeAndSend(a, Ack) /\ Goto(a, "readBody", None, Packet(cmd, None))
        BY <1>3, <1>5, <2>1, <2>2
    <2>4. /\ Moves(a, l, "readBody", None, Packet(cmd, None))
          /\ wire[l] = <<>> /\ Packet(cmd, None).cmd = cmd
        BY <1>1, <1>2, <1>5, <2>3, GotoMoves, HeaderFacts DEF Answered
    <2>5. wire'[a] = <<>> /\ wire'[l] = <<Ack>>
        BY <1>1, <1>2, <2>1, <2>3, <2>4, TakeOne
    <2>6. Awaited(a, l)'
        BY <1>5, <2>1, <2>4, <2>5 DEF Moves, Answered, Awaited, Meet, Asking, Doing
    <2> QED
        BY <1>1, <2>6, Onward DEF Together
<1>6. CASE h = a
    <2>1. ~Looked(a, l)
        BY <1>2, <1>6 DEF Looked, LastAck
    <2> QED
        BY <1>1, <1>2, <1>5, <1>6, <2>1, AskerAt
<1>7. CASE h = l
    <2>1. ~Waited(a, l)
        BY <1>2, <1>7 DEF Waited, Listening
    <2> QED
        BY <1>1, <1>2, <1>4, <1>7, <2>1, ListenerAt
<1> QED
    BY <1>1, <1>6, <1>7

LEMMA ReadBodyStep ==
    ASSUME IInv, StepInv, ~astray, NEW h \in Hsms, ReadBody(h)
    PROVE  StepInv'
<1>1. PICK a, l \in Hsms :
         /\ Together(a, l) /\ a # l /\ l = Other(a) /\ a = Other(l)
         /\ \A g \in Hsms : g = a \/ g = l
    BY Sides
<1>2. /\ TypeOK /\ pc[h] = "readBody" /\ wire[h] # <<>> /\ TakeAndSend(h, Ack)
      /\ Goto(h, "got", None, Packet(got[h].cmd, Head(wire[h])))
    BY ReadsHead DEF IInv, ReadBody, Contents
<1>3. CASE h = l /\ Requested(a, l)
    <2>1. /\ wire'[l] = <<>> /\ wire'[a] = <<Ack>>
          /\ command' = command /\ got'[l].cmd = got[l].cmd
          /\ pc'[a] = "bodyAck" /\ pc'[l] = "got"
        <3>1. wire[l] = <<out[a]>> /\ wire[a] = <<>> /\ pc[a] = "bodyAck"
            BY <1>3 DEF Requested
        <3>2. Moves(l, a, "got", None, Packet(got[l].cmd, Head(wire[l])))
            BY <1>1, <1>2, <1>3, GotoMoves
        <3>3. wire'[l] = <<>> /\ wire'[a] = <<Ack>>
            BY <1>1, <1>2, <1>3, <3>1, TakeOne
        <3>4. got'[l].cmd = got[l].cmd
            BY <3>2, HeaderFacts DEF Moves
        <3> QED
            BY <3>1, <3>2, <3>3, <3>4 DEF Moves
    <2>2. Looked(a, l)'
        BY <1>3, <2>1 DEF Requested, Looked, LastAck, Meet, Asking, Doing
    <2> QED
        BY <1>1, <2>2, Onward DEF Together
<1>4. CASE h = a /\ Delivered(a, l)
    <2>1. /\ wire'[a] = <<>> /\ wire'[l] = <<Ack>>
          /\ command' = command /\ pc'[a] = "got" /\ pc'[l] = "bodyAck"
        <3>1. wire[a] = <<out[l]>> /\ wire[l] = <<>> /\ pc[l] = "bodyAck"
            BY <1>4 DEF Delivered
        <3>2. Moves(a, l, "got", None, Packet(got[a].cmd, Head(wire[a])))
            BY <1>1, <1>2, <1>4, GotoMoves
        <3>3. wire'[a] = <<>> /\ wire'[l] = <<Ack>>
            BY <1>1, <1>2, <1>4, <3>1, TakeOne
        <3> QED
            BY <3>1, <3>2, <3>3 DEF Moves
    <2>2. Parting(a, l)'
        BY <1>4, <2>1 DEF Delivered, Parting, Free, Meet, Asking, Doing
    <2> QED
        BY <1>1, <2>2, Onward DEF Together
<1>5. CASE h = a
    <2>1. ~Awaited(a, l)
        BY <1>2, <1>5 DEF Awaited
    <2> QED
        BY <1>1, <1>2, <1>4, <1>5, <2>1, AskerAt
<1>6. CASE h = l
    <2>1. ~Accepted(a, l)
        BY <1>2, <1>6 DEF Accepted
    <2> QED
        BY <1>1, <1>2, <1>3, <1>6, <2>1, ListenerAt
<1> QED
    BY <1>1, <1>5, <1>6

(* A listener that has a request is in an exchange.                        *)
LEMMA LookedAt ==
    ASSUME StepInv, NEW h \in Hsms, pc[h] = "got", Doing(h, "LISTEN")
    PROVE  Looked(Other(h), h)
<1>1. PICK a, l \in Hsms :
         /\ Together(a, l) /\ a # l /\ l = Other(a) /\ a = Other(l)
         /\ \A g \in Hsms : g = a \/ g = l
    BY Sides
<1>2. ~Free(h) /\ ~Asking(h)
    BY DEF Free, Asking, Doing
<1>3. CASE h = a
    BY <1>1, <1>2, <1>3, AskerAt DEF Idle, Waited, Parting
<1>4. CASE h = l
    BY <1>1, <1>2, <1>4, ListenerAt DEF Idle
<1> QED
    BY <1>1, <1>3, <1>4

LEMMA AnswerStep ==
    ASSUME IInv, StepInv, ~astray, AllSound, NEW h \in Hsms,
           AnswerInterrogate(h) \/ AnswerReceive(h)
    PROVE  StepInv'
<1> DEFINE a == Other(h)
<1>1. a \in Hsms /\ a # h /\ h = Other(a) /\ TypeOK
    BY OtherHsm DEF IInv
<1>2. pc[h] = "got" /\ Doing(h, "LISTEN")
    BY DEF AnswerInterrogate, AnswerReceive
<1>3. Looked(a, h)
    BY <1>2, LookedAt
<1>4. PICK cmd \in Opcodes \ {"ACK"}, body \in Bodies :
         /\ body # None /\ WritePacket(h, cmd, body)
         /\ Answers(command[a].op, cmd, body)
    <2>1. got[h].cmd = command[a].op
        BY <1>3 DEF Looked, Meet
    <2>2. CASE AnswerInterrogate(h)
        <3>1. PICK several \in BOOLEAN : WritePacket(h, "INTERROGATE", ListBody(several))
            BY <2>2 DEF AnswerInterrogate, Lists
        <3>2. ListBody(several) # None /\ ListBody(several).kind = "list"
            BY DEF ListBody, None
        <3> QED
            BY <3>1, <3>2, BodiesSent DEF Answers, Opcodes
    <2>3. CASE AnswerReceive(h)
        <3>1. command[a].op # "INTERROGATE"
            BY <2>1, <2>3 DEF AnswerReceive
        <3>2. /\ ErrorText # None
              /\ \A f : FileBody(f) # None /\ FileBody(f).kind = "file"
            BY DEF ErrorText, None, FileBody
        <3> QED
            BY <2>3, <3>1, <3>2, AnswerReceiveEffect, BodiesSent DEF Answers, Opcodes
    <2> QED
        BY <2>2, <2>3
<1>5. /\ wire'[h] = <<>> /\ wire'[a] = Append(wire[a], Header(cmd, body))
      /\ command' = command /\ pc'[h] = "headerAck" /\ out'[h] = body
      /\ pc'[a] = pc[a] /\ out'[a] = out[a]
    BY <1>1, <1>3, <1>4, WireFrame, GotoFrame DEF WritePacket, Looked
<1> HIDE DEF a
<1>6. \/ LastAck(a)' /\ wire'[a] = <<Ack, Header(cmd, body)>>
      \/ pc'[a] = "readHeader" /\ wire'[a] = <<Header(cmd, body)>>
    <2>1. /\ Append(<<>>, Header(cmd, body)) = <<Header(cmd, body)>>
          /\ Append(<<Ack>>, Header(cmd, body)) = <<Ack, Header(cmd, body)>>
        BY ShortWires
    <2> QED
        BY <1>3, <1>5, <2>1 DEF Looked, LastAck
<1>7. Answered(a, h)'
    BY <1>3, <1>4, <1>5, <1>6 DEF Looked, Answered, Meet, Asking, Doing
<1> QED
    BY <1>1, <1>7, Onward DEF Together

-----------------------------------------------------------------------------
(***************************************************************************)
(* What is on the wire, and what does not happen                           *)
(***************************************************************************)

(* The invariant is what InStep needs.                                     *)
LEMMA StepInvInStep ==
    ASSUME IInv, StepInv, ~astray
    PROVE  InStep
<1>1. PICK a, l \in Hsms :
         /\ Together(a, l) /\ a # l /\ l = Other(a) /\ a = Other(l)
         /\ \A g \in Hsms : g = a \/ g = l
    BY Sides
<1> DEFINE Ready(h) ==
        /\ pc[h] # "undefined"
        /\ wire[h] # <<>> =>
              \/ pc[h] \in {"readHeader", "headerAck", "bodyAck"} /\ Headers(h) # {}
              \/ pc[h] = "readBody" /\ Contents(h) # {}
<1>0. \A h \in Hsms : \A x, y :
          /\ wire[h] = <<x>> \/ wire[h] = <<x, y>> => Incoming(h) = {x}
          /\ x.kind = "header" /\ Incoming(h) = {x} => Headers(h) # {}
          /\ x.kind # "header" /\ Incoming(h) = {x} => Contents(h) # {}
    BY ShortWires DEF Incoming, Headers, Contents
<1>2. pc[a] # "undefined" /\ pc[l] # "undefined"
    BY <1>1, AskerAt, ListenerAt
<1>3. CASE Idle(a, l) \/ Waited(a, l)
    BY <1>1, <1>2, <1>3 DEF Idle, Waited, Listening, InStep
<1>4. CASE Asked(a, l) \/ Accepted(a, l) \/ Looked(a, l) \/ Answered(a, l) \/ Awaited(a, l)
           \/ Parting(a, l)
    <2>1. \A h \in Hsms : \A cmd, body, y :
              /\ wire[h] = <<Ack>> => Headers(h) # {}
              /\ wire[h] = <<Header(cmd, body)>> => Headers(h) # {}
              /\ wire[h] = <<Ack, y>> => Headers(h) # {}
        BY <1>0, HeaderFacts
    <2>2. /\ wire[a] # <<>> => Headers(a) # {} /\ pc[a] \in {"readHeader", "headerAck", "bodyAck"}
          /\ wire[l] # <<>> => Headers(l) # {} /\ pc[l] \in {"readHeader", "headerAck", "bodyAck"}
        BY <1>4, <2>1
           DEF Asked, Accepted, Looked, Answered, Awaited, Parting, LastAck
    <2> QED
        BY <1>1, <1>2, <2>2 DEF InStep
<1>5. CASE Requested(a, l) \/ Delivered(a, l)
    <2>1. out[a].kind # "header" /\ out[l].kind # "header"
        BY <1>1, BodyFacts DEF IInv, TypeOK
    <2>2. Ready(a) /\ Ready(l)
        BY <1>0, <1>1, <1>2, <1>5, <2>1 DEF Requested, Delivered
    <2> QED
        BY <1>1, <2>2 DEF InStep
<1> QED
    BY <1>1, <1>3, <1>4, <1>5 DEF Together

(* While an HSM waits for an acknowledgement of contents, nothing else is  *)
(* on a wire than that, or the header of the answer behind it.             *)
LEMMA OnlyAcks ==
    ASSUME IInv, StepInv, ~astray, NEW h \in Hsms, pc[h] = "bodyAck", wire[h] # <<>>
    PROVE  Incoming(h) = {Ack} /\ wire[Other(h)] = <<>>
<1>1. PICK a, l \in Hsms :
         /\ Together(a, l) /\ a # l /\ l = Other(a) /\ a = Other(l)
         /\ \A g \in Hsms : g = a \/ g = l
    BY Sides
<1>2. \A x, y : wire[h] = <<x>> \/ wire[h] = <<x, y>> => Incoming(h) = {x}
    BY ShortWires DEF Incoming
<1>3. CASE h = a
    <2>1. Looked(a, l) \/ Answered(a, l)
        BY <1>1, <1>3, AskerAt DEF Requested
    <2> QED
        BY <1>1, <1>2, <1>3, <2>1 DEF Looked, Answered
<1>4. CASE h = l
    <2>1. Parting(a, l)
        BY <1>1, <1>4, ListenerAt DEF Delivered
    <2> QED
        BY <1>1, <1>2, <1>4, <2>1 DEF Parting
<1> QED
    BY <1>1, <1>3, <1>4

(* An asker that reads a header reads that of an answer with contents.     *)
LEMMA AnswerComes ==
    ASSUME IInv, StepInv, ~astray, NEW h \in Hsms, pc[h] = "readHeader", Asking(h),
           NEW header \in Headers(h)
    PROVE  header.cmd # "ACK" /\ ~header.empty
<1>1. PICK a, l \in Hsms :
         /\ Together(a, l) /\ a # l /\ l = Other(a) /\ a = Other(l)
         /\ \A g \in Hsms : g = a \/ g = l
    BY Sides
<1>2. wire[h] # <<>> /\ header = Head(wire[h])
    BY ReadsHead DEF IInv, Headers
<1>3. CASE h = a
    <2>1. Answered(a, l)
        BY <1>1, <1>2, <1>3, AskerAt DEF Looked, LastAck
    <2>2. PICK cmd \in Opcodes \ {"ACK"} : wire[a] = <<Header(cmd, out[l])>>
        BY <1>3, <2>1 DEF Answered, LastAck
    <2>3. header = Header(cmd, out[l]) /\ out[l] # None
        BY <1>2, <1>3, <2>1, <2>2, ShortWires DEF Answered
    <2>4. header.cmd = cmd /\ header.empty = (out[l] = None)
        BY <2>3, HeaderFacts
    <2> QED
        BY <2>2, <2>3, <2>4
<1>4. CASE h = l
    BY <1>1, <1>4, ListenerAt DEF Waited, Asked, Meet, Listening, Asking, Doing
<1> QED
    BY <1>1, <1>3, <1>4

(* No HSM goes beyond an array.                                            *)
LEMMA NothingUndefined ==
    ASSUME TypeOK, ~astray, AllSound, NEW h \in Hsms
    PROVE  ~Undefined(h)
<1>1. SoundInv(h)
    BY DEF AllSound
<1>2. ~UnsafeCommand(h)
    BY <1>1 DEF SoundInv, NamesSlots, UnsafeCommand, Unsafe, Doing
<1>3. ~UnsafeAnswer(h)
    BY <1>1
       DEF SoundInv, NamesSlots, Sound, Answers, UnsafeAnswer, FileBody, Doing
<1>4. RequestedSlots(h) \subseteq Slots
    BY <1>1, CommandsAssumption
       DEF SoundInv, Sound, RequestedSlots, IsStray, RequestOf, ZeroRequest, Request,
           CommandsAssumption
<1>5. ~UnsafeRequest(h)
    BY <1>1, <1>4 DEF SoundInv, UnsafeRequest, Unsafe
<1> QED
    BY <1>2, <1>3, <1>5 DEF Undefined

(* No unit is lost or skipped, or taken for what it is not.                *)
LEMMA NothingLost ==
    ASSUME IInv, StepInv, ~astray, AllSound, NEW h \in Hsms
    PROVE  /\ ~Skip(h) /\ ~Garble(h) /\ ~Overrun(h) /\ ~AnswerNothing(h)
           /\ ~Undefined(h)
<1>1. InStep /\ TypeOK
    BY StepInvInStep DEF IInv
<1>2. ~Overrun(h)
    BY <1>1 DEF InStep, Overrun, NotReading
<1>3. \A u, v \in Incoming(h) : u = v
    BY DEF Incoming
<1>4. Incoming(h) # {} => wire[h] # <<>>
    BY DEF Incoming
<1>5. ~Skip(h)
    BY <1>1, <1>3, <1>4 DEF InStep, Skip, Headers, Contents
<1>6. ~Garble(h)
    <2>1. CASE pc[h] = "readBody"
        BY <1>1, <1>3, <1>4, <2>1 DEF InStep, Garble, Headers, Contents
    <2>2. CASE pc[h] = "bodyAck"
        BY <1>4, <2>2, OnlyAcks, HeaderFacts DEF Garble, Headers
    <2> QED
        BY <2>1, <2>2 DEF Garble
<1>7. ~AnswerNothing(h)
    BY LookedAt DEF AnswerNothing, Looked, Meet, Asking, Doing
<1> QED
    BY <1>1, <1>2, <1>5, <1>6, <1>7, NothingUndefined

-----------------------------------------------------------------------------
(***************************************************************************)
(* The HSMs stay within their arrays                                       *)
(***************************************************************************)
LEMMA SoundKept ==
    ASSUME AllSound, NEW h \in Hsms, SoundInv(h)',
           \A g \in Hsms \ {h} :
              /\ store'[g] = store[g] /\ pc'[g] = pc[g] /\ out'[g] = out[g]
              /\ got'[g] = got[g] /\ command'[g] = command[g]
    PROVE  AllSound'
<1>1. ASSUME NEW g \in Hsms \ {h}
      PROVE  SoundInv(g)'
    BY DEF AllSound, SoundInv, NamesSlots, Target, Asking, Doing
<1> QED
    BY <1>1 DEF AllSound

LEMMA NothingIsSound == Sound(None) /\ Sound(NoPacket.body)
BY DEF Sound, None, NoPacket, Packet

LEMMA RespondSound ==
    ASSUME TypeOK, AllSound, NEW h \in Hsms, NEW type, Respond(h, type),
           \A g \in Hsms \ {h} : store'[g] = store[g],
           \A s \in Slots : store'[h][s] # Damaged
    PROVE  AllSound'
<1>1. out'[h] = None /\ got'[h] = NoPacket /\ pc'[h] = "main" /\ command'[h] = NoCommand
    BY RespondOwn
<1>2. SoundInv(h)'
    BY <1>1, NothingIsSound DEF SoundInv, NamesSlots, NoCommand
<1> QED
    BY <1>2, RespondFrame, SoundKept

LEMMA GotoSound ==
    ASSUME TypeOK, AllSound, NEW h \in Hsms, NEW place, NEW body, NEW packet,
           Goto(h, place, body, packet), UNCHANGED store,
           pc[h] # "writing", place # "writing", Sound(body), Sound(packet.body),
           place = "got" /\ Asking(h) => Answers(command[h].op, packet.cmd, packet.body)
    PROVE  AllSound'
<1>1. SoundInv(h)'
    BY GotoFrame DEF AllSound, SoundInv, NamesSlots, Asking, Doing
<1> QED
    BY <1>1, GotoFrame, SoundKept

LEMMA WriteFileSound ==
    ASSUME TypeOK, AllSound, NEW h \in Hsms, NEW body, WriteFile(h, Target(h), body),
           pc[h] # "writing", Target(h) \in Slots, body.kind = "file", Sound(body)
    PROVE  AllSound'
<1>1. Goto(h, "writing", None, Packet(got[h].cmd, body))
    BY DEF WriteFile
<1>2. /\ pc'[h] = "writing" /\ out'[h] = None /\ command' = command
      /\ got'[h].body = body
    BY <1>1, GotoFrame DEF Packet
<1>3. /\ store'[h] = [store[h] EXCEPT ![Target(h)] = Damaged]
      /\ \A g \in Hsms \ {h} : store'[g] = store[g]
    BY DEF TypeOK, WriteFile
<1>4. \A s \in Slots : store'[h][s] = Damaged => s = Target(h)
    BY <1>3 DEF TypeOK, AllSound, SoundInv
<1>5. SoundInv(h)'
    BY <1>2, <1>4, NothingIsSound DEF AllSound, SoundInv, NamesSlots, Target, Asking, Doing
<1> QED
    BY <1>1, <1>3, <1>5, GotoFrame, SoundKept

LEMMA AloneSound ==
    ASSUME FlashErrors = FALSE, IInv, AllSound, NEW h \in Hsms,
           \/ Invalid(h) \/ WrongPin(h) \/ List(h) \/ Read(h) \/ Write(h)
           \/ Mismatch(h) \/ Interrogated(h) \/ Received(h) \/ Stored(h)
    PROVE  AllSound'
<1>1. TypeOK /\ SoundInv(h)
    BY DEF IInv, AllSound
<1>2. pc[h] # "writing" => \A s \in Slots : store[h][s] # Damaged
    BY <1>1 DEF SoundInv
<1>3. ASSUME NEW type, Respond(h, type), UNCHANGED store, pc[h] # "writing"
      PROVE  AllSound'
    BY <1>1, <1>2, <1>3, RespondSound
<1>4. CASE \/ Invalid(h) \/ WrongPin(h) \/ List(h) \/ Read(h)
           \/ Mismatch(h) \/ Interrogated(h)
    BY <1>3, <1>4 DEF Invalid, WrongPin, List, Read, Mismatch, Interrogated, Dispatch
<1>5. CASE Write(h)
    <2>1. pc[h] = "dispatch" /\ Doing(h, "WRITE")
        BY <1>5 DEF Write, Dispatch
    <2>2. Sound(FileBody(command[h].file)) /\ FileBody(command[h].file).kind = "file"
        <3>1. command[h].file \in Files
            BY <1>1, <2>1, CommandFacts DEF TypeOK, Doing
        <3>2. command[h].file # Damaged
            BY <3>1, CommandsAssumption DEF CommandsAssumption
        <3> QED
            BY <3>2 DEF Sound, FileBody
    <2>3. Target(h) = command[h].slot
        BY <2>1 DEF Target
    <2> QED
        BY <1>1, <1>3, <1>5, <2>1, <2>2, <2>3, WriteFileSound DEF Write
<1>6. CASE Received(h)
    <2>1. /\ pc[h] = "got" /\ Doing(h, "RECEIVE") /\ got[h].cmd = "RECEIVE"
          /\ Target(h) = command[h].write_slot /\ Target(h) \in Slots
          /\ WriteFile(h, Target(h), got[h].body)
        BY <1>6 DEF Received, Target, Doing
    <2>2. Sound(got[h].body) /\ got[h].body.kind = "file"
        BY <1>1, <2>1 DEF SoundInv, Answers, Asking
    <2> QED
        BY <1>1, <2>1, <2>2, WriteFileSound
<1>7. CASE Stored(h)
    <2>1. PICK type :
             /\ store' = [store EXCEPT ![h] = [@ EXCEPT ![Target(h)] = got[h].body.file]]
             /\ Respond(h, type)
        BY <1>1, <1>7 DEF SoundInv, Stored, WriteFileDone
    <2>2. got[h].body.file # Damaged /\ Target(h) \in Slots
        BY <1>1, <1>7 DEF SoundInv, Sound, IInv, WritingInv, Stored
    <2>3. /\ store'[h] = [store[h] EXCEPT ![Target(h)] = got[h].body.file]
          /\ \A g \in Hsms \ {h} : store'[g] = store[g]
        BY <1>1, <2>1 DEF TypeOK
    <2>4. \A s \in Slots : store'[h][s] # Damaged
        BY <1>1, <2>2, <2>3 DEF TypeOK, SoundInv
    <2> QED
        BY <1>1, <2>1, <2>3, <2>4, RespondSound
<1> QED
    BY <1>4, <1>5, <1>6, <1>7

LEMMA HostCommandSound ==
    ASSUME Coordinated = TRUE, IInv, AllSound, NEW h \in Hsms,
           NEW c \in HostCommands, HostCommand(h, c)
    PROVE  AllSound'
<1>1. TypeOK /\ SoundInv(h)
    BY DEF IInv, AllSound
<1>2. /\ pc[h] = "main" /\ pc'[h] = "dispatch" /\ command'[h] = c
      /\ out'[h] = out[h] /\ got'[h] = got[h] /\ store' = store
      /\ \A g \in Hsms \ {h} :
            pc'[g] = pc[g] /\ out'[g] = out[g] /\ got'[g] = got[g] /\ command'[g] = command[g]
    BY <1>1 DEF TypeOK, HostCommand
<1>3. NamesSlots(c)
    BY DEF HostCommand, HostMay, NamesSlots
<1>4. SoundInv(h)'
    BY <1>1, <1>2, <1>3 DEF SoundInv, NamesSlots
<1> QED
    BY <1>2, <1>4, SoundKept

LEMMA ExchangeSound ==
    ASSUME IInv, StepInv, ~astray, AllSound, NEW h \in Hsms,
           \/ Ask(h) \/ Listen(h) \/ HeaderAcked(h) \/ BodyAcked(h) \/ ReadHeader(h)
    PROVE  AllSound'
<1>1. TypeOK /\ SoundInv(h)
    BY DEF IInv, AllSound
<1>2. \A s \in Slots : pc[h] # "writing" => store[h][s] # Damaged
    BY <1>1 DEF SoundInv
<1>3. CASE Ask(h)
    <2> DEFINE body == IF Doing(h, "RECEIVE")
                       THEN Request(command[h].read_slot, global_permissions[h])
                       ELSE None
    <2>1. Sound(body)
        BY <1>1, NothingIsSound DEF SoundInv, NamesSlots, Sound, Request, Doing
    <2> HIDE DEF body
    <2>2. /\ pc[h] = "dispatch" /\ UNCHANGED store
          /\ Goto(h, "headerAck", body, NoPacket)
        BY <1>3 DEF Ask, Dispatch, WritePacket, body
    <2> QED
        BY <1>1, <2>1, <2>2, GotoSound, NothingIsSound
<1>4. CASE Listen(h)
    BY <1>1, <1>4, GotoSound, NothingIsSound DEF Listen, Dispatch
<1>5. ASSUME Written(h), UNCHANGED store, pc[h] # "writing"
      PROVE  AllSound'
    BY <1>1, <1>2, <1>5, GotoSound, RespondSound, NothingIsSound DEF Written
<1>6. CASE HeaderAcked(h)
    <2>1. CASE Goto(h, "bodyAck", out[h], NoPacket)
        BY <1>1, <1>6, <2>1, GotoSound, NothingIsSound DEF HeaderAcked, SoundInv
    <2> QED
        BY <1>5, <1>6, <2>1 DEF HeaderAcked
<1>7. CASE BodyAcked(h)
    BY <1>5, <1>7 DEF BodyAcked
<1>8. CASE ReadHeader(h)
    <2>1. PICK header \in Headers(h), place \in {"got", "readBody"} :
             /\ Goto(h, place, None, Packet(header.cmd, None))
             /\ place = "got" => \/ header.cmd = "ACK" \/ header.empty
                                 \/ Doing(h, "LISTEN") /\ header.long
        BY <1>8 DEF ReadHeader
    <2>2. place = "got" => ~Asking(h)
        BY <1>8, <2>1, AnswerComes DEF ReadHeader, Asking, Doing
    <2>3. Packet(header.cmd, None).body = None
        BY HeaderFacts
    <2> QED
        BY <1>1, <1>8, <2>1, <2>2, <2>3, GotoSound, NothingIsSound DEF ReadHeader
<1> QED
    BY <1>3, <1>4, <1>6, <1>7, <1>8

LEMMA ReadBodySound ==
    ASSUME IInv, StepInv, ~astray, AllSound, NEW h \in Hsms, ReadBody(h)
    PROVE  AllSound'
<1>1. PICK a, l \in Hsms :
         /\ Together(a, l) /\ a # l /\ l = Other(a) /\ a = Other(l)
         /\ \A g \in Hsms : g = a \/ g = l
    BY Sides
<1>2. /\ TypeOK /\ pc[h] = "readBody" /\ wire[h] # <<>> /\ UNCHANGED store
      /\ Goto(h, "got", None, Packet(got[h].cmd, Head(wire[h])))
    BY ReadsHead DEF IInv, ReadBody, Contents
<1>3. \A body : /\ Packet(got[h].cmd, body).body = body
                /\ Packet(got[h].cmd, body).cmd = got[h].cmd
    BY HeaderFacts
<1>4. CASE h = l /\ Requested(a, l)
    <2>1. Head(wire[l]) = out[a] /\ ~Asking(l)
        BY <1>4, ShortWires DEF Requested, Meet, Asking, Doing
    <2>2. Sound(out[a])
        BY <1>1 DEF AllSound, SoundInv
    <2> QED
        BY <1>2, <1>3, <1>4, <2>1, <2>2, GotoSound, NothingIsSound
<1>5. CASE h = a /\ Delivered(a, l)
    <2>1. Head(wire[a]) = out[l] /\ Answers(command[a].op, got[a].cmd, out[l])
        BY <1>5, ShortWires DEF Delivered
    <2>2. Sound(out[l])
        BY <1>1 DEF AllSound, SoundInv
    <2> QED
        BY <1>2, <1>3, <1>5, <2>1, <2>2, GotoSound, NothingIsSound
<1>6. CASE h = a
    <2>1. ~Awaited(a, l)
        BY <1>2, <1>6 DEF Awaited
    <2> QED
        BY <1>1, <1>2, <1>5, <1>6, <2>1, AskerAt
<1>7. CASE h = l
    <2>1. ~Accepted(a, l)
        BY <1>2, <1>7 DEF Accepted
    <2> QED
        BY <1>1, <1>2, <1>4, <1>7, <2>1, ListenerAt
<1> QED
    BY <1>1, <1>6, <1>7

LEMMA AnswerSound ==
    ASSUME IInv, AllSound, NEW h \in Hsms, AnswerInterrogate(h) \/ AnswerReceive(h)
    PROVE  AllSound'
<1>1. TypeOK /\ SoundInv(h)
    BY DEF IInv, AllSound
<1>2. PICK cmd, body :
         pc[h] = "got" /\ WritePacket(h, cmd, body) /\ UNCHANGED store /\ Sound(body)
    <2>1. CASE AnswerInterrogate(h)
        <3>1. \A several : Sound(ListBody(several))
            BY DEF Sound, ListBody
        <3> QED
            BY <2>1, <3>1 DEF AnswerInterrogate, Lists
    <2>2. CASE AnswerReceive(h)
        <3>1. PICK slot \in Slots :
                 \/ WritePacket(h, "ERROR", ErrorText)
                 \/ WritePacket(h, "RECEIVE", FileBody(store[h][slot]))
            BY <2>2 DEF AnswerReceive, Deny
        <3>2. pc[h] = "got" /\ UNCHANGED store
            BY <2>2 DEF AnswerReceive
        <3>3. store[h][slot] # Damaged
            BY <1>1, <3>2 DEF SoundInv
        <3>4. Sound(ErrorText) /\ Sound(FileBody(store[h][slot]))
            BY <3>3 DEF Sound, ErrorText, FileBody
        <3> QED
            BY <3>1, <3>2, <3>4
    <2> QED
        BY <2>1, <2>2
<1> QED
    BY <1>1, <1>2, GotoSound, NothingIsSound DEF WritePacket

-----------------------------------------------------------------------------
(***************************************************************************)
(* All of it is an invariant                                               *)
(***************************************************************************)
Kept == StepInv /\ AllSound /\ ~astray

LEMMA InitialKept == Init => Kept
<1> SUFFICES ASSUME Init PROVE Kept
    OBVIOUS
<1>1. PICK a \in Hsms : TRUE
    BY CommandsAssumption DEF CommandsAssumption
<1>2. Idle(a, Other(a))
    BY OtherHsm DEF Init, Idle, Free, Doing, NoCommand
<1>3. AllSound
    BY NothingIsSound, CommandsAssumption
       DEF Init, AllSound, SoundInv, NamesSlots, NoCommand, CommandsAssumption
<1> QED
    BY <1>2, <1>3 DEF Init, StepInv, Together, Kept

LEMMA NextStep ==
    ASSUME Coordinated = TRUE, MaxResets = 0, FlashErrors = FALSE, IInv, Kept, [Next]_vars
    PROVE  Kept'
<1>0. StepInv /\ AllSound /\ ~astray
    BY DEF Kept
<1>1. CASE UNCHANGED vars
    <2>1. PICK a \in Hsms : Together(a, Other(a))
        BY <1>0 DEF StepInv
    <2>2. Together(a, Other(a))'
        BY <1>1, <2>1
           DEF vars, Together, Idle, Waited, Asked, Accepted, Requested, Looked, Answered,
               Awaited, Delivered, Parting, Listening, Meet, Free, LastAck, Asking, Doing
    <2>3. AllSound' /\ ~astray'
        BY <1>0, <1>1
           DEF vars, AllSound, SoundInv, NamesSlots, Target, Asking, Doing
    <2> QED
        BY <2>2, <2>3, OtherHsm, Onward DEF Kept
<1>2. ASSUME NEW h \in Hsms, Step(h)
      PROVE  Kept'
    <2>1. ~Skip(h) /\ ~Garble(h) /\ ~AnswerNothing(h) /\ ~Undefined(h)
        BY <1>0, NothingLost
    <2>2. UNCHANGED astray
        BY <1>2, <2>1
           DEF Step, Invalid, WrongPin, List, Read, Write, Ask, Listen, HeaderAcked, BodyAcked,
               ReadHeader, ReadBody, Mismatch, Interrogated, Received, Stored,
               AnswerInterrogate, AnswerReceive, Deny, WriteFile, WriteFileDone, WritePacket,
               Written, Goto, Respond
    <2>3. StepInv'
        BY <1>0, <1>2, <2>1, AloneStep, AskStep, ListenStep, HeaderAckedStep,
           BodyAckedStep, ReadHeaderStep, ReadBodyStep, AnswerStep
           DEF Step
    <2>4. AllSound'
        BY <1>0, <1>2, <2>1, AloneSound, ExchangeSound, ReadBodySound, AnswerSound DEF Step
    <2> QED
        BY <1>0, <2>2, <2>3, <2>4 DEF Kept
<1>3. ASSUME NEW h \in Hsms, NEW c \in HostCommands, HostCommand(h, c)
      PROVE  Kept'
    BY <1>0, <1>3, HostCommandStep, HostCommandSound DEF Kept, HostCommand
<1>4. ASSUME NEW h \in Hsms, Reset(h)
      PROVE  FALSE
    BY <1>4 DEF IInv, TypeOK, Reset
<1> QED
    BY <1>0, <1>1, <1>2, <1>3, <1>4, NothingLost DEF Next

(* If the hosts agree who listens and who asks and name slots of the table,*)
(* no HSM is reset, and the flash works, what is on the wire to an HSM is  *)
(* always what it reads next: no unit of an exchange is lost, skipped, or  *)
(* taken for something else, and nothing is read or written beyond an      *)
(* array, whichever commands come before, during and after it.             *)
THEOREM StaysInStep ==
    ASSUME Coordinated = TRUE, MaxResets = 0, FlashErrors = FALSE
    PROVE  Spec => []InStep
<1>1. Init => Kept
    BY InitialKept
<1>2. IInv /\ Kept /\ [Next]_vars => Kept'
    BY NextStep
<1>3. IInv /\ Kept => InStep
    BY StepInvInStep DEF Kept
<1> QED
    BY <1>1, <1>2, <1>3, Inductive, PTL DEF Spec
=============================================================================
