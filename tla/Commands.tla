------------------------------ MODULE Commands ------------------------------
(***************************************************************************)
(* firmware/src/commands.c and the loop of firmware/src/HSM.c: two HSMs,   *)
(* each with its host, and the wire of TRANSFER_INTERFACE between them.    *)
(*                                                                         *)
(* A command and its response on CONTROL_INTERFACE are one step each;      *)
(* write_file has begun or is done, as in FileStore.  (PacketLink and      *)
(* FileSystem show them in detail.)                                        *)
(* On the transfer wire a packet is a header and, after the reader has     *)
(* acknowledged that, its contents as one unit, acknowledged too.  Once an *)
(* HSM does not read where the other began a unit, what they read of each  *)
(* other may be anything (astray).  An HSM that reads or writes beyond an  *)
(* array may do anything: nothing is said of it from then on (undefined).  *)
(***************************************************************************)
EXTENDS Security, FiniteSets

CONSTANTS
    Hsms,          \* the two HSMs
    Slots,         \* slots of the table, slot 0 among them
    SlotNumbers,   \* what a command or request may give for one
    Files,         \* files: group, name, contents and uuid
    GroupOf,       \* the group of each file
    Permissions,   \* per HSM, the list it is built with
    PIN_LENGTH,
    Pins,          \* PINs, byte by byte
    HSM_PIN,       \* the PIN each HSM is built with
    Coordinated,   \* the hosts agree who listens and who asks
    FlashErrors,   \* flash operations may fail
    MaxResets,     \* bound on resets
    Empty,         \* a slot without a file, which read_file refuses
    Damaged        \* a slot or contents of which nothing is promised

Other(h) == CHOOSE other \in Hsms : other # h

global_permissions == [h \in Hsms |-> Table(Permissions[h])]

ASSUME CommandsAssumption ==
    /\ \E a, b \in Hsms : a # b /\ Hsms = {a, b}
    /\ 0 \in Slots /\ Slots \subseteq SlotNumbers
    /\ GroupOf \in [Files -> GroupIds]
    /\ Empty \notin Files /\ Damaged \notin Files /\ Empty # Damaged
    /\ HSM_PIN \in [Hsms -> Pins]
    /\ \A h \in Hsms : Permissions[h] \in Seq(Entries)
    /\ Coordinated \in BOOLEAN /\ FlashErrors \in BOOLEAN /\ MaxResets \in Nat

(***************************************************************************)
(* The commands of a host.  INVALID stands for any other opcode.  No       *)
(* handler compares a slot with the size of the table.                     *)
(***************************************************************************)
HostCommands ==
    [op : {"LIST", "INTERROGATE"}, pin : Pins]
      \cup [op : {"LISTEN", "INVALID"}]
      \cup [op : {"READ"}, pin : Pins, slot : SlotNumbers]
      \cup [op : {"WRITE"}, pin : Pins, slot : SlotNumbers, file : Files]
      \cup [op : {"RECEIVE"}, pin : Pins,
             read_slot : SlotNumbers, write_slot : SlotNumbers]

NoCommand == [op |-> "NONE"]

(***************************************************************************)
(* Contents of transfer packets: a receive_request_t, a file, a file list, *)
(* the text of an error.  listen has room for a receive_request_t, which a *)
(* list of several files and any file exceed.                              *)
(***************************************************************************)
None == [kind |-> "none"]
Request(slot, table) == [kind |-> "request", slot |-> slot, permissions |-> table]
FileBody(f) == [kind |-> "file", file |-> f]
ListBody(several) == [kind |-> "list", several |-> several]
ErrorText == [kind |-> "text"]
TooLongForListen(body) ==
    body.kind = "file" \/ (body.kind = "list" /\ body.several)

Header(cmd, body) ==
    [kind |-> "header", cmd |-> cmd, empty |-> body = None,
     long |-> TooLongForListen(body)]
Ack == Header("ACK", None)

(* What an HSM that is astray may read: any header, and any contents.      *)
Opcodes == {"ACK", "ERROR", "INTERROGATE", "RECEIVE"}
StrayUnits ==
    [kind : {"header"}, cmd : Opcodes, empty : BOOLEAN, long : BOOLEAN]
      \cup {FileBody(f) : f \in Files \cup {Damaged}}

(* What read_packet leaves behind: cmd, and the buffer for the contents.   *)
Packet(cmd, body) == [cmd |-> cmd, body |-> body]
NoPacket == Packet("ACK", None)

VARIABLES
    store,    \* per HSM, what its slots hold
    dirty,    \* HSMs whose table in flash is unreliable
    pc,       \* where it is
    command,  \* the command it is at
    out,      \* contents it is sending on the transfer wire
    got,      \* the packet it has read there
    wire,     \* the units on the wire to it
    astray,   \* an HSM has lost its place in what is on a wire
    reply,    \* the type of the response to its host's last command
    resets

vars == <<store, dirty, pc, command, out, got, wire, astray, reply, resets>>

Init ==
    /\ store = [h \in Hsms |-> [s \in Slots |-> Empty]]
    /\ dirty = {}
    /\ pc = [h \in Hsms |-> "main"]
    /\ command = [h \in Hsms |-> NoCommand]
    /\ out = [h \in Hsms |-> None]
    /\ got = [h \in Hsms |-> NoPacket]
    /\ wire = [h \in Hsms |-> <<>>]
    /\ astray = FALSE
    /\ reply = [h \in Hsms |-> "NONE"]
    /\ resets = 0

Doing(h, op) == command[h].op = op
Asking(h) == Doing(h, "RECEIVE") \/ Doing(h, "INTERROGATE")
CheckPin(h) == SecureCompare(command[h].pin, HSM_PIN[h], PIN_LENGTH)

-----------------------------------------------------------------------------
(***************************************************************************)
(* Pieces of the actions                                                   *)
(***************************************************************************)
Incoming(h) ==
    IF astray THEN StrayUnits
    ELSE IF wire[h] = <<>> THEN {} ELSE {Head(wire[h])}
Headers(h) == {unit \in Incoming(h) : unit.kind = "header"}
Contents(h) == {unit \in Incoming(h) : unit.kind # "header"}

Take(h) == wire' = IF astray THEN wire ELSE [wire EXCEPT ![h] = Tail(@)]
Send(h, unit) ==
    wire' = IF astray THEN wire ELSE [wire EXCEPT ![Other(h)] = Append(@, unit)]
TakeAndSend(h, unit) ==
    wire' = IF astray THEN wire
            ELSE [wire EXCEPT ![h] = Tail(@), ![Other(h)] = Append(@, unit)]

(* From now on the units of a wire are not what is read.                   *)
GoAstray ==
    /\ astray' = TRUE
    /\ wire' = [h \in Hsms |-> <<>>]

(* On to another place in the same command; what it sends and has read.    *)
Goto(h, place, body, packet) ==
    /\ pc' = [pc EXCEPT ![h] = place]
    /\ out' = [out EXCEPT ![h] = body]
    /\ got' = [got EXCEPT ![h] = packet]
    /\ UNCHANGED <<command, astray, reply, resets>>

\* A bug: what was read stays behind for the next command.
RespondKeepsPacket(h, type) ==
    /\ reply' = [reply EXCEPT ![h] = type]
    /\ pc' = [pc EXCEPT ![h] = "main"]
    /\ command' = [command EXCEPT ![h] = NoCommand]
    /\ out' = [out EXCEPT ![h] = None]
    /\ UNCHANGED <<got, astray, resets>>

(* The response to the host (print_error or write_packet), the end of the  *)
(* handler, and back to the main loop.                                     *)
Respond(h, type) ==
    /\ reply' = [reply EXCEPT ![h] = type]
    /\ pc' = [pc EXCEPT ![h] = "main"]
    /\ command' = [command EXCEPT ![h] = NoCommand]
    /\ out' = [out EXCEPT ![h] = None]
    /\ got' = [got EXCEPT ![h] = NoPacket]
    /\ UNCHANGED <<astray, resets>>

(* write_file begins: until it is done nothing is promised of the slot.    *)
WriteFile(h, slot, body) ==
    /\ store' = [store EXCEPT ![h] = [@ EXCEPT ![slot] = Damaged]]
    /\ dirty' = dirty \cup {h}
    /\ Goto(h, "writing", None, Packet(got[h].cmd, body))

(* It is done, or stored what is no file, or met a flash error, which goes *)
(* unnoticed unless it is in programming the file.  After an error in      *)
(* storing the table that in flash remains unreliable (which matters only  *)
(* if a reset is to come).                                                 *)
WriteFileDone(h, slot, type) ==
    \/ /\ got[h].body.kind = "file"
       /\ store' = [store EXCEPT ![h] = [@ EXCEPT ![slot] = got[h].body.file]]
       /\ dirty' = dirty \ {h}
       /\ Respond(h, type)
    \/ /\ FlashErrors \/ got[h].body.kind # "file"
       /\ UNCHANGED store
       /\ dirty' = dirty \ {h} \/ (resets < MaxResets /\ UNCHANGED dirty)
       /\ Respond(h, type) \/ Respond(h, "ERROR")

(* write_packet(TRANSFER_INTERFACE, cmd, body): first the header.          *)
WritePacket(h, cmd, body) ==
    /\ Send(h, Header(cmd, body))
    /\ Goto(h, "headerAck", body, NoPacket)

(* The group id read_file finds in a slot; in a damaged one any.           *)
GroupsIn(h, slot) ==
    IF store[h][slot] = Damaged THEN GroupIds ELSE {GroupOf[store[h][slot]]}

-----------------------------------------------------------------------------
(***************************************************************************)
(* The host sends a command when it waits for no response.  Coordinated    *)
(* hosts have one HSM ask only while the other is listening, do not have   *)
(* both listen, and name slots of the table.                               *)
(***************************************************************************)
Listening(h) == Doing(h, "LISTEN") /\ pc[h] = "readHeader" /\ wire[h] = <<>>

HostMay(h, c) ==
    Coordinated =>
        /\ c.op \in {"RECEIVE", "INTERROGATE"} => Listening(Other(h))
        /\ c.op = "LISTEN" => ~Doing(Other(h), "LISTEN")
        /\ c.op \in {"READ", "WRITE"} => c.slot \in Slots
        /\ c.op = "RECEIVE" => {c.read_slot, c.write_slot} \subseteq Slots

HostCommand(h, c) ==
    /\ pc[h] = "main"
    /\ HostMay(h, c)
    /\ command' = [command EXCEPT ![h] = c]
    /\ reply' = [reply EXCEPT ![h] = "NONE"]
    /\ pc' = [pc EXCEPT ![h] = "dispatch"]
    /\ UNCHANGED <<store, dirty, out, got, wire, astray, resets>>

-----------------------------------------------------------------------------
(***************************************************************************)
(* Commands an HSM handles on its own                                      *)
(***************************************************************************)
Dispatch(h, op) == pc[h] = "dispatch" /\ Doing(h, op)

Invalid(h) ==
    /\ Dispatch(h, "INVALID")
    /\ Respond(h, "ERROR")
    /\ UNCHANGED <<store, dirty, wire>>

WrongPin(h) ==
    /\ pc[h] = "dispatch"
    /\ ~Doing(h, "INVALID") /\ ~Doing(h, "LISTEN")
    /\ ~CheckPin(h)
    /\ Respond(h, "ERROR")
    /\ UNCHANGED <<store, dirty, wire>>

List(h) ==
    /\ Dispatch(h, "LIST") /\ CheckPin(h)
    /\ Respond(h, "LIST")
    /\ UNCHANGED <<store, dirty, wire>>

Read(h) ==
    /\ Dispatch(h, "READ") /\ CheckPin(h)
    /\ command[h].slot \in Slots
    /\ LET slot == command[h].slot IN
        \/ /\ store[h][slot] \in {Empty, Damaged}
           /\ Respond(h, "ERROR")
        \/ /\ store[h][slot] # Empty
           /\ \E group \in GroupsIn(h, slot) :
                 IF ValidatePermission(global_permissions[h], group, "read")
                 THEN Respond(h, "READ") ELSE Respond(h, "ERROR")
    /\ UNCHANGED <<store, dirty, wire>>

MayWrite(h, f) ==
    ValidatePermission(global_permissions[h], GroupOf[f], "write")

Write(h) ==
    /\ Dispatch(h, "WRITE") /\ CheckPin(h)
    /\ LET c == command[h] IN
        \/ /\ MayWrite(h, c.file) /\ c.slot \in Slots
           /\ WriteFile(h, c.slot, FileBody(c.file))
        \/ /\ ~MayWrite(h, c.file)
           /\ Respond(h, "ERROR")
           /\ UNCHANGED <<store, dirty>>
    /\ UNCHANGED wire

-----------------------------------------------------------------------------
(***************************************************************************)
(* receive, interrogate and listen.  All write a packet to the other HSM   *)
(* and read one, and none looks at what write_packet or read_packet return.*)
(***************************************************************************)
Ask(h) ==
    /\ Dispatch(h, "RECEIVE") \/ Dispatch(h, "INTERROGATE")
    /\ CheckPin(h)
    /\ WritePacket(h, command[h].op,
                   IF Doing(h, "RECEIVE")
                   THEN Request(command[h].read_slot, global_permissions[h])
                   ELSE None)
    /\ UNCHANGED <<store, dirty>>

Listen(h) ==
    /\ Dispatch(h, "LISTEN")
    /\ Goto(h, "readHeader", None, NoPacket)
    /\ UNCHANGED <<store, dirty, wire>>

(* write_packet has returned: a requester now reads the answer, and a      *)
(* listener is done.                                                       *)
Written(h) ==
    IF Asking(h) THEN Goto(h, "readHeader", None, NoPacket)
    ELSE Respond(h, "LISTEN")

\* A bug: a listener that does not wait for its contents to be acknowledged.
HeaderAckedOnly(h) ==
    /\ pc[h] = "headerAck"
    /\ \E header \in Headers(h) :
          IF header = Ack /\ out[h] # None THEN TakeAndSend(h, out[h]) ELSE Take(h)
    /\ Written(h)
    /\ UNCHANGED <<store, dirty>>

HeaderAcked(h) ==
    /\ pc[h] = "headerAck"
    /\ \E header \in Headers(h) :
        \/ /\ header = Ack /\ out[h] # None
           /\ TakeAndSend(h, out[h])
           /\ Goto(h, "bodyAck", out[h], NoPacket)
        \/ /\ ~(header = Ack /\ out[h] # None)
           /\ Take(h)
           /\ Written(h)
    /\ UNCHANGED <<store, dirty>>

BodyAcked(h) ==
    /\ pc[h] = "bodyAck" /\ Headers(h) # {}
    /\ Take(h)
    /\ Written(h)
    /\ UNCHANGED <<store, dirty>>

(* read_packet.  A header too long for listen's buffer is not acknowledged,*)
(* and neither is an ACK; its opcode counts all the same.                  *)
ReadHeader(h) ==
    /\ pc[h] = "readHeader"
    /\ \E header \in Headers(h) :
        LET skip == header.cmd = "ACK" \/ (Doing(h, "LISTEN") /\ header.long) IN
        /\ IF skip THEN Take(h) ELSE TakeAndSend(h, Ack)
        /\ Goto(h, IF skip \/ header.empty THEN "got" ELSE "readBody",
                None, Packet(header.cmd, None))
    /\ UNCHANGED <<store, dirty>>

\* A bug: the contents of an answer are not acknowledged.
ReadBodyNoAck(h) ==
    /\ pc[h] = "readBody"
    /\ \E body \in Contents(h) : Goto(h, "got", None, Packet(got[h].cmd, body))
    /\ IF Asking(h) THEN Take(h) ELSE TakeAndSend(h, Ack)
    /\ UNCHANGED <<store, dirty>>

ReadBody(h) ==
    /\ pc[h] = "readBody"
    /\ \E body \in Contents(h) : Goto(h, "got", None, Packet(got[h].cmd, body))
    /\ TakeAndSend(h, Ack)
    /\ UNCHANGED <<store, dirty>>

(* The answer to a requester.  receive stores whatever came under its own  *)
(* opcode.                                                                 *)
Mismatch(h) ==
    /\ pc[h] = "got" /\ Asking(h)
    /\ ~Doing(h, got[h].cmd)
    /\ Respond(h, "ERROR")
    /\ UNCHANGED <<store, dirty, wire>>

Interrogated(h) ==
    /\ pc[h] = "got" /\ Doing(h, "INTERROGATE")
    /\ got[h].cmd = "INTERROGATE"
    /\ Respond(h, "INTERROGATE")
    /\ UNCHANGED <<store, dirty, wire>>

\* A bug: storing the file where it was read, not where it is wanted.
ReceivedInReadSlot(h) ==
    /\ pc[h] = "got" /\ Doing(h, "RECEIVE")
    /\ got[h].cmd = "RECEIVE"
    /\ command[h].read_slot \in Slots
    /\ WriteFile(h, command[h].read_slot, got[h].body)
    /\ UNCHANGED wire

Received(h) ==
    /\ pc[h] = "got" /\ Doing(h, "RECEIVE")
    /\ got[h].cmd = "RECEIVE"
    /\ command[h].write_slot \in Slots
    /\ WriteFile(h, command[h].write_slot, got[h].body)
    /\ UNCHANGED wire

(* The slot of the write_file that write or receive is in.                 *)
Target(h) == IF Doing(h, "WRITE") THEN command[h].slot ELSE command[h].write_slot

Stored(h) ==
    /\ pc[h] = "writing"
    /\ WriteFileDone(h, Target(h), command[h].op)
    /\ UNCHANGED wire

-----------------------------------------------------------------------------
(***************************************************************************)
(* listen's answer                                                         *)
(***************************************************************************)
(* The buffer for the request is all zeros if read_packet refused it, and  *)
(* may be anything if the contents are stray.                              *)
ZeroRequest == Request(0, [i \in 1 .. MAX_PERMS |-> ZeroEntry])

RequestOf(h) == IF got[h].body.kind = "request" THEN got[h].body ELSE ZeroRequest
IsStray(h) == astray /\ got[h].body.kind = "file"
RequestedSlots(h) == IF IsStray(h) THEN SlotNumbers ELSE {RequestOf(h).slot}

(* generate_list_files: damaged slots may or may not count.                *)
Lists(h) ==
    {ListBody(\E s, t \in listed : s # t) :
        listed \in {l \in SUBSET Slots :
                       \A s \in Slots : /\ store[h][s] \in Files => s \in l
                                        /\ store[h][s] = Empty => s \notin l}}

AnswerInterrogate(h) ==
    /\ pc[h] = "got" /\ Doing(h, "LISTEN")
    /\ got[h].cmd = "INTERROGATE"
    /\ \E body \in Lists(h) : WritePacket(h, "INTERROGATE", body)
    /\ UNCHANGED <<store, dirty>>

\* Bugs Granted could have: not asking for a permission, going by the
\* listener's own.
GrantedToAll(h, request, group) == TRUE
GrantedByOwnTable(h, request, group) ==
    RequesterMayReceive(global_permissions[h], group)

Granted(h, request, group) == RequesterMayReceive(request.permissions, group)

\* A bug: an error to the host, and none to the requester.
DenyHostOnly(h) ==
    /\ Respond(h, "ERROR")
    /\ UNCHANGED wire

Deny(h) == WritePacket(h, "ERROR", ErrorText)

AnswerReceive(h) ==
    /\ pc[h] = "got" /\ Doing(h, "LISTEN")
    /\ got[h].cmd = "RECEIVE"
    /\ \E slot \in RequestedSlots(h) \cap Slots :
        \/ /\ store[h][slot] \in {Empty, Damaged} \/ IsStray(h)
           /\ Deny(h)
        \/ /\ store[h][slot] # Empty
           /\ \E group \in GroupsIn(h, slot) :
                 IF IsStray(h) \/ Granted(h, RequestOf(h), group)
                 THEN WritePacket(h, "RECEIVE", FileBody(store[h][slot]))
                 ELSE Deny(h)
    /\ UNCHANGED <<store, dirty>>

(* Any other opcode: the requester, if there is one, gets no answer.       *)
AnswerNothing(h) ==
    /\ pc[h] = "got" /\ Doing(h, "LISTEN")
    /\ got[h].cmd \notin {"INTERROGATE", "RECEIVE"}
    /\ Respond(h, "LISTEN")
    /\ UNCHANGED <<store, dirty, wire>>

-----------------------------------------------------------------------------
(***************************************************************************)
(* What may not stay within its arrays: the name or the contents of a      *)
(* damaged file, a slot beyond the table, an answer of any length read     *)
(* into a list_response_t or a receive_response_t.                         *)
(***************************************************************************)
Unsafe(h, slot) == slot \in Slots => store[h][slot] = Damaged

UnsafeCommand(h) ==
    /\ pc[h] = "dispatch"
    /\ \/ Doing(h, "LIST") /\ \E s \in Slots : Unsafe(h, s)
       \/ Doing(h, "READ") /\ Unsafe(h, command[h].slot)
       \/ /\ Doing(h, "WRITE") /\ MayWrite(h, command[h].file)
          /\ command[h].slot \notin Slots
    /\ CheckPin(h)

UnsafeAnswer(h) ==
    /\ pc[h] = "got" /\ Asking(h)
    /\ \/ Doing(h, "INTERROGATE") /\ got[h].body.kind = "file"
       \/ got[h].body = FileBody(Damaged)
       \/ /\ Doing(h, "RECEIVE") /\ got[h].cmd = "RECEIVE"
          /\ command[h].write_slot \notin Slots

UnsafeRequest(h) ==
    /\ pc[h] = "got" /\ Doing(h, "LISTEN")
    /\ \/ got[h].cmd = "INTERROGATE" /\ \E s \in Slots : Unsafe(h, s)
       \/ got[h].cmd = "RECEIVE" /\ \E s \in RequestedSlots(h) : Unsafe(h, s)

Undefined(h) ==
    /\ UnsafeCommand(h) \/ UnsafeAnswer(h) \/ UnsafeRequest(h)
    /\ pc' = [pc EXCEPT ![h] = "undefined"]
    /\ command' = [command EXCEPT ![h] = NoCommand]
    /\ out' = [out EXCEPT ![h] = None]
    /\ got' = [got EXCEPT ![h] = NoPacket]
    /\ GoAstray
    /\ UNCHANGED <<store, dirty, reply, resets>>

-----------------------------------------------------------------------------
(***************************************************************************)
(* What comes at the wrong time.  A unit nobody reads is lost, or a part of*)
(* it is.  An HSM that expects a header skips contents, unless they hold   *)
(* MSG_MAGIC, which begins one.  One that expects contents takes a header  *)
(* for a part of them, and one that has sent a block of its contents takes *)
(* any header for its acknowledgement, and sends the next.                 *)
(***************************************************************************)
NotReading == {"main", "dispatch", "got", "writing"}

Overrun(h) ==
    /\ pc[h] \in NotReading /\ wire[h] # <<>>
    /\ GoAstray \/ (Take(h) /\ UNCHANGED astray)
    /\ UNCHANGED <<store, dirty, pc, command, out, got, reply, resets>>

Skip(h) ==
    /\ ~astray
    /\ pc[h] \in {"readHeader", "headerAck", "bodyAck"} /\ Contents(h) # {}
    /\ GoAstray \/ (Take(h) /\ UNCHANGED astray)
    /\ UNCHANGED <<store, dirty, pc, command, out, got, reply, resets>>

Garble(h) ==
    /\ ~astray /\ Headers(h) # {}
    /\ \/ pc[h] = "readBody"
       \/ pc[h] = "bodyAck" /\ (Headers(h) # {Ack} \/ wire[Other(h)] # <<>>)
    /\ GoAstray
    /\ UNCHANGED <<store, dirty, pc, command, out, got, reply, resets>>

(***************************************************************************)
(* A reset, with the wire still carrying what was sent, or not, or a part  *)
(* of it.  What it leaves of the store is FileStore's, which FileSystem    *)
(* implements.                                                             *)
(***************************************************************************)
Bodies ==
    {None, ErrorText} \cup {ListBody(several) : several \in BOOLEAN}
      \cup {FileBody(f) : f \in Files \cup {Damaged}}
      \cup {Request(s, t) :
               s \in SlotNumbers, t \in {global_permissions[h] : h \in Hsms}}

Content(w) == IF w.body.kind = "file" THEN w.body.file ELSE Damaged

Store(h) ==
    INSTANCE FileStore WITH
        Writes <- [slot : Slots, body : Bodies], Nothing <- NoCommand,
        shown <- store[h], dirty <- h \in dirty,
        writing <- IF pc[h] = "writing"
                   THEN [slot |-> Target(h), body |-> got[h].body]
                   ELSE NoCommand

Reset(h) ==
    /\ resets < MaxResets /\ pc[h] # "undefined"
    /\ resets' = resets + 1
    /\ pc' = [pc EXCEPT ![h] = "main"]
    /\ command' = [command EXCEPT ![h] = NoCommand]
    /\ out' = [out EXCEPT ![h] = None]
    /\ got' = [got EXCEPT ![h] = NoPacket]
    /\ reply' = [reply EXCEPT ![h] = "NONE"]
    /\ \/ /\ wire' \in {wire, [wire EXCEPT ![h] = <<>>]}
          /\ UNCHANGED astray
       \/ /\ \E g \in Hsms : wire[g] # <<>> \/ pc[g] \notin {"main", "writing"}
          /\ GoAstray
    /\ \E contents \in Store(h)!AfterReset(store[h], h \in dirty) :
          store' = [store EXCEPT ![h] = contents]
    /\ dirty' = dirty \ {h}

-----------------------------------------------------------------------------
Step(h) ==
    \/ Invalid(h)
    \/ WrongPin(h)
    \/ List(h)
    \/ Read(h)
    \/ Write(h)
    \/ Ask(h)
    \/ Listen(h)
    \/ HeaderAcked(h)
    \/ BodyAcked(h)
    \/ ReadHeader(h)
    \/ ReadBody(h)
    \/ Mismatch(h)
    \/ Interrogated(h)
    \/ Received(h)
    \/ Stored(h)
    \/ AnswerInterrogate(h)
    \/ AnswerReceive(h)
    \/ AnswerNothing(h)
    \/ Undefined(h)
    \/ Skip(h)
    \/ Garble(h)

Next ==
    \E h \in Hsms :
        \/ \E c \in HostCommands : HostCommand(h, c)
        \/ Step(h)
        \/ Overrun(h)
        \/ Reset(h)

Spec == Init /\ [][Next]_vars

(* An HSM keeps running: it only blocks in uart_readbyte, which returns    *)
(* when there is a byte.  The hosts need not send anything.                *)
FairSpec == Spec /\ \A h \in Hsms : WF_vars(Step(h))

-----------------------------------------------------------------------------
(***************************************************************************)
(* Properties                                                              *)
(***************************************************************************)
Places == NotReading \cup {"headerAck", "bodyAck", "readHeader", "readBody", "undefined"}
Packets == [cmd : Opcodes, body : Bodies]
Units == Bodies \cup [kind : {"header"}, cmd : Opcodes, empty : BOOLEAN, long : BOOLEAN]
Replies == {"NONE", "ERROR", "LIST", "READ", "WRITE", "RECEIVE", "INTERROGATE", "LISTEN"}

(* The type of every variable.  In the main loop nothing is left of the    *)
(* last command.                                                           *)
TypeOK ==
    /\ store \in [Hsms -> [Slots -> Files \cup {Empty, Damaged}]]
    /\ dirty \subseteq Hsms
    /\ pc \in [Hsms -> Places]
    /\ command \in [Hsms -> HostCommands \cup {NoCommand}]
    /\ out \in [Hsms -> Bodies]
    /\ got \in [Hsms -> Packets]
    /\ wire \in [Hsms -> Seq(Units)]
    /\ astray \in BOOLEAN
    /\ reply \in [Hsms -> Replies]
    /\ resets \in 0 .. MaxResets
    /\ \A h \in Hsms :
          /\ pc[h] \in {"main", "undefined"} <=> command[h] = NoCommand
          /\ command[h] = NoCommand => out[h] = None /\ got[h] = NoPacket

MayReceive(h, f) == RequesterMayReceive(global_permissions[h], GroupOf[f])

(* A step may change what slot s of h shows, and to what.                  *)
ChangeAllowed(h, s) ==
    LET f == store'[h][s] IN
    f # store[h][s] =>
        \/ f = Empty /\ h \in dirty /\ resets' > resets
        \/ /\ CheckPin(h)
           /\ \/ /\ Doing(h, "WRITE") /\ command[h].slot = s
                 /\ f = Damaged \/ MayWrite(h, f)
              \/ /\ Doing(h, "RECEIVE") /\ command[h].write_slot = s
                 /\ f = Damaged \/ MayReceive(h, f) \/ astray

(* As long as an HSM has not gone beyond an array, what it stores changes  *)
(* only for a write or a receive with its PIN, in the slot that was named, *)
(* and the file that comes there is one of a group it may write, or may    *)
(* receive: whatever the two HSMs were doing, whoever was reset, and       *)
(* whichever packets crossed, unless one of the two has lost its place on  *)
(* the wire; then a receive stores whatever it reads.  A reset drops files *)
(* only if the HSM was storing its table, or could not store it.           *)
StoreChangesAllowed == [][\A h \in Hsms, s \in Slots : ChangeAllowed(h, s)]_vars

(* Each HSM's handlers use their store the way FileStore has it.           *)
StoresUsed ==
    [][\A h \in Hsms :
          \/ UNCHANGED <<store[h], h \in dirty, pc[h] = "writing">>
          \/ Store(h)!Next]_vars

(* If the hosts agree who listens and who asks, and name slots that exist, *)
(* and the flash works, the two HSMs stay in step: whatever is on the wire *)
(* to an HSM is what it is reading, or about to read, next.  So nothing is *)
(* lost, though the UART has no flow control, nothing is left for the next *)
(* exchange to trip over, and nothing is read or written beyond an array.  *)
InStep ==
    /\ ~astray
    /\ \A h \in Hsms :
        /\ pc[h] # "undefined"
        /\ wire[h] # <<>> =>
              \/ pc[h] \in {"readHeader", "headerAck", "bodyAck"} /\ Headers(h) # {}
              \/ pc[h] = "readBody" /\ Contents(h) # {}

(* "so requester doesn't hang": whatever the listener finds, and whether   *)
(* it grants or denies, a requester gets to answer its host, ...           *)
RequesterAnswers ==
    \A h \in Hsms : Asking(h) ~> pc[h] = "main"

(* ... and the listener it asks gets to answer its own.                    *)
ListenerAnswers ==
    \A h \in Hsms :
        Asking(h) /\ CheckPin(h) /\ pc[h] = "dispatch" ~> pc[Other(h)] = "main"

(***************************************************************************)
(* The offers of a file on their way to an HSM: read, on the wire, or      *)
(* announced by a header.                                                  *)
(***************************************************************************)
Copies(units, body) == Cardinality({i \in 1 .. Len(units) : units[i] = body})

OffersOf(h, f) ==
    Copies(wire[h], FileBody(f))
      + (IF Asking(h) /\ got[h].body = FileBody(f) THEN 1 ELSE 0)
      + (IF pc[Other(h)] = "headerAck" /\ out[Other(h)] = FileBody(f) THEN 1 ELSE 0)

Exchange ==
    INSTANCE FileExchange WITH
        offers <- [h \in Hsms |-> [f \in Files |-> IF astray THEN 0 ELSE OffersOf(h, f)]],
        inStep <- ~astray

(* The commands implement the exchange of files.                           *)
ExchangeSpec == Exchange!Spec
=============================================================================
