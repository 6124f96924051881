# A TLA+ model of the HSM firmware

Modules that model the firmware in `src/firmware` (the 2026 eCTF example HSM),
configurations that check them with TLC, and theorems about them that TLAPS
proves. Line numbers below are those of `firmware/src/*.c` unless a header is
named.

## The system

An HSM is one thread on a microcontroller. It keeps up to eight files in
on-chip flash, and it talks to its host over one UART (`CONTROL_INTERFACE`) and
to another HSM over a second (`TRANSFER_INTERFACE`). A host lists, reads and
writes files; with `receive` and `interrogate` an HSM asks the other one for a
file or a list, which must be in `listen` at that time.

| Component | State | Operations | Talks to |
|---|---|---|---|
| Flash driver (`simple_flash.c`) | flash words | erase a page, program words, read | flash controller |
| File system (`filesystem.c`) | `FILE_ALLOCATION_TABLE` in RAM and in one flash page; nine pages per slot | `init_fs`, `write_file`, `read_file`, `is_slot_in_use`, `get_file_metadata` | called by the handlers; calls the driver |
| Packet link (`host_messaging.c`, `simple_uart.c`) | what is on the wire; how far a call is | `write_packet`, `read_packet`, ACKs | both UARTs |
| Permissions (`security.c`, generated `secrets.h`) | constant table and PIN | `check_pin`, `validate_permission` | called by the handlers |
| Commands (`commands.c`, `HSM.c`) | none between commands | `list`, `read`, `write`, `receive`, `interrogate`, `listen`, the main loop | all of the above |
| Permission lists (`secrets_to_c_header.py`) | list, text, initializer | `serialize`, `deserialize`, `secrets_to_c_header` | run by the build; gives Permissions its table |
| Crypto helpers (`simple_crypto.c`, `crypto_example`) | buffers of the caller | `encrypt_sym`, `decrypt_sym`, `hash` | called by `list` if `CRYPTO_EXAMPLE` is set |
| `gen_secrets.py`, startup, board configuration, LED, build files | | | not modelled |

What is hard in it:

- **Crashes.** `write_file` is a sequence of flash operations on two regions,
  and the table has a single copy that is erased before it is rewritten. A
  reset or a flash error can fall between any two.
- **Waiting.** There are no timeouts and no flow control. Both ends of a link
  must agree, byte by byte, on who sends next; where they do not, a byte is
  lost or both wait forever.
- **Ignored results.** `write_file` ignores what `store_fat` and the erases
  return, the handlers ignore what `write_packet` and `read_packet` return.
- **Losing one's place.** A header is told from contents by one byte, which
  contents may hold too. An end that was reset, or lost a byte, may read headers
  as contents and contents as headers from then on, and is told of nothing.
- **Sizes in two places.** The table and the file each have a length, the reader
  and the writer of a packet each have a structure; three of the four are
  computed by hand. Neither slots nor lengths of answers are compared with the
  arrays they are used for.
- **Two HSMs, two hosts.** Requests cross, an end is reset in the middle of an
  exchange, `RECEIVE_MSG` is the opcode of a request and of its answer.

What makes each component correct: a stored file survives everything that
happens to other slots, and a slot never shows a mixture (file system); packets
arrive whole, once and in order at an end that has its place in the stream, and
nobody waits forever (link); a file only comes to an HSM through its PIN, in the
named slot, within its permissions, and an exchange ends for both sides
(commands).

## Modules

| Module | Models | How state and actions correspond |
|---|---|---|
| `SimpleFlash` | `simple_flash.c` | Flash is a function from word addresses (byte address / 8) to abstract words. `ErasePage`, `ProgramWord`, `ReadWords` are the three operations; `ProgramWords` the rounding of `flash_simple_write` (80-83). |
| `FileSystem` | `filesystem.c` | `fat` is the table in RAM, word by word; `flash` holds the table's page and the file regions; `pc`, `call`, `idx` are how far `write_file` is. One action per flash operation, each with its failure, and `Reboot` at any point. `stored`, `suspect`, `lost`, `fatDirty`, `faulted`, `eraseFailed` are not in the code: they record what happened, and only properties read them. |
| `FileStore` | abstract | what the file system promises to the handlers: a slot shows nothing, a file, or something of which nothing is promised (`Damaged`); a write damages only its own slot until it ends well; a reset may drop files only while the table in flash is unreliable (`dirty`). `FileSystem`'s `StoreSpec` and `Commands`' `StoresUsed` are this module under two mappings. |
| `FileSystem_proofs` | | theorems about `FileSystem`, the last that it implements `FileStore` |
| `Layout` | `filesystem.h`, `commands.h`, `security.h`, lengths in `commands.c` | `FileSystem` with the firmware's own constants, and the lengths of the answers `listen` may get as operators. Its only step is the beginning of a `write_file`, for every slot and every `contents_len`. |
| `Layout_proofs` | | the theorems about `Layout` |
| `PacketHandover` | abstract | what a link promises: packets handed over whole, once, in order, confirmed only afterwards |
| `PacketLink` | `host_messaging.c`, `simple_uart.c` | Two ends and a `script` of packets; `st` and `pos` are where an end is in `write_packet`/`read_packet` (and `i` of the byte loops), `chan` the wire, `hdr` and `buf` what was read, `astray` the ends that have lost their place in the stream. A header is one unit, contents go byte by byte (for `write_hex` two digits at a time). `HandoverSpec` is `PacketHandover` under a refinement mapping. |
| `PacketLink_proofs` | | theorems about `PacketLink` |
| `Security` | `security.c`, `secrets_to_c_header.py` | operators only: the table as the C initializer leaves it, first-match and any-match lookup, PIN comparison |
| `Permissions` | `secrets_to_c_header.py` | `list` is what an HSM is to have, `text` the build's argument, `permissions` what it has parsed, `initializer` what it has written; one action per entry. |
| `Permissions_proofs` | | theorems about `Permissions`, and when the two lookups of `Security` agree |
| `SimpleCrypto` | `simple_crypto.c`, `crypto_example` | One buffer per variable; `encrypt_sym` and `decrypt_sym` are a step each, the hash, which works in place, one step per byte. `XorTable` and `Power` are `^` and the shifts of C on bytes of `BITS` bits. |
| `SimpleCrypto_proofs` | | theorems about `SimpleCrypto` |
| `FileExchange` | abstract | what two HSMs promise: writes by permission, offers by permission, each offer stored at most once and unchanged, as long as the two are in step; offers are counted per HSM and file |
| `Commands` | `commands.c`, `HSM.c` | Two HSMs. `pc` is where the handler is (`main`, `dispatch`, `headerAck`, `bodyAck`, `readHeader`, `readBody`, `got`, `writing`, or `undefined`), `store` what its slots show and `dirty` whether its table in flash is reliable (as in `FileStore`), `command` what the host sent, `out` what it is sending, `got` what `read_packet` left behind, `wire` the transfer UART, `astray` that the two have lost their place on it, `reply` the type of the response. `ExchangeSpec` is `FileExchange`, where the offers of a file to an HSM are counted: the copies of it on the wire, one if its header was sent and is not yet acknowledged, one if it is in the buffer of the `receive` that asked (`OffersOf`). |
| `Commands_proofs`, `Exchange_proofs`, `InStep_proofs` | | theorems about `Commands`: its invariant, the refinement, and that two HSMs stay in step |
| `MCFileSystem`, `MCLayout`, `MCPacketLink`, `MCCommands`, `MCSimpleCrypto` | | instances for TLC |

How they are composed. `Commands` uses the store of files through `FileStore`:
a `write_file` begins (`WriteFile`), and ends well, with an error, or with an
error nobody noticed (`WriteFileDone`); a reset leaves of the store what
`FileStore!AfterReset` says. That `FileSystem` behaves so is `StoreSpec`, checked
and proved; that the handlers use it so is `StoresUsed`. `Commands` does not
instantiate `PacketLink`, but uses what it shows.
A packet on the transfer wire is a header and one unit of contents
(`PacketLink`, `HandoverSpec`), except that after a reset what comes may be an
answer to a question nobody asked any more, so all such steps are in `Commands`
too: `ReadHeader` of a packet that is not an answer, `HeaderAcked` by something
that is no ACK, `Skip`, `Garble`, `Overrun`.

**Astray.** `read_header` looks for a `%` and takes what follows for a header,
`read_bytes` stores what comes. So an end that reads contents as a header, or a
header as contents, goes on with bytes cut at other places than its partner's,
and returns `MSG_OK` for what it makes of them. The models do not keep those
bytes. In `PacketLink` an end is `astray` then, and `Stray` puts any header or
any byte on its wire, or takes away what is there; the end handles it by the same
actions as before. In `Commands` both HSMs are: whatever each reads is any header,
or any contents (`Incoming`), and a `receive` may store it. Its contents are a
file, possibly `Damaged`, since those are the ones that are stored or sent on;
a listener may find any slot and any permissions in them (`IsStray`).

**Undefined.** Some steps read or write beyond an array: a slot beyond the table
in a command or a request; a file as the answer to `interrogate`, which reads it
into a list; the name or contents of a damaged file. From a state where one is
possible (`UnsafeCommand`, `UnsafeAnswer`, `UnsafeRequest`) the HSM may go to
`pc = "undefined"` and stay there, or, where the code may well survive (a damaged
file with a terminated name, say), go on. Of an HSM that is `undefined` nothing is
said, neither what it stores nor what it sends: the other one is astray.

## Runs

| Run | Question | Bounds |
|---|---|---|
| `file_system` | Do files survive resets and flash errors? | 2 slots of two 4-word pages, a file of one page and two of two pages, 2 uuids; 3 calls, resets unbounded, 1 flash error the code ignores |
| `write_ends` | Does every `write_file` return? | as `file_system`, 2 calls |
| `torn_size` | Is the size that is sent the size that is stored? (It is not.) | as `file_system`, 2 calls, no flash errors |
| `layout` | Are the pages erased those programmed, and does `listen` refuse what `Commands` says? | none: the firmware's constants, all 8 slots, every `contents_len` from 0 to 8192 |
| `link` | Is every conversation handed over, with both ends returning? | blocks of 2 bytes, all conversations of two packets of 0 to 5 bytes in either direction with DEBUG packets of `write_packet` and `write_hex`, and three-packet ones |
| `link_faults` | Is it still whole and in order when ends are reset? | two resets, lost bytes; conversations of three packets of 3 bytes, with refused lengths and acknowledged `write_hex` packets (which the firmware never sends); headers of length 2 for an end astray |
| `link_refused` | Is a refused packet neither sent nor reported as sent, and when does an end lose its place? | all conversations of three packets of 0 or 3 bytes with and without a limit that is too low, no resets |
| `link_block_ack` | Does `write_bytes` honour a missing ACK? (It does not.) | as `link_refused`, one reset |
| `coordinated` | Do both HSMs stay in step, answer their hosts, and implement the exchange? | 2 slots, 2 files of different groups, a right and a wrong PIN; no resets and no flash errors |
| `uncoordinated` | Do PIN, slot and permissions hold whatever happens? | 2 slots and a number beyond, a file only one HSM may receive, crossing requests, one reset at any point, a flash error of any `write_file` |
| `permissions` | Does an HSM get the permissions of its list? | all lists of up to 3 entries for a table of 2, 2 group ids and a number too wide for them |
| `crypto` | Is what was encrypted decrypted, and the hash that of the ciphertext? | bytes of 4 bits, 4 of them in messages; blocks of 2, a key of 3, a hash of 2, messages of 0 to 4 bytes, 3 keys, stale buffers |

Why the bounds are enough to meet the interesting cases:

- Three writes on two slots overwrite a slot, write next to a slot that is
  stored, and retry after a reset. A file that is only a header and two files of
  two pages, one of them ending within a word, have every case of the page loop:
  an erase too few or too many, a long file replaced by a short one, and one
  long file by another that a torn write could blend with it.
- With blocks of two bytes the lengths 0 to 5 are: no contents, less than a
  block, exactly one and two blocks, and one byte over each.
- In `coordinated` each HSM may receive files of one group only: hsmA of the one
  it may not write, hsmB of the one hsmA may not receive. Two slots make the slot
  that is read differ from the one that is written, and make a list too long for
  `listen`'s buffer. `SlotNumbers` has one number more than the table has slots.
- `write_ends` and `torn_size` need one file over another, hence two calls.
- In `permissions` three entries can hold a group twice, and are one too many for
  the table; in `crypto` messages wrap around the key and the hash.
- `uncoordinated` leaves `reply` out of the state (`VIEW AllButReply`): it is
  written and never read. hsmA stores in slot 0 only (`SomeCommands`), hsmB in
  either. And two HSMs that are astray, which have no influence on each other any
  more, are not both busy unless they were when they went astray, and then hsmA
  goes first (`OneAtATime`, an action constraint): each property of the run speaks
  of steps of one HSM and of what that HSM has, so that every step of either that
  could violate it is still taken, beside an idle other. The theorems have none of
  these bounds.
- In `link_faults` states are not extended in which both ends are astray, since
  nothing is logged any more, or a wire to an end astray holds more than one unit,
  which `Stray` may take away (`StillLogs`). One length of a stray header
  (`StrayLens`) is enough: `InOrder` looks at what the other end reads, which sees
  of it how many ACKs come back, and when.
- In `uncoordinated` one reset suffices for an answer to reach an HSM that no
  longer waits for it, and for two requests that crossed to be told apart:
  the HSM that was not reset takes the next request for its answer.

What the properties say:

- `Durable`, `NoBlend`, `FatCoherent`, `ProgramsErased`, `SlotIsolation`: a slot
  whose last write completed is readable, whole and with its uuid, through any
  later writes, resets and errors elsewhere; the one thing that may happen is
  that a reset within `store_fat` drops entries, and then the slot is refused
  and not misread. Words are programmed only when erased, within the slot.
- `StoreSpec`: the same as a refinement, `Shown(s)` being the stored file, `Empty`
  or `Damaged`, and `dirty` being `fatDirty`. It also says what `Durable` does
  not: which steps may change what a slot shows, and that a reset drops files
  only if the table was being stored or could not be.
- `WriteEnds`: whichever flash operations fail, `write_file` returns.
- `PagesExact`, `RefusedByListen`: for each file the pages erased are those
  programmed, in its slot and before the table; and `listen`'s buffer is too small
  for exactly what `Commands` says it refuses.
- `NothingLeftOver`, `Solicited`, `Completes`, `HandoverSpec`: on a link without
  resets and with packets that fit, the two functions agree on every ACK; nothing
  comes while nobody reads, packets that open an exchange and DEBUG packets aside.
- `InOrder`: whatever happens on a link, to an end that has its place in the
  stream no packet is returned in part, twice or with bytes of another, and those
  of one writer come in its order, also while the other end is astray. To an end
  that is astray `read_packet` may return any mixture with `MSG_OK`: one reset of
  a writer within a packet is enough, since the bytes of its next header complete
  it. The order between packets of the two directions is lost with two resets, and
  not promised.
- `RefusedNotSent`: no byte of a packet goes out whose length the reader refused,
  and its writer reports no success, while nobody is astray. (With a reset, an ACK
  that is late can be taken for that of a refused packet; a DEBUG packet waits for
  no ACK.)
- `KeepsPlace`: without resets the only thing that leads an end astray is the
  contents of a DEBUG packet that come while it waits for something else, after a
  packet was refused. That requests and ACKs cross does not.
- `InStep`, `RequesterAnswers`, `ListenerAnswers`: with hosts that agree and name
  slots of the table, and a flash that works, each exchange ends for both HSMs and
  leaves the wire empty; nobody is astray, and nobody goes beyond an array.
- `StoreChangesAllowed`, `ExchangeSpec`: what is stored changes only for a
  command with the PIN, in its slot, with a file the HSM may write or was
  offered and may receive; crossing packets, resets and flash errors can at worst
  leave the named slot damaged, and drop files if the table was unreliable. Once
  the two are astray, a `receive` may store anything in the slot it names, files
  it may not receive included: the properties say that this is all, and that it
  takes losing step. (It cannot be more: the HSM checks nothing of what it
  receives.) Of an HSM that is `undefined` they say nothing.
- `BuiltAsListed`, `NothingGained`: a list without duplicates that fits the table
  gives an HSM exactly its permissions, to itself and to the HSM it asks; any
  other list gives it no more.
- `MessageRestored`, `HashExact`: decryption undoes encryption for every length
  and key; the hash computed in place is the one defined column by column.

`CHECK_DEADLOCK FALSE` is set where the system really may stop: an end whose
partner was reset, and HSMs that ask or listen at the same time, wait forever.

**Fairness.** `FairSpec` of `FileSystem` assumes weak fairness of the steps within
a `write_file` (`WriteStep`): the driver waits for each flash operation, and
nothing else runs; neither calls nor resets are fair. `FairSpec` of `PacketLink` and `Commands` assumes weak fairness of
each end's steps: an HSM is a single thread that blocks only in
`uart_readbyte`, which returns as soon as a byte is there, and each step of an
end stays enabled until it is taken. Nothing is assumed of the hosts:
`HostCommand`, resets and lost bytes have no fairness. So a listener nobody
asks may wait forever; the properties speak of those that are asked.

## Findings

`BlockAckHonoured` is violated: `write_bytes` (86) tests `read_ack(...) < 0`,
while `read_ack` returns `MSG_NO_ACK`, which is 2. Its comments say "Expect an
ACK after sending every 256 bytes" (85) and "A negative value on error" (61).
`PacketLink` models what the code does (`BlockAcked` goes on with any header),
and its other properties hold all the same.

`ActualSizeSent` is violated: "Send actual size only" says `commands.c` (181), and
takes the size from the file's `contents_len` (182, and 50 in `read`), while
`read_file` has filled as many bytes as the table says. After a reset between the
first and the last word of the header the file has its `in_use` and an erased
`contents_len`, 65535: the slot is listed and readable, and the size sent is
neither that of the table nor within the structure. After a reset between the
table and the erase the two are the sizes of two different files.

## Proofs

`FileSystem_proofs` proves, for every number of slots, page size, file size,
uuid size and layout that satisfies the four assumptions of `FileSystem`
(`GeometryAssumption`: the table fits its page, the regions end before it;
`SizeAssumption`: a file fits its region; `IntAssumption`: addresses and
lengths fit an `int`; `ValueAssumption`: an erased word is no data), that
`Spec` implies `TypeOK`, `FatCoherent`, `ProgramsErased`, `Durable`, `NoBlend`
and `SlotIsolation`.

None of the properties is inductive. `IInv` adds:

- `CallInv`: while a write runs its slot is suspect, and RAM has its entry;
- `FatInv`: how many words of the table `store_fat` has programmed, that the
  rest is erased, and that before it starts the entries of the *other* slots
  are in flash;
- `FileInv`: the same for the pages and words of the file;
- `CleanInv`: for a slot that is not suspect, the file is in flash, the entry in
  RAM is the stored one or lost, and the entry in flash is the one in RAM or
  lacks its last word (address and length). The last part is what makes a reset
  harmless: the words of an entry are programmed in order, so that an entry
  that was only partly stored has no length and `read_file` refuses it.

The module first proves arithmetic about layout (regions, the table's page and
its entries do not overlap, `PagesNeeded` covers `FileWords`), then that each
action preserves each part of `IInv`, then the theorems.

`NoBlend` needs no invariant of its own beyond `IInv`, but its own induction:
words of a file region other than the one being written do not change.

Last, `Spec` implies `StoreSpec`, for the same constants. `IInv`
makes what a slot shows a matter of one word in RAM, the last of its entry
(`ShownIsShows`); with that each step of `write_file` is a step of `FileStore` or
changes nothing there. `ResetStep` is the one that needs all of `CleanInv` and
`FatInv`: a reset drops whole files, and only if the table's page was not
completely programmed.

`Layout_proofs`: each property of `Layout`, for every page size, number of slots
and size of a file that `FileSystem`'s assumptions and `LayoutAssumption` allow,
and every file. They need `TypeOK` only, and a hypothesis about the firmware's
numbers, which TLC evaluates (`FirmwareAssumption` of `MCLayout`):

- `PagesExact`, if the first file's region begins with a page (`RegionsAligned`;
  the firmware's is 0x10000, with pages of 0x400): the rounding of the number of
  pages and of the number of words is what there is to prove.
- `RefusedByListen`, with the firmware's sizes of names, permissions and uuids
  (`FirmwareSizes`), for any number of slots: the limit is less than the shortest
  file and a list of two, and at least a list of one and every error text.

`Permissions_proofs`: `Spec` implies `BuiltAsListed` and `NothingGained`, for
lists and tables of any length and group ids of any width
(`PermissionsAssumption`, `SecurityAssumption`). The invariant says that what was
parsed is the beginning of the list, and what was written the beginning of that,
group ids cut to 16 bits; the lemmas relate the two lookups of `security.c` in
such a table to the list. And in any table built from a list in which no group is
twice, `listen`'s search of the requester's table and the requester's own
`validate_permission` give the same answer (`ReceiveChecksAgree`).

`SimpleCrypto_proofs`: `Spec` implies `TypeOK`, `MessageRestored` and `HashExact`,
for bytes of any width from three bits on (`CryptoAssumption`; the hash rotates by
three), any size of blocks, keys and hashes, any length of a message and anything
in the buffers before. Neither of the last two is inductive. `IInv` adds that the
ciphertext is that of the message (`CipherInv`), and what `hash_out` holds while it
is computed (`HashInv`): in the first pass each column is folded up to the row
that has been mixed; in the second the columns before `i` are final, the others as
the first pass left them, except that the last one is diffused with a first one
that is final already, as `ReferenceHash` says too.

This is a proof by induction over data, for which the library's theorems cannot be
used, since they take an operator. `Induction` states it for a *set* of natural
numbers (one that contains 0 and the successor of each of its members contains
all), from the well-foundedness of `<` on them, and `StepwiseFunction` that there
is a function that satisfies a recursive equation. From these follow the equations
of the model's recursive functions (`PowerEquation`, `XorRecursion`,
`FoldedEquation`), that exclusive or cancels itself (`XorCancels`), that a rotated
byte is a byte (`RotateType`), and that the next byte to be mixed is the next row of
its column (`NextRow`). That `ByteXor` is the exclusive or TLC checks against the
community module's, for the bytes of the run (`XorAssumption` of `MCSimpleCrypto`).

### The link

`PacketLink_proofs` assumes `LinkAssumption` (a block is not empty and has an
even number of bytes, the HSM alone sends DEBUG packets, `write_hex` sends two
digits for each byte), and proves for every block size and conversation:

- `TypeCorrect`, from `IInv`, with any resets, refused lengths and
  unacknowledged packets. `IInv` adds where in a packet each state of an end can
  be (`EndInv`): at a block's end when it waits for a block's ACK, at the packet's
  end when it waits for the last, before it everywhere else.
- `NothingLeftOver`, `Solicited` and `HandoverSpec`, for an `Undisturbed` link: no
  end is reset, every packet fits the limit of its reader, `write_hex` is for DEBUG
  packets only (as in the firmware). These hypotheses are those of the run
  `link`. With one reset, or one `write_hex` packet that is acknowledged, TLC finds
  states where an ACK or a byte is left over or comes unasked; a refused length is
  not a hand-over of every packet in order.
- `InOrder`, for every conversation, with any resets, refused lengths,
  acknowledgements taken for those of other packets, and ends astray.
- `RefusedNotSent` and `KeepsPlace`, for an `Unreset` link: no end is reset and `write_hex` is for
  DEBUG packets only (its one use is `print_hex_debug`). Packets of any length meet
  readers of any limit. These hypotheses are those of the run `link_refused`.

For an `Undisturbed` link the argument is `LinkInv`: what is on the wire is a stretch of the *stream* of
its writer, from the unit its reader is at to the unit the writer is at (`Flow`),
and the two ends are in one of five phases: `Flowing` (one of them writes headers
and DEBUG packets unasked, the other reads behind it), `HeaderRead` (the header
was acknowledged), `Sending` (contents on the way; no block ends between what was
read and what was sent, unless the writer waits for it), `BlockRead` (a block was
acknowledged), `Delivered` (the last byte was, and the reader may already send
unasked itself). It also says that `buf` is the beginning of the packet and `log`
the beginning of the conversation. `FlowHead`, `FlowAppend` and `FlowNone` are the lemmas everything
rests on: the first unit of a stretch is the one it begins with, a unit sent
extends it, and a stretch that ends where it begins is empty.

Of this nothing holds on a link that is disturbed. `KeepsOrder` has an invariant
of its own, `DisturbedInv`, for each end that is not astray: of what the other one
has sent and it has still to read (`Coming`: the rest of the packet it is in, then the wire)
each byte comes right after the unit before it of the same packet, with no ACK
in between, headers have rising numbers (`Orderly`), and the last unit is the last the
writer sent of the packet it is at (`WayInv`). So an end reads a packet
from its header on without a gap, or not at all, or it is astray; and what it has read comes before
all it has still to read (`HasRead`, `OrderInv`). Of what an astray end has before
it nothing is known. A header carries the number of
its packet only for such properties: no action looks at it.

`RefusesUnsent` and `PlaceKept` rest on one invariant more, `PlacedInv` (theorem
`Placed`), which says three things of a link nobody of which was reset.

- Until a packet is refused `LinkInv` holds: refusals are all that puts the two
  ends at different packets.
- Until an end loses its place what is known of ACKs holds (`AnswerInv`). After a
  refusal a writer may take a request of the other end for its answer, so there are no
  phases to name. But what has to be acknowledged is
  always the last its writer has sent, and the writer waits (`DemandIsLast`); so an
  ACK on the wire answers that, was sent when all had been read, and comes before any header
  (`AckIsDue`); nobody is ahead of what he has still to read (`NotAhead`); and whoever
  sends contents, or is about to, is being read (`Accepted`, `Held`). Hence a refused
  header was all there was on the wire, and its writer waits for an ACK that does
  not come, until another header makes it give up (`Unsent`).
- If an end has lost its place the conversation has a DEBUG packet with contents:
  by `Held` contents of any other packet only come to the end that reads them.

### The commands

All assume `CommandsAssumption` and `SecurityAssumption`: two HSMs, a table with
an entry, and that `Empty` and `Damaged` are no files. The table has a slot 0, and
its slots are among the numbers a command can name; nothing is assumed of the
others, of permissions, PINs, files and the number of resets.

- `Commands_proofs`: `Spec` implies `TypeOK`, `StoreChangesAllowed` and
  `StoresUsed`. `StoreChangesAllowed` is not inductive, since a handler
  checks when it starts and stores much later. `IInv` says what holds in between, of an
  HSM that is not `undefined`:
  past the dispatch the PIN was right (`PlaceInv`); while a file is written its
  slot is damaged, and a `write` writes what it was given and may write
  (`WritingInv`); whatever is being sent, on the wire or read, if it is a request
  it has the table of the HSM that sends it, and if it is a file, it is one the
  other HSM may receive, unless the two are astray (`TransitInv`). The last part
  holds although answers reach HSMs that no longer wait for them.
- `Exchange_proofs`: `Spec` implies `ExchangeSpec`. Each step is mapped to its
  effect on the store and on the counts of offers. When the two go astray all offers
  are withdrawn (they are counted as none from then on, and `inStep` is `~astray`):
  `FileExchange` lets an HSM that is not in step store any file in the slot a
  command names. The number of
  copies of a file on a wire grows by one when one is sent and shrinks by one
  when one is taken (`CopiesAppend`, `CopiesTail`, by bijections); the header that announces a file is
  an offer until the file follows it.
- `InStep_proofs`: `Spec` implies `InStep`, if the hosts are `Coordinated`, no
  HSM is reset and no flash operation fails, which is the run `coordinated` (in
  `uncoordinated`, where requests cross, it does not hold). The invariant `StepInv` is the course of an exchange
  in ten phases, from `Idle` to `Parting`, each with what is on both wires; for
  every step of either HSM one lemma says which phase follows. Beside it `AllSound`
  keeps the HSMs within their arrays: what commands and requests name is a slot of
  the table, no damaged file is stored, sent or read, and an answer is one to
  what was asked.

### Only model-checked

Liveness (`Completes`, `RequesterAnswers`, `ListenerAnswers`, `WriteEnds`), which
TLAPS does not do. Every other property of a passing run is a theorem: every
invariant, action property and refinement.

## Not modelled

- The bytes an end reads that has lost its place: any header, any contents.
- What an HSM does after it went beyond an array (`undefined`): C says nothing of
  it, and neither do the models, except when it can happen. That is a slot
  beyond the table in a command or a request (no handler tests one, and what is
  found there as an entry of the table depends on the memory after it), a file
  read by `interrogate` into its list, and a damaged file, whose name may have no
  terminator and whose `contents_len` may exceed the buffers (`torn_size` shows
  that there are such files).
- A command of the host that is longer than `uart_buf` (`HSM.c` 147 gives
  `read_packet` no limit), or longer or shorter than its structure. The host's
  side of the control link is not in `Commands`; hosts send the commands of
  `HostCommands`.
- Names, and so one of 32 characters, which has no terminator.
- Whether the stack holds the frames of all functions that are active at once.
  `listen` keeps a file, a list and an answer in its own frame, and calls functions that
  have a file in theirs; what the compiler lets share memory is not in the source.
- That a byte is overrun between two `uart_readbyte` calls of the same read.
- Permission strings that are not well-formed, but for the empty one.
- `boot_flag` (prints a constant text), the LED, `gen_secrets.py` (writes a file
  the firmware does not use), startup and board setup (generated), the linker's
  placement of the program, which shares its region with the files
  (`firmware.ld` 42).

## Plan

1. Done: `FileSystem` and its proofs, `FileStore` and that `FileSystem` implements
   it (checked and proved), `Commands` composed with it, `PacketLink` with `write_hex` and its
   refinement, `Security`, `Permissions`, `Layout` with the firmware's constants,
   `SimpleCrypto`.
2. Done: proofs about every component: the invariants of `FileSystem`,
   `Layout`, `Commands`, `Permissions`, `PacketLink` and `SimpleCrypto`, the refinements
   `StoreSpec`, `StoresUsed`, `ExchangeSpec` and `HandoverSpec`, `InStep`.
3. Model more, if it can be kept small: the host's side of the control link in
   `Commands`, with commands longer than `uart_buf`.
