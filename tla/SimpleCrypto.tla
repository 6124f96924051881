---------------------------- MODULE SimpleCrypto ----------------------------
(***************************************************************************)
(* firmware/src/simple_crypto.c, used as crypto_example of HSM.c does:     *)
(* encrypt a message, hash the result, decrypt it again.  (crypto_example  *)
(* itself has one message of a block and a key of zeros.)                  *)
(*                                                                         *)
(* The hash is computed in place, byte after byte, in a buffer that holds  *)
(* anything before.                                                        *)
(***************************************************************************)
EXTENDS Integers

CONSTANTS
    BLOCK_SIZE, KEY_SIZE, HASH_SIZE,
    BITS,       \* of a byte
    MaxLen,     \* bound on the length of a message
    Keys,       \* keys ...
    Bytes,      \* ... and bytes of messages to try
    Stale       \* bytes buffers may hold before they are written

Power[k \in 0 .. BITS] == IF k = 0 THEN 1 ELSE 2 * Power[k - 1]

Byte == 0 .. (Power[BITS] - 1)
Buffer(len, bytes) == [0 .. (len - 1) -> bytes]

(* The exclusive or of bytes, from the last bit on.                        *)
XorTable[a \in Byte] ==
    [b \in Byte |->
        IF a = 0 THEN b ELSE 2 * XorTable[a \div 2][b \div 2] + ((a + b) % 2)]

ByteXor(a, b) == XorTable[a][b]

ASSUME CryptoAssumption ==
    /\ BITS \in Nat /\ BITS >= 3
    /\ BLOCK_SIZE \in Nat \ {0} /\ KEY_SIZE \in Nat \ {0}
    /\ HASH_SIZE \in Nat \ {0}
    /\ MaxLen \in Nat
    /\ Keys \subseteq Buffer(KEY_SIZE, Byte)
    /\ Bytes \subseteq Byte /\ Stale \subseteq Byte

VARIABLES pc, len, data, key, ciphertext, hash_out, decrypted, i

vars == <<pc, len, data, key, ciphertext, hash_out, decrypted, i>>

Init ==
    /\ pc = "encrypt"
    /\ len \in 0 .. MaxLen
    /\ data \in Buffer(len, Bytes)
    /\ key \in Keys
    /\ \E b \in Stale : ciphertext = [n \in 0 .. (len - 1) |-> b]
    /\ \E b \in Stale : hash_out = [n \in 0 .. (HASH_SIZE - 1) |-> b]
    /\ decrypted = ciphertext
    /\ i = 0

(* Both functions refuse any other length, and leave the output as it is.  *)
GoodLength == len > 0 /\ len % BLOCK_SIZE = 0

\* A bug: the key taken to be as long as a block.
WithBlockOfKey(buf) ==
    [n \in 0 .. (len - 1) |-> ByteXor(buf[n], key[n % BLOCK_SIZE])]

WithKey(buf) ==
    [n \in 0 .. (len - 1) |-> ByteXor(buf[n], key[n % KEY_SIZE])]

Encrypt ==
    /\ pc = "encrypt"
    /\ ciphertext' = IF GoodLength THEN WithKey(data) ELSE ciphertext
    /\ pc' = "clear"
    /\ UNCHANGED <<len, data, key, hash_out, decrypted, i>>

\* A bug: decrypting with the key taken to be as long as a block.
DecryptWithBlockOfKey ==
    /\ pc = "decrypt"
    /\ decrypted' = IF GoodLength THEN WithBlockOfKey(ciphertext)
                    ELSE decrypted
    /\ pc' = "done"
    /\ UNCHANGED <<len, data, key, ciphertext, hash_out, i>>

Decrypt ==
    /\ pc = "decrypt"
    /\ decrypted' = IF GoodLength THEN WithKey(ciphertext) ELSE decrypted
    /\ pc' = "done"
    /\ UNCHANGED <<len, data, key, ciphertext, hash_out, i>>

-----------------------------------------------------------------------------
(***************************************************************************)
(* hash                                                                    *)
(***************************************************************************)
\* A bug: the bits shifted out at the left are kept.
RotateWider(b, n) == (b * Power[n]) + (b \div Power[BITS - n])

RotateLeft(b, n) ==
    ((b * Power[n]) % Power[BITS]) + (b \div Power[BITS - n])

Mixed(h, b) == (RotateLeft(ByteXor(h, b), 1) + b) % Power[BITS]

\* A bug: hash_out not cleared.
KeepHash ==
    /\ pc = "clear"
    /\ pc' = "mix"
    /\ UNCHANGED <<len, data, key, ciphertext, hash_out, decrypted, i>>

ClearHash ==
    /\ pc = "clear"
    /\ hash_out' = [n \in 0 .. (HASH_SIZE - 1) |-> 0]
    /\ pc' = "mix"
    /\ UNCHANGED <<len, data, key, ciphertext, decrypted, i>>

MixByte ==
    /\ pc = "mix" /\ i < len
    /\ hash_out' = [hash_out EXCEPT ![i % HASH_SIZE] = Mixed(@, ciphertext[i])]
    /\ i' = i + 1
    /\ UNCHANGED <<pc, len, data, key, ciphertext, decrypted>>

MixDone ==
    /\ pc = "mix" /\ i = len
    /\ pc' = "diffuse"
    /\ i' = 0
    /\ UNCHANGED <<len, data, key, ciphertext, hash_out, decrypted>>

DiffuseByte ==
    /\ pc = "diffuse" /\ i < HASH_SIZE
    /\ hash_out' = [hash_out EXCEPT ![i] =
                       RotateLeft(
                           ByteXor(@, hash_out[(i + 1) % HASH_SIZE]), 3)]
    /\ i' = i + 1
    /\ UNCHANGED <<pc, len, data, key, ciphertext, decrypted>>

HashDone ==
    /\ pc = "diffuse" /\ i = HASH_SIZE
    /\ pc' = "decrypt"
    /\ i' = 0
    /\ UNCHANGED <<len, data, key, ciphertext, hash_out, decrypted>>

Next ==
    \/ Encrypt
    \/ ClearHash
    \/ MixByte
    \/ MixDone
    \/ DiffuseByte
    \/ HashDone
    \/ Decrypt

Spec == Init /\ [][Next]_vars

-----------------------------------------------------------------------------
(***************************************************************************)
(* Properties                                                              *)
(***************************************************************************)
(* The type of every variable: arithmetic on bytes gives bytes.            *)
TypeOK ==
    /\ pc \in {"encrypt", "clear", "mix", "diffuse", "decrypt", "done"}
    /\ key \in Keys
    /\ \A buf \in {data, ciphertext, decrypted} : buf \in Buffer(len, Byte)
    /\ hash_out \in Buffer(HASH_SIZE, Byte)
    /\ i \in 0 .. (IF pc = "mix" THEN len ELSE HASH_SIZE)

(* What was encrypted is decrypted to itself, for every key and every      *)
(* length the two functions accept: also if a key is longer or shorter     *)
(* than a block, though the header has both of 16 bytes.                   *)
MessageRestored == pc = "done" /\ GoodLength => decrypted = data

(***************************************************************************)
(* The hash, column by column: a column is every HASH_SIZE-th byte of the  *)
(* input, and the last column is mixed with the first as it is already     *)
(* mixed with the second.                                                  *)
(***************************************************************************)
Rows(n, c) == (n + HASH_SIZE - 1 - c) \div HASH_SIZE

Folded(text, n, c) ==
    LET fold[r \in 0 .. Rows(n, c)] ==
            IF r = 0 THEN 0
            ELSE Mixed(fold[r - 1], text[c + HASH_SIZE * (r - 1)])
    IN  fold

Column(c) == Folded(ciphertext, len, c)[Rows(len, c)]

ReferenceHash ==
    LET mixed(c) == RotateLeft(ByteXor(Column(c), Column(c + 1)), 3)
        last == HASH_SIZE - 1
    IN  [c \in 0 .. last |->
            IF c < last THEN mixed(c)
            ELSE RotateLeft(ByteXor(Column(last),
                                IF last = 0 THEN Column(0) ELSE mixed(0)), 3)]

(* The hash is that of the ciphertext alone, whatever was in hash_out, and *)
(* hashing and decrypting leave the ciphertext to each other.              *)
HashExact == pc \in {"decrypt", "done"} => hash_out = ReferenceHash
=============================================================================
