--------------------------- MODULE MCSimpleCrypto ---------------------------
(***************************************************************************)
(* SimpleCrypto with bytes of four bits, blocks of two bytes, a key of    *)
(* three and a hash of two: messages of up to two blocks wrap around both. *)
(***************************************************************************)
EXTENDS SimpleCrypto, Bitwise

MCKeys == {[n \in 0 .. 2 |-> 0],
           [n \in 0 .. 2 |-> 4 * n + 3],
           [n \in 0 .. 2 |-> 15 - n]}

(* ByteXor is the operation on naturals of the community module.           *)
ASSUME XorAssumption == \A a, b \in Byte : ByteXor(a, b) = a ^^ b
=============================================================================
