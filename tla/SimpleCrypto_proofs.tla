------------------------ MODULE SimpleCrypto_proofs ------------------------
(***************************************************************************)
(* Theorems about SimpleCrypto, for bytes, blocks, keys, hashes and        *)
(* messages of any length.                                                 *)
(*                                                                         *)
(* What a recursive function is, and what it computes, is proved with      *)
(* induction in a form without operators as parameters: a set of natural   *)
(* numbers that has 0 and with each number the next one has them all.      *)
(***************************************************************************)
EXTENDS SimpleCrypto, WellFoundedInduction, TLAPS

-----------------------------------------------------------------------------
(***************************************************************************)
(* Induction                                                               *)
(***************************************************************************)

(* A set of natural numbers has a least element.                           *)
LEMMA LeastNatural ==
    ASSUME NEW T \in SUBSET Nat, T # {}
    PROVE  \E x \in T : \A y \in T : x <= y
<1>1. IsWellFoundedOn(OpToRel(<, Nat), Nat)
    BY NatLessThanWellFounded, Zenon
<1>2. PICK x \in T : \A y \in T : ~ (<<y, x>> \in OpToRel(<, Nat))
    BY <1>1, WFMin, Zenon
<1>3. \A y \in T : ~ (y < x)
    BY <1>2, Zenon DEF OpToRel
<1> QED
    BY <1>3

LEMMA Induction ==
    ASSUME NEW T \in SUBSET Nat, 0 \in T, \A n \in T : n + 1 \in T
    PROVE  T = Nat
<1>1. SUFFICES ASSUME T # Nat PROVE FALSE
    OBVIOUS
<1>2. PICK x \in Nat \ T : \A y \in Nat \ T : x <= y
    BY <1>1, LeastNatural
<1>3. x # 0 /\ x - 1 \in Nat
    BY <1>2
<1>4. x - 1 \in T
    BY <1>2, <1>3
<1> QED
    BY <1>2, <1>3, <1>4

(* f begins with base, and each value is what a step makes of the last.    *)
Stepwise(f, n, S, base, step) ==
    /\ f \in [0 .. n -> S]
    /\ f[0] = base
    /\ \A k \in 1 .. n : f[k] = step[k][f[k - 1]]

LEMMA StepwiseFunction ==
    ASSUME NEW n \in Nat, NEW S, NEW base \in S,
           NEW step \in [1 .. n -> [S -> S]]
    PROVE  \E f : Stepwise(f, n, S, base, step)
<1> DEFINE Steps(m, f) ==
               f[0] = base /\ \A k \in 1 .. m : f[k] = step[k][f[k - 1]]
           T == {m \in Nat : m <= n => \E f \in [0 .. m -> S] : Steps(m, f)}
<1>1. 0 \in T
    <2>1. [k \in 0 .. 0 |-> base] \in [0 .. 0 -> S]
        OBVIOUS
    <2>2. Steps(0, [k \in 0 .. 0 |-> base])
        OBVIOUS
    <2> QED
        BY <2>1, <2>2
<1>2. ASSUME NEW m \in T
      PROVE  m + 1 \in T
    <2>0. m \in Nat /\ m + 1 \in Nat
        OBVIOUS
    <2>1. SUFFICES ASSUME m + 1 <= n
                   PROVE  \E f \in [0 .. (m + 1) -> S] : Steps(m + 1, f)
        BY <2>0, Zenon
    <2>2. m \in Nat /\ m + 1 \in 1 .. n
        BY <2>0, <2>1
    <2>3. PICK f \in [0 .. m -> S] : Steps(m, f)
        <3>1. m <= n
            BY <2>2
        <3> QED
            BY <3>1, Zenon
    <2> DEFINE g == [k \in 0 .. (m + 1) |->
                        IF k = m + 1 THEN step[m + 1][f[m]] ELSE f[k]]
    <2>4. f[m] \in S /\ step[m + 1] \in [S -> S]
        BY <2>2, <2>3
    <2>5. step[m + 1][f[m]] \in S
        BY <2>4
    <2>6. /\ g \in [0 .. (m + 1) -> S]
          /\ g[m + 1] = step[m + 1][f[m]]
          /\ \A k \in 0 .. m : g[k] = f[k]
        BY <2>2, <2>3, <2>5
    <2> HIDE DEF g
    <2>7. ASSUME NEW k \in 1 .. (m + 1)
          PROVE  g[k] = step[k][g[k - 1]]
        <3>1. k - 1 \in 0 .. m /\ g[k - 1] = f[k - 1]
            BY <2>2, <2>6
        <3>2. CASE k = m + 1
            BY <3>1, <3>2, <2>2, <2>6
        <3>3. CASE k # m + 1
            <4>1. k \in 1 .. m /\ k \in 0 .. m
                BY <3>3, <2>2
            <4> QED
                BY <4>1, <3>1, <2>3, <2>6
        <3> QED
            BY <3>2, <3>3
    <2>8. g[0] = base
        BY <2>2, <2>3, <2>6
    <2> QED
        BY <2>6, <2>7, <2>8
<1> HIDE DEF T
<1>3. T = Nat
    <2>1. T \in SUBSET Nat
        BY DEF T
    <2> QED
        BY <1>1, <1>2, <2>1, Induction
<1>4. n \in T
    BY <1>3
<1> QED
    BY <1>4 DEF T, Stepwise

-----------------------------------------------------------------------------
(***************************************************************************)
(* Arithmetic                                                              *)
(***************************************************************************)

LEMMA MultiplyMonotonic ==
    ASSUME NEW a \in Nat, NEW b \in Nat, NEW c \in Nat, a <= b
    PROVE  c * a \in Nat /\ c * a <= c * b
<1>1. b - a \in Nat
    OBVIOUS
<1>2. c * (b - a) \in Nat
    BY <1>1
<1>3. c * (b - a) = c * b - c * a
    OBVIOUS
<1> QED
    BY <1>2, <1>3

(* Quotient and remainder are what is multiplied and what is added.        *)
LEMMA Division ==
    ASSUME NEW size \in Nat \ {0}, NEW q \in Nat, NEW r \in 0 .. (size - 1)
    PROVE  (size * q + r) \div size = q /\ (size * q + r) % size = r
<1> DEFINE d == (size * q + r) \div size
           m == (size * q + r) % size
<1>1. size * q + r \in Nat
    OBVIOUS
<1>2. /\ d \in Nat /\ m \in Nat /\ m < size
      /\ size * q + r = size * d + m
    BY <1>1
<1> HIDE DEF d, m
<1>3. size * (q - d) = m - r
    BY <1>1, <1>2
<1>4. ~ (1 <= q - d)
    <2>1. SUFFICES ASSUME 1 <= q - d PROVE FALSE
        OBVIOUS
    <2>2. size * 1 <= size * (q - d)
        BY <1>2, <2>1, MultiplyMonotonic
    <2> QED
        BY <1>2, <1>3, <2>2
<1>5. ~ (1 <= d - q)
    <2>1. SUFFICES ASSUME 1 <= d - q PROVE FALSE
        OBVIOUS
    <2>2. size * 1 <= size * (d - q)
        BY <1>2, <2>1, MultiplyMonotonic
    <2>3. size * (d - q) = r - m
        BY <1>2, <1>3
    <2> QED
        BY <1>2, <2>2, <2>3
<1>6. d = q
    BY <1>2, <1>4, <1>5
<1>7. m = r
    BY <1>2, <1>3, <1>6
<1> QED
    BY <1>6, <1>7 DEF d, m

-----------------------------------------------------------------------------
(***************************************************************************)
(* Bytes                                                                   *)
(***************************************************************************)

LEMMA PowerEquation ==
    /\ Power[0] = 1
    /\ \A k \in 1 .. BITS : Power[k] = 2 * Power[k - 1]
<1> DEFINE double == [k \in 1 .. BITS |-> [v \in Nat |-> 2 * v]]
<1>1. BITS \in Nat /\ double \in [1 .. BITS -> [Nat -> Nat]]
    BY CryptoAssumption
<1>2. PICK f : /\ f \in [0 .. BITS -> Nat]
               /\ f[0] = 1
               /\ \A k \in 1 .. BITS : f[k] = double[k][f[k - 1]]
    <2> HIDE DEF double
    <2>1. 1 \in Nat
        OBVIOUS
    <2>2. \E f : Stepwise(f, BITS, Nat, 1, double)
        BY <1>1, <2>1, StepwiseFunction, Zenon
    <2> QED
        BY <2>2, Zenon DEF Stepwise
<1>3. \A k \in 1 .. BITS : f[k] = 2 * f[k - 1]
    <2> SUFFICES ASSUME NEW k \in 1 .. BITS PROVE f[k] = 2 * f[k - 1]
        OBVIOUS
    <2>1. f[k - 1] \in Nat
        BY <1>1, <1>2
    <2> QED
        BY <1>2, <2>1
<1>4. f = [k \in 0 .. BITS |-> IF k = 0 THEN 1 ELSE 2 * f[k - 1]]
    BY <1>1, <1>2, <1>3
<1>5. Power = [k \in 0 .. BITS |-> IF k = 0 THEN 1 ELSE 2 * Power[k - 1]]
    BY <1>4, Zenon DEF Power
<1> QED
    BY <1>1, <1>5

LEMMA Powers == \A k \in 0 .. BITS : Power[k] \in Nat \ {0}
<1> DEFINE T == {k \in Nat : k <= BITS => Power[k] \in Nat \ {0}}
<1>0. BITS \in Nat
    BY CryptoAssumption
<1>1. 0 \in T
    BY PowerEquation
<1>2. ASSUME NEW k \in T
      PROVE  k + 1 \in T
    <2>1. SUFFICES ASSUME k + 1 <= BITS PROVE Power[k + 1] \in Nat \ {0}
        BY DEF T
    <2>2. Power[k] \in Nat \ {0} /\ k + 1 \in 1 .. BITS
        BY <2>1, <1>0
    <2> QED
        BY <2>2, PowerEquation
<1>3. T = Nat
    <2>1. T \in SUBSET Nat
        OBVIOUS
    <2> HIDE DEF T
    <2> QED
        BY <1>1, <1>2, <2>1, Induction
<1> QED
    BY <1>0, <1>3

(* A smaller power is not larger.                                          *)
LEMMA PowerAtMost == \A k \in 0 .. BITS : Power[k] <= Power[BITS]
<1> DEFINE T == {d \in Nat : d <= BITS => Power[BITS - d] <= Power[BITS]}
<1>0. BITS \in Nat
    BY CryptoAssumption
<1>1. 0 \in T
    BY <1>0, Powers
<1>2. ASSUME NEW d \in T
      PROVE  d + 1 \in T
    <2>1. SUFFICES ASSUME d + 1 <= BITS PROVE Power[BITS - (d + 1)] <= Power[BITS]
        BY DEF T
    <2>2. /\ Power[BITS - d] <= Power[BITS]
          /\ BITS - d \in 1 .. BITS
          /\ (BITS - d) - 1 = BITS - (d + 1)
          /\ BITS - (d + 1) \in 0 .. BITS
        BY <2>1, <1>0
    <2>3. Power[BITS - d] = 2 * Power[BITS - (d + 1)]
        BY <2>2, PowerEquation
    <2> QED
        BY <1>0, <2>2, <2>3, Powers
<1>3. T = Nat
    <2>1. T \in SUBSET Nat
        OBVIOUS
    <2> HIDE DEF T
    <2> QED
        BY <1>1, <1>2, <2>1, Induction
<1>4. ASSUME NEW k \in 0 .. BITS
      PROVE  Power[k] <= Power[BITS]
    <2>1. BITS - k \in T /\ BITS - k <= BITS /\ BITS - (BITS - k) = k
        BY <1>0, <1>3
    <2> QED
        BY <2>1
<1> QED
    BY <1>4

LEMMA Bits ==
    /\ BITS \in Nat /\ 3 <= BITS
    /\ Power[BITS] \in Nat \ {0}
    /\ Byte = 0 .. (Power[BITS] - 1)
    /\ 0 \in Byte
    /\ Byte \subseteq Nat
BY CryptoAssumption, Powers DEF Byte

(* Bit by bit, from the last one.                                          *)
LEMMA XorRecursion ==
    XorTable = [a \in Byte |->
                  [b \in Byte |->
                     IF a = 0 THEN b
                     ELSE 2 * XorTable[a \div 2][b \div 2] + ((a + b) % 2)]]
<1> DEFINE Row(f, a) == [b \in Byte |->
                            IF a = 0 THEN b
                            ELSE 2 * f[a \div 2][b \div 2] + ((a + b) % 2)]
           Tabulates(f, m) == \A a \in 0 .. m : f[a] = Row(f, a)
           T == {m \in Nat : \E f : Tabulates(f, m)}
<1>1. 0 \in T
    <2> DEFINE f == [a \in {0} |-> [b \in Byte |-> b]]
    <2>1. Tabulates(f, 0)
        OBVIOUS
    <2> HIDE DEF Tabulates, f
    <2> QED
        BY <2>1
<1>2. ASSUME NEW m \in T
      PROVE  m + 1 \in T
    <2>1. m \in Nat
        OBVIOUS
    <2>2. PICK f : Tabulates(f, m)
        BY Zenon
    <2> DEFINE g == [a \in 0 .. (m + 1) |->
                        IF a = m + 1 THEN Row(f, m + 1) ELSE f[a]]
    <2>3. /\ g[m + 1] = Row(f, m + 1)
          /\ \A a \in 0 .. m : g[a] = f[a]
        BY <2>1
    <2> HIDE DEF g
    <2>4. ASSUME NEW a \in 0 .. (m + 1)
          PROVE  g[a] = Row(g, a)
        <3>1. a # 0 => a \div 2 \in 0 .. m
            BY <2>1
        <3>2. Row(g, a) = Row(f, a)
            BY <3>1, <2>3
        <3>3. CASE a = m + 1
            BY <3>2, <3>3, <2>3, Zenon
        <3>4. CASE a # m + 1
            <4>1. a \in 0 .. m
                BY <3>4, <2>1
            <4>2. f[a] = Row(f, a)
                BY <4>1, <2>2, Zenon
            <4> QED
                BY <4>1, <4>2, <3>2, <2>3, Zenon
        <3> QED
            BY <3>3, <3>4
    <2>5. Tabulates(g, m + 1)
        BY <2>4, Zenon
    <2>6. m + 1 \in Nat
        BY <2>1
    <2> QED
        BY <2>5, <2>6, Zenon
<1>3. T = Nat
    <2>1. T \in SUBSET Nat
        OBVIOUS
    <2> HIDE DEF T
    <2> QED
        BY <1>1, <1>2, <2>1, Induction
<1>4. Power[BITS] - 1 \in T
    <2>1. Power[BITS] - 1 \in Nat
        BY Bits
    <2> HIDE DEF T
    <2> QED
        BY <1>3, <2>1
<1>5. PICK f : Tabulates(f, Power[BITS] - 1)
    BY <1>4, Zenon
<1>6. \A a \in Byte : f[a] = Row(f, a)
    BY <1>5, Bits, Zenon
<1> DEFINE g == [a \in Byte |-> f[a]]
<1>7. ASSUME NEW a \in Byte
      PROVE  g[a] = Row(g, a)
    <2>1. a # 0 => a \div 2 \in Byte
        BY Bits
    <2>2. Row(g, a) = Row(f, a)
        BY <2>1
    <2> QED
        BY <1>6, <2>2
<1> HIDE DEF Row
<1>8. g = [a \in Byte |-> Row(g, a)]
    <2>1. \A a \in Byte : g[a] = Row(g, a)
        BY <1>7, Zenon
    <2>2. g = [a \in Byte |-> g[a]]
        BY Zenon
    <2> HIDE DEF g
    <2> QED
        BY <2>1, <2>2, Zenon
<1> HIDE DEF g
<1> QED
    BY <1>8, Zenon DEF XorTable, Row

(* The first row is a case of the equation, too.                           *)
LEMMA XorEquation ==
    ASSUME NEW a \in Byte, NEW b \in Byte
    PROVE  /\ a \div 2 \in Byte /\ b \div 2 \in Byte
           /\ ByteXor(a, b) = 2 * ByteXor(a \div 2, b \div 2) + ((a + b) % 2)
           /\ a = 0 => ByteXor(a, b) = b
<1>1. \A c, d \in Byte :
         ByteXor(c, d) = IF c = 0 THEN d
                     ELSE 2 * ByteXor(c \div 2, d \div 2) + ((c + d) % 2)
    BY XorRecursion DEF ByteXor
<1>2. a \div 2 \in Byte /\ b \div 2 \in Byte
    BY Bits
<1>3. CASE a = 0
    <2>1. ByteXor(a, b) = b /\ ByteXor(a \div 2, b \div 2) = b \div 2
        BY <1>1, <1>2, <1>3
    <2> QED
        BY <1>2, <1>3, <2>1, Bits
<1>4. CASE a # 0
    BY <1>1, <1>2, <1>4
<1> QED
    BY <1>3, <1>4

(* The exclusive or has no more bits than what it is made of.              *)
LEMMA XorBounds ==
    \A k \in 0 .. BITS : \A a, b \in 0 .. (Power[k] - 1) :
        ByteXor(a, b) \in 0 .. (Power[k] - 1)
<1> DEFINE Bounded(k) == \A a, b \in 0 .. (Power[k] - 1) :
                            ByteXor(a, b) \in 0 .. (Power[k] - 1)
           T == {k \in Nat : k <= BITS => Bounded(k)}
<1>1. 0 \in T
    <2>1. ByteXor(0, 0) = 0
        BY Bits, XorEquation
    <2> QED
        BY <2>1, PowerEquation
<1>2. ASSUME NEW k \in T
      PROVE  k + 1 \in T
    <2>1. SUFFICES ASSUME k + 1 <= BITS PROVE Bounded(k + 1)
        BY DEF T
    <2>2. k \in 0 .. BITS /\ k + 1 \in 1 .. BITS /\ Bounded(k)
        BY <2>1, Bits
    <2>3. SUFFICES ASSUME NEW a \in 0 .. (Power[k + 1] - 1),
                          NEW b \in 0 .. (Power[k + 1] - 1)
                   PROVE  ByteXor(a, b) \in 0 .. (Power[k + 1] - 1)
        BY Zenon
    <2>4. Power[k + 1] = 2 * Power[k] /\ Power[k] \in Nat \ {0}
        BY <2>2, PowerEquation, Powers
    <2>5. a \in Byte /\ b \in Byte
        <3>1. Power[k + 1] <= Power[BITS] /\ k + 1 \in 0 .. BITS
            BY <2>2, Bits, PowerAtMost
        <3> QED
            BY <2>4, <3>1, Bits
    <2>6. a \div 2 \in 0 .. (Power[k] - 1) /\ b \div 2 \in 0 .. (Power[k] - 1)
        BY <2>4
    <2>7. ByteXor(a \div 2, b \div 2) \in 0 .. (Power[k] - 1)
        BY <2>2, <2>6
    <2>8. ByteXor(a, b) = 2 * ByteXor(a \div 2, b \div 2) + ((a + b) % 2)
        BY <2>5, XorEquation
    <2> QED
        BY <2>4, <2>7, <2>8
<1>3. T = Nat
    <2>1. T \in SUBSET Nat
        OBVIOUS
    <2> HIDE DEF T
    <2> QED
        BY <1>1, <1>2, <2>1, Induction
<1>4. ASSUME NEW k \in 0 .. BITS
      PROVE  Bounded(k)
    <2>1. k \in Nat /\ k <= BITS
        BY Bits
    <2>2. k \in T
        BY <1>3, <2>1, Zenon
    <2> QED
        BY <2>1, <2>2, Zenon
<1> QED
    BY <1>4, Zenon

LEMMA XorType ==
    ASSUME NEW a \in Byte, NEW b \in Byte
    PROVE  ByteXor(a, b) \in Byte
BY XorBounds, Bits

LEMMA XorSelf == \A a \in Byte : ByteXor(a, a) = 0
<1> DEFINE T == {m \in Nat : \A a \in Byte : a <= m => ByteXor(a, a) = 0}
<1>1. 0 \in T
    BY Bits, XorEquation
<1>2. ASSUME NEW m \in T
      PROVE  m + 1 \in T
    <2>1. SUFFICES ASSUME NEW a \in Byte, a <= m + 1 PROVE ByteXor(a, a) = 0
        BY DEF T
    <2>2. CASE a = 0
        BY <2>2, XorEquation
    <2>3. CASE a # 0
        <3>1. a \div 2 \in Byte /\ a \div 2 <= m
            BY <2>1, <2>3, XorEquation, Bits
        <3>2. ByteXor(a \div 2, a \div 2) = 0
            BY <3>1
        <3> QED
            BY <3>2, XorEquation, Bits
    <2> QED
        BY <2>2, <2>3
<1>3. T = Nat
    <2>1. T \in SUBSET Nat
        OBVIOUS
    <2> HIDE DEF T
    <2> QED
        BY <1>1, <1>2, <2>1, Induction
<1> QED
    BY <1>3, Bits

(* Twice the same byte is as good as none: decrypt_sym is encrypt_sym.     *)
LEMMA XorCancels == \A a, b \in Byte : ByteXor(ByteXor(a, b), b) = a
<1> DEFINE T == {m \in Nat : \A a, b \in Byte : a <= m => ByteXor(ByteXor(a, b), b) = a}
<1>1. 0 \in T
    BY Bits, XorEquation, XorSelf
<1>2. ASSUME NEW m \in T
      PROVE  m + 1 \in T
    <2>1. SUFFICES ASSUME NEW a \in Byte, NEW b \in Byte, a <= m + 1
                   PROVE  ByteXor(ByteXor(a, b), b) = a
        BY DEF T
    <2>2. CASE a = 0
        BY <2>2, XorEquation, XorSelf
    <2>3. CASE a # 0
        <3> DEFINE x == ByteXor(a, b)
                   half == ByteXor(a \div 2, b \div 2)
        <3>1. /\ a \div 2 \in Byte /\ a \div 2 <= m
              /\ b \div 2 \in Byte
              /\ x = 2 * half + ((a + b) % 2)
            <4>1. a \div 2 \in Byte /\ b \div 2 \in Byte
                BY XorEquation
            <4>2. a \div 2 <= m
                BY <2>1, <2>3, Bits
            <4>3. x = 2 * half + ((a + b) % 2)
                BY XorEquation
            <4> QED
                BY <4>1, <4>2, <4>3
        <3>2. x \in Byte /\ half \in Byte
            BY <3>1, XorType
        <3>3. ByteXor(half, b \div 2) = a \div 2
            BY <3>1
        <3> HIDE DEF x, half
        <3>4. x \div 2 = half /\ x % 2 = (a + b) % 2
            BY <3>1, <3>2, Bits
        <3>5. ByteXor(x, b) = 2 * ByteXor(x \div 2, b \div 2) + ((x + b) % 2)
            BY <3>2, XorEquation
        <3>6. ByteXor(x, b) = 2 * (a \div 2) + ((x + b) % 2)
            BY <3>3, <3>4, <3>5
        <3>7. (x + b) % 2 = a % 2
            BY <3>2, <3>4, Bits
        <3>8. ByteXor(x, b) = a
            BY <3>6, <3>7, Bits
        <3> QED
            BY <3>8 DEF x
    <2> QED
        BY <2>2, <2>3
<1>3. T = Nat
    <2>1. T \in SUBSET Nat
        OBVIOUS
    <2> HIDE DEF T
    <2> QED
        BY <1>1, <1>2, <2>1, Induction
<1> QED
    BY <1>3, Bits

(* No bit is lost to a rotation, and none is added.                        *)
LEMMA RotationFits ==
    ASSUME NEW f \in Nat \ {0}, NEW g \in Nat \ {0}, NEW b \in 0 .. (f * g - 1)
    PROVE  ((b * f) % (f * g)) + (b \div g) \in 0 .. (f * g - 1)
<1> DEFINE q == b \div g
           r == b % g
<1>1. /\ q \in Nat /\ r \in Nat /\ r <= g - 1
      /\ b = g * q + r
      /\ f * g \in Nat \ {0}
    OBVIOUS
<1> HIDE DEF q, r
<1>2. q <= f - 1
    <2>1. SUFFICES ASSUME f <= q PROVE FALSE
        BY <1>1
    <2>2. g * f <= g * q
        BY <1>1, <2>1, MultiplyMonotonic
    <2> QED
        BY <1>1, <2>2
<1>3. f * r <= f * (g - 1) /\ f * r \in Nat
    BY <1>1, MultiplyMonotonic
<1>4. f * (g - 1) = f * g - f
    OBVIOUS
<1>5. f * r \in 0 .. (f * g - 1)
    BY <1>1, <1>3, <1>4
<1>6. b * f = (f * g) * q + f * r
    BY <1>1
<1>7. (b * f) % (f * g) = f * r
    BY <1>1, <1>5, <1>6, Division
<1> QED
    BY <1>1, <1>2, <1>3, <1>4, <1>7 DEF q

LEMMA RotateType ==
    ASSUME NEW b \in Byte, NEW n \in {1, 3}
    PROVE  RotateLeft(b, n) \in Byte
<1>1. Power[1] = 2 /\ Power[3] = 8
    <2>1. 1 \in 1 .. BITS /\ 2 \in 1 .. BITS /\ 3 \in 1 .. BITS
        BY Bits
    <2>2. Power[1] = 2 * Power[0] /\ Power[2] = 2 * Power[1] /\ Power[3] = 2 * Power[2]
        BY <2>1, PowerEquation
    <2> QED
        BY <2>2, PowerEquation
<1>2. Power[BITS] = Power[n] * Power[BITS - n]
    <2>1. /\ BITS \in 1 .. BITS /\ BITS - 1 \in 1 .. BITS /\ BITS - 2 \in 1 .. BITS
          /\ (BITS - 1) - 1 = BITS - 2 /\ (BITS - 2) - 1 = BITS - 3
          /\ BITS - 3 \in 0 .. BITS
        BY Bits
    <2>2. /\ Power[BITS] = 2 * Power[BITS - 1]
          /\ Power[BITS - 1] = 2 * Power[BITS - 2]
          /\ Power[BITS - 2] = 2 * Power[BITS - 3]
        BY <2>1, PowerEquation
    <2>3. /\ Power[BITS - 1] \in Nat /\ Power[BITS - 2] \in Nat
          /\ Power[BITS - 3] \in Nat
        BY <2>1, Powers
    <2> QED
        BY <1>1, <2>2, <2>3
<1>3. Power[n] \in Nat \ {0} /\ Power[BITS - n] \in Nat \ {0}
    <2>1. n \in 0 .. BITS /\ BITS - n \in 0 .. BITS
        BY Bits
    <2> QED
        BY <2>1, Powers
<1>4. b \in 0 .. (Power[n] * Power[BITS - n] - 1)
    BY <1>2, Bits
<1> DEFINE f == Power[n]
           g == Power[BITS - n]
<1>5. ((b * f) % (f * g)) + (b \div g) \in 0 .. (f * g - 1)
    <2> HIDE DEF f, g
    <2>1. f \in Nat \ {0} /\ g \in Nat \ {0} /\ b \in 0 .. (f * g - 1)
        BY <1>3, <1>4 DEF f, g
    <2> QED
        BY <2>1, RotationFits
<1> QED
    BY <1>2, <1>5, Bits DEF RotateLeft

LEMMA MixedType ==
    ASSUME NEW h \in Byte, NEW b \in Byte
    PROVE  Mixed(h, b) \in Byte
<1>1. RotateLeft(ByteXor(h, b), 1) \in Byte
    BY XorType, RotateType
<1> QED
    BY <1>1, Bits DEF Mixed

-----------------------------------------------------------------------------
(***************************************************************************)
(* The columns of the hash                                                 *)
(***************************************************************************)

(* Of each byte the column it is in has one row more, and it is that row.  *)
LEMMA NextRow ==
    ASSUME NEW n \in Nat, NEW c \in 0 .. (HASH_SIZE - 1)
    PROVE  /\ Rows(n, c) \in Nat
           /\ n % HASH_SIZE \in 0 .. (HASH_SIZE - 1)
           /\ c = n % HASH_SIZE => /\ Rows(n + 1, c) = Rows(n, c) + 1
                                   /\ c + HASH_SIZE * Rows(n, c) = n
           /\ c # n % HASH_SIZE => Rows(n + 1, c) = Rows(n, c)
<1> DEFINE size == HASH_SIZE
           q == n \div size
           m == n % size
<1>1. size \in Nat \ {0}
    BY CryptoAssumption
<1>2. q \in Nat /\ m \in 0 .. (size - 1) /\ n = size * q + m
    BY <1>1
<1> HIDE DEF q, m, size
<1>3. c \in 0 .. (size - 1)
    BY DEF size
<1>4. size * (q + 1) = size * q + size /\ size * q \in Nat
    BY <1>1, <1>2
<1>5. ASSUME NEW k \in Nat, NEW j \in 0 .. size, k = size * q + j
      PROVE  (k + size - 1 - c) \div size = IF j > c THEN q + 1 ELSE q
    <2>1. CASE j > c
        <3>1. /\ k + size - 1 - c = size * (q + 1) + (j - 1 - c)
              /\ j - 1 - c \in 0 .. (size - 1)
              /\ q + 1 \in Nat
            BY <1>1, <1>2, <1>3, <1>4, <1>5, <2>1
        <3>2. (size * (q + 1) + (j - 1 - c)) \div size = q + 1
            BY <3>1, <1>1, Division
        <3> QED
            BY <3>1, <3>2, <2>1
    <2>2. CASE ~ (j > c)
        <3>1. /\ k + size - 1 - c = size * q + (j + size - 1 - c)
              /\ j + size - 1 - c \in 0 .. (size - 1)
            BY <1>1, <1>2, <1>3, <1>4, <1>5, <2>2
        <3>2. (size * q + (j + size - 1 - c)) \div size = q
            BY <3>1, <1>1, <1>2, Division
        <3> QED
            BY <3>1, <3>2, <2>2
    <2> QED
        BY <2>1, <2>2
<1>6. Rows(n, c) = IF m > c THEN q + 1 ELSE q
    <2>1. m \in 0 .. size
        BY <1>1, <1>2
    <2> QED
        BY <1>2, <1>5, <2>1 DEF Rows, size
<1>7. Rows(n + 1, c) = IF m + 1 > c THEN q + 1 ELSE q
    <2>1. m + 1 \in 0 .. size /\ n + 1 \in Nat /\ n + 1 = size * q + (m + 1)
        BY <1>1, <1>2, <1>4
    <2> QED
        BY <1>5, <2>1 DEF Rows, size
<1>8. m = n % HASH_SIZE
    BY DEF m, size
<1> QED
    BY <1>1, <1>2, <1>3, <1>4, <1>6, <1>7, <1>8 DEF size

LEMMA RowsGrow ==
    ASSUME NEW n \in Nat, NEW m \in Nat, n <= m, NEW c \in 0 .. (HASH_SIZE - 1)
    PROVE  Rows(n, c) <= Rows(m, c)
<1> DEFINE T == {d \in Nat : Rows(n, c) <= Rows(n + d, c)}
<1>1. 0 \in T
    BY NextRow
<1>2. ASSUME NEW d \in T
      PROVE  d + 1 \in T
    <2>1. PICK k \in Nat : k = n + d
        OBVIOUS
    <2>2. Rows(n, c) <= Rows(k, c)
        BY <2>1
    <2>3. /\ Rows(n, c) \in Nat /\ Rows(k, c) \in Nat
          /\ Rows(k + 1, c) = Rows(k, c) \/ Rows(k + 1, c) = Rows(k, c) + 1
        BY NextRow
    <2>4. Rows(n, c) <= Rows(k + 1, c)
        BY <2>2, <2>3
    <2>5. n + (d + 1) = k + 1
        BY <2>1
    <2> QED
        BY <2>4, <2>5
<1>3. T = Nat
    <2>1. T \in SUBSET Nat
        OBVIOUS
    <2> HIDE DEF T
    <2> QED
        BY <1>1, <1>2, <2>1, Induction
<1>4. PICK d \in Nat : m = n + d
    <2>1. m - n \in Nat /\ m = n + (m - n)
        OBVIOUS
    <2> QED
        BY <2>1
<1>5. d \in T
    BY <1>3
<1> QED
    BY <1>4, <1>5

LEMMA NoRows == \A c \in 0 .. (HASH_SIZE - 1) : Rows(0, c) = 0
<1> SUFFICES ASSUME NEW c \in 0 .. (HASH_SIZE - 1) PROVE Rows(0, c) = 0
    OBVIOUS
<1>1. HASH_SIZE \in Nat \ {0}
    BY CryptoAssumption
<1>2. 0 + HASH_SIZE - 1 - c = HASH_SIZE * 0 + (HASH_SIZE - 1 - c)
    BY <1>1
<1>3. HASH_SIZE - 1 - c \in 0 .. (HASH_SIZE - 1)
    BY <1>1
<1>4. (HASH_SIZE * 0 + (HASH_SIZE - 1 - c)) \div HASH_SIZE = 0
    BY <1>1, <1>3, Division
<1> QED
    BY <1>2, <1>4 DEF Rows

LEMMA RowInText ==
    ASSUME NEW n \in Nat, NEW c \in 0 .. (HASH_SIZE - 1), NEW r \in 1 .. Rows(n, c)
    PROVE  c + HASH_SIZE * (r - 1) \in 0 .. (n - 1)
<1> DEFINE rows == Rows(n, c)
           a == n + HASH_SIZE - 1 - c
<1>1. HASH_SIZE \in Nat \ {0} /\ a \in Nat
    BY CryptoAssumption
<1>2. rows \in Nat /\ rows = a \div HASH_SIZE
    BY NextRow DEF Rows
<1> HIDE DEF a, rows
<1>3. HASH_SIZE * rows <= a
    BY <1>1, <1>2
<1>4. r \in Nat /\ r - 1 \in Nat /\ r <= rows
    BY <1>2 DEF rows
<1>5. HASH_SIZE * r <= HASH_SIZE * rows
    BY <1>1, <1>2, <1>4, MultiplyMonotonic
<1>6. HASH_SIZE * r = HASH_SIZE * (r - 1) + HASH_SIZE /\ HASH_SIZE * (r - 1) \in Nat
    BY <1>1, <1>4
<1>7. HASH_SIZE * rows \in Nat
    BY <1>1, <1>2
<1> QED
    BY <1>1, <1>3, <1>5, <1>6, <1>7 DEF a

LEMMA FoldedEquation ==
    ASSUME NEW n \in Nat, NEW text \in [0 .. (n - 1) -> Byte],
           NEW c \in 0 .. (HASH_SIZE - 1)
    PROVE  /\ Folded(text, n, c)[0] = 0
           /\ \A r \in 1 .. Rows(n, c) :
                 Folded(text, n, c)[r]
                   = Mixed(Folded(text, n, c)[r - 1], text[c + HASH_SIZE * (r - 1)])
<1> DEFINE rows == Rows(n, c)
           At(r) == text[c + HASH_SIZE * (r - 1)]
           mix == [r \in 1 .. rows |-> [h \in Byte |-> Mixed(h, At(r))]]
<1>1. rows \in Nat
    BY NextRow
<1>2. \A r \in 1 .. rows : At(r) \in Byte
    BY RowInText
<1> HIDE DEF rows, At
<1>3. mix \in [1 .. rows -> [Byte -> Byte]]
    BY <1>2, MixedType
<1>4. PICK f : /\ f \in [0 .. rows -> Byte]
               /\ f[0] = 0
               /\ \A r \in 1 .. rows : f[r] = mix[r][f[r - 1]]
    <2> HIDE DEF mix
    <2>1. 0 \in Byte
        BY Bits
    <2>2. \E f : Stepwise(f, rows, Byte, 0, mix)
        BY <1>1, <1>3, <2>1, StepwiseFunction, Zenon
    <2> QED
        BY <2>2, Zenon DEF Stepwise
<1>5. ASSUME NEW r \in 1 .. rows
      PROVE  f[r] = Mixed(f[r - 1], At(r))
    <2>1. f[r - 1] \in Byte
        BY <1>1, <1>4
    <2> QED
        BY <1>4, <2>1
<1>6. f = [r \in 0 .. rows |-> IF r = 0 THEN 0 ELSE Mixed(f[r - 1], At(r))]
    BY <1>1, <1>4, <1>5
<1> DEFINE fold == Folded(text, n, c)
<1>7. fold = [r \in 0 .. rows |-> IF r = 0 THEN 0 ELSE Mixed(fold[r - 1], At(r))]
    BY <1>6, Zenon DEF Folded, rows, At
<1> HIDE DEF fold
<1>8. fold[0] = 0 /\ \A r \in 1 .. rows : fold[r] = Mixed(fold[r - 1], At(r))
    BY <1>1, <1>7
<1> QED
    BY <1>8 DEF fold, rows, At

-----------------------------------------------------------------------------
(***************************************************************************)
(* The inductive invariant                                                 *)
(***************************************************************************)

(* What the last reference to a buffer left there: the ciphertext is that  *)
(* of the message, and the hash has come as far as pc and i say.           *)
CipherInv ==
    GoodLength =>
        /\ pc # "encrypt" => ciphertext = WithKey(data)
        /\ pc = "done" => decrypted = WithKey(ciphertext)

HashInv ==
    /\ pc = "mix" =>
          \A c \in 0 .. (HASH_SIZE - 1) :
              hash_out[c] = Folded(ciphertext, len, c)[Rows(i, c)]
    /\ pc = "diffuse" =>
          \A c \in 0 .. (HASH_SIZE - 1) :
              hash_out[c] = IF c < i THEN ReferenceHash[c] ELSE Column(c)
    /\ pc \in {"decrypt", "done"} => hash_out = ReferenceHash

IInv ==
    /\ TypeOK
    /\ len \in Nat
    /\ pc \in {"encrypt", "clear", "decrypt", "done"} => i = 0
    /\ CipherInv
    /\ HashInv

(* A byte of a message and the byte of the key that goes with it.          *)
LEMMA WithKeyType ==
    ASSUME len \in Nat, key \in Buffer(KEY_SIZE, Byte),
           NEW buf \in Buffer(len, Byte)
    PROVE  /\ WithKey(buf) \in Buffer(len, Byte)
           /\ WithKey(WithKey(buf)) = buf
<1>1. \A n \in 0 .. (len - 1) : buf[n] \in Byte /\ key[n % KEY_SIZE] \in Byte
    BY CryptoAssumption DEF Buffer
<1>2. WithKey(buf) \in Buffer(len, Byte)
    BY <1>1, XorType DEF WithKey, Buffer
<1>3. \A n \in 0 .. (len - 1) : WithKey(WithKey(buf))[n] = buf[n]
    BY <1>1, XorCancels DEF WithKey
<1>4. WithKey(WithKey(buf)) = [n \in 0 .. (len - 1) |-> WithKey(WithKey(buf))[n]]
    BY DEF WithKey
<1> QED
    BY <1>2, <1>3, <1>4 DEF Buffer

LEMMA InvInit == Init => IInv
<1> SUFFICES ASSUME Init PROVE IInv
    OBVIOUS
<1>1. len \in Nat /\ HASH_SIZE \in Nat
    BY CryptoAssumption DEF Init
<1>2. /\ data \in Buffer(len, Byte)
      /\ ciphertext \in Buffer(len, Byte) /\ decrypted = ciphertext
      /\ hash_out \in Buffer(HASH_SIZE, Byte)
    BY CryptoAssumption DEF Init, Buffer
<1>3. TypeOK
    BY <1>1, <1>2 DEF Init, TypeOK
<1> QED
    BY <1>1, <1>3 DEF Init, IInv, CipherInv, HashInv

LEMMA Types ==
    ASSUME TypeOK
    PROVE  /\ key \in Buffer(KEY_SIZE, Byte)
           /\ data \in Buffer(len, Byte)
           /\ ciphertext \in Buffer(len, Byte)
           /\ decrypted \in Buffer(len, Byte)
           /\ hash_out \in Buffer(HASH_SIZE, Byte)
           /\ HASH_SIZE \in Nat \ {0}
BY CryptoAssumption DEF TypeOK

(* The type of the next state, from those of the buffers that change.      *)
LEMMA TypesNext ==
    ASSUME len' = len, key' = key, key \in Keys,
           pc' \in {"encrypt", "clear", "mix", "diffuse", "decrypt", "done"},
           data' \in Buffer(len, Byte), ciphertext' \in Buffer(len, Byte),
           decrypted' \in Buffer(len, Byte), hash_out' \in Buffer(HASH_SIZE, Byte),
           i' \in 0 .. (IF pc' = "mix" THEN len ELSE HASH_SIZE)
    PROVE  TypeOK'
BY DEF TypeOK, Buffer

(* The reference hash is one of len and ciphertext.                        *)
LEMMA ReferenceKept ==
    ASSUME len' = len, ciphertext' = ciphertext
    PROVE  /\ \A c : Column(c)' = Column(c)
           /\ ReferenceHash' = ReferenceHash
<1>1. \A c : Column(c)' = Column(c)
    BY DEF Column
<1>2. ReferenceHash' = ReferenceHash
    BY DEF ReferenceHash, Column
<1> QED
    BY <1>1, <1>2

LEMMA EncryptKeeps == IInv /\ Encrypt => IInv'
<1> SUFFICES ASSUME IInv, Encrypt PROVE IInv'
    OBVIOUS
<1>1. TypeOK /\ len \in Nat /\ i = 0
    BY DEF IInv, Encrypt
<1>2. ciphertext' \in Buffer(len, Byte)
    BY <1>1, Types, WithKeyType DEF Encrypt
<1>3. TypeOK'
    BY <1>1, <1>2, Types, TypesNext DEF Encrypt, TypeOK
<1>4. CipherInv'
    BY DEF CipherInv, Encrypt, GoodLength, WithKey
<1>5. HashInv'
    BY DEF HashInv, Encrypt
<1> QED
    BY <1>1, <1>3, <1>4, <1>5 DEF IInv, Encrypt

LEMMA ClearKeeps == IInv /\ ClearHash => IInv'
<1> SUFFICES ASSUME IInv, ClearHash PROVE IInv'
    OBVIOUS
<1>1. TypeOK /\ len \in Nat /\ i = 0 /\ CipherInv
    BY DEF IInv, ClearHash
<1>2. hash_out' \in Buffer(HASH_SIZE, Byte)
    BY Bits DEF ClearHash, Buffer
<1>3. TypeOK'
    BY <1>1, <1>2, Types, TypesNext DEF ClearHash, TypeOK
<1>4. CipherInv'
    BY <1>1 DEF CipherInv, ClearHash, GoodLength, WithKey
<1>5. HashInv'
    <2>1. ASSUME NEW c \in 0 .. (HASH_SIZE - 1)
          PROVE  hash_out'[c] = Folded(ciphertext', len', c)[Rows(i', c)]
        <3>1. Folded(ciphertext, len, c)[0] = 0
            BY <1>1, Types, FoldedEquation DEF Buffer
        <3>2. Rows(i, c) = 0
            BY <1>1, NoRows
        <3>3. hash_out'[c] = 0
            BY DEF ClearHash
        <3> QED
            BY <3>1, <3>2, <3>3 DEF ClearHash
    <2> QED
        BY <2>1 DEF HashInv, ClearHash
<1> QED
    BY <1>1, <1>3, <1>4, <1>5 DEF IInv, ClearHash

LEMMA MixKeeps == IInv /\ MixByte => IInv'
<1> SUFFICES ASSUME IInv, MixByte PROVE IInv'
    OBVIOUS
<1> DEFINE at == i % HASH_SIZE
<1>1. /\ TypeOK /\ len \in Nat /\ CipherInv
      /\ pc = "mix" /\ i \in Nat /\ i < len
    BY DEF IInv, MixByte, TypeOK
<1>2. at \in 0 .. (HASH_SIZE - 1)
    BY <1>1, Types
<1>3. hash_out[at] \in Byte /\ ciphertext[i] \in Byte
    BY <1>1, <1>2, Types DEF Buffer
<1>4. Mixed(hash_out[at], ciphertext[i]) \in Byte
    BY <1>3, MixedType
<1>5. /\ hash_out' \in Buffer(HASH_SIZE, Byte)
      /\ hash_out'[at] = Mixed(hash_out[at], ciphertext[i])
      /\ \A c \in 0 .. (HASH_SIZE - 1) : c # at => hash_out'[c] = hash_out[c]
    BY <1>1, <1>2, <1>4, Types DEF MixByte, Buffer
<1>6. TypeOK'
    BY <1>1, <1>5, Types, TypesNext DEF MixByte, TypeOK
<1>7. CipherInv'
    BY <1>1 DEF CipherInv, MixByte, GoodLength, WithKey
<1>8. HashInv'
    <2>1. ASSUME NEW c \in 0 .. (HASH_SIZE - 1)
          PROVE  hash_out'[c] = Folded(ciphertext, len, c)[Rows(i + 1, c)]
        <3>1. hash_out[c] = Folded(ciphertext, len, c)[Rows(i, c)]
            BY <1>1 DEF IInv, HashInv
        <3>2. CASE c # at
            BY <3>1, <3>2, <1>1, <1>5, NextRow
        <3>3. CASE c = at
            <4>1. /\ Rows(i, c) \in Nat
                  /\ Rows(i + 1, c) = Rows(i, c) + 1
                  /\ c + HASH_SIZE * Rows(i, c) = i
                BY <3>3, <1>1, NextRow
            <4>2. Rows(i + 1, c) <= Rows(len, c) /\ Rows(len, c) \in Nat
                <5>1. PICK n \in Nat : n = i + 1
                    BY <1>1
                <5>2. n <= len
                    BY <5>1, <1>1
                <5>3. Rows(n, c) <= Rows(len, c)
                    BY <5>2, <1>1, RowsGrow
                <5> QED
                    BY <5>1, <5>3, <1>1, NextRow
            <4>3. Rows(i + 1, c) \in 1 .. Rows(len, c)
                BY <4>1, <4>2
            <4>4. Folded(ciphertext, len, c)[Rows(i + 1, c)]
                    = Mixed(Folded(ciphertext, len, c)[Rows(i + 1, c) - 1],
                            ciphertext[c + HASH_SIZE * (Rows(i + 1, c) - 1)])
                BY <4>3, <1>1, Types, FoldedEquation DEF Buffer
            <4>5. Rows(i + 1, c) - 1 = Rows(i, c)
                BY <4>1
            <4>6. Folded(ciphertext, len, c)[Rows(i + 1, c)]
                    = Mixed(hash_out[c], ciphertext[i])
                BY <4>1, <4>4, <4>5, <3>1
            <4> QED
                BY <4>6, <3>3, <1>5
        <3> QED
            BY <3>2, <3>3
    <2> QED
        BY <2>1, <1>1 DEF HashInv, MixByte
<1> QED
    BY <1>1, <1>6, <1>7, <1>8 DEF IInv, MixByte

LEMMA MixDoneKeeps == IInv /\ MixDone => IInv'
<1> SUFFICES ASSUME IInv, MixDone PROVE IInv'
    OBVIOUS
<1>1. TypeOK /\ len \in Nat /\ CipherInv /\ i = len /\ pc = "mix"
    BY DEF IInv, MixDone
<1>2. TypeOK'
    BY <1>1, Types, TypesNext DEF MixDone, TypeOK
<1>3. CipherInv'
    BY <1>1 DEF CipherInv, MixDone, GoodLength, WithKey
<1>4. HashInv'
    <2>1. \A c \in 0 .. (HASH_SIZE - 1) : hash_out[c] = Column(c)
        BY <1>1 DEF IInv, HashInv, Column
    <2>2. ASSUME NEW c \in 0 .. (HASH_SIZE - 1)
          PROVE  /\ hash_out'[c] = Column(c)'
                 /\ ~ (c < i')
        BY <2>1, ReferenceKept DEF MixDone
    <2> QED
        BY <2>2 DEF HashInv, MixDone
<1> QED
    BY <1>1, <1>2, <1>3, <1>4 DEF IInv, MixDone

LEMMA DiffuseKeeps == IInv /\ DiffuseByte => IInv'
<1> SUFFICES ASSUME IInv, DiffuseByte PROVE IInv'
    OBVIOUS
<1> DEFINE next == (i + 1) % HASH_SIZE
           last == HASH_SIZE - 1
           byte == RotateLeft(ByteXor(hash_out[i], hash_out[next]), 3)
<1>1. /\ TypeOK /\ len \in Nat /\ CipherInv
      /\ pc = "diffuse" /\ i \in 0 .. last
      /\ HASH_SIZE \in Nat \ {0} /\ last \in Nat
    BY Types DEF IInv, DiffuseByte, TypeOK
<1>2. next \in 0 .. last
    BY <1>1
<1>3. hash_out[i] \in Byte /\ hash_out[next] \in Byte
    BY <1>1, <1>2, Types DEF Buffer
<1>4. byte \in Byte
    BY <1>3, XorType, RotateType
<1>5. /\ hash_out' \in Buffer(HASH_SIZE, Byte)
      /\ hash_out'[i] = byte
      /\ \A c \in 0 .. last : c # i => hash_out'[c] = hash_out[c]
    BY <1>1, <1>4, Types DEF DiffuseByte, Buffer
<1>6. TypeOK'
    BY <1>1, <1>5, Types, TypesNext DEF DiffuseByte, TypeOK
<1>7. CipherInv'
    BY <1>1 DEF CipherInv, DiffuseByte, GoodLength, WithKey
<1>8. HashInv'
    <2>1. \A c \in 0 .. last :
             hash_out[c] = IF c < i THEN ReferenceHash[c] ELSE Column(c)
        BY <1>1 DEF IInv, HashInv
    <2>2. \A c \in 0 .. last :
             ReferenceHash[c] =
                 IF c < last THEN RotateLeft(ByteXor(Column(c), Column(c + 1)), 3)
                 ELSE RotateLeft(
                        ByteXor(Column(last),
                            IF last = 0 THEN Column(0)
                            ELSE RotateLeft(ByteXor(Column(0), Column(0 + 1)), 3)), 3)
        BY DEF ReferenceHash
    <2>3. hash_out[i] = Column(i)
        BY <2>1, <1>1
    <2>4. byte = ReferenceHash[i]
        <3>1. CASE i < last
            <4>1. next = i + 1 /\ i + 1 \in 0 .. last /\ ~ (i + 1 < i)
                <5>1. /\ i + 1 = HASH_SIZE * 0 + (i + 1)
                      /\ i + 1 \in 0 .. (HASH_SIZE - 1)
                    BY <1>1, <3>1
                <5> QED
                    BY <5>1, <1>1, Division
            <4>2. hash_out[next] = Column(i + 1)
                BY <4>1, <2>1
            <4> QED
                BY <4>2, <2>2, <2>3, <3>1, <1>1
        <3>2. CASE i = last
            <4>1. next = 0
                <5>1. i + 1 = HASH_SIZE * 1 + 0 /\ 0 \in 0 .. (HASH_SIZE - 1)
                    BY <1>1, <3>2
                <5> QED
                    BY <5>1, <1>1, Division
            <4>2. CASE last = 0
                BY <4>1, <4>2, <3>2, <2>2, <2>3, <1>1
            <4>3. CASE last # 0
                <5>1. 0 \in 0 .. last /\ 0 < i /\ 0 < last
                    BY <4>3, <3>2, <1>1
                <5>2. hash_out[next] = ReferenceHash[0]
                    BY <5>1, <4>1, <2>1
                <5>3. ReferenceHash[0] = RotateLeft(ByteXor(Column(0), Column(0 + 1)), 3)
                    BY <5>1, <2>2
                <5> QED
                    BY <5>2, <5>3, <4>3, <3>2, <2>2, <2>3, <1>1
            <4> QED
                BY <4>2, <4>3
        <3> QED
            BY <3>1, <3>2, <1>1
    <2>5. ASSUME NEW c \in 0 .. last
          PROVE  hash_out'[c] = IF c < i + 1 THEN ReferenceHash[c] ELSE Column(c)
        <3>1. CASE c = i
            BY <3>1, <2>4, <1>1, <1>5
        <3>2. CASE c # i
            <4>1. c < i + 1 <=> c < i
                BY <3>2, <1>1
            <4> QED
                BY <4>1, <3>2, <2>1, <1>5
        <3> QED
            BY <3>1, <3>2
    <2>6. /\ pc' = "diffuse" /\ i' = i + 1
          /\ ReferenceHash' = ReferenceHash
          /\ \A c : Column(c)' = Column(c)
        BY ReferenceKept DEF DiffuseByte
    <2> QED
        BY <2>5, <2>6 DEF HashInv
<1> QED
    BY <1>1, <1>6, <1>7, <1>8 DEF IInv, DiffuseByte

LEMMA HashDoneKeeps == IInv /\ HashDone => IInv'
<1> SUFFICES ASSUME IInv, HashDone PROVE IInv'
    OBVIOUS
<1>1. TypeOK /\ len \in Nat /\ CipherInv /\ i = HASH_SIZE /\ pc = "diffuse"
    BY DEF IInv, HashDone
<1>2. TypeOK'
    BY <1>1, Types, TypesNext DEF HashDone, TypeOK
<1>3. CipherInv'
    BY <1>1 DEF CipherInv, HashDone, GoodLength, WithKey
<1>4. hash_out = ReferenceHash
    <2>1. \A c \in 0 .. (HASH_SIZE - 1) : hash_out[c] = ReferenceHash[c]
        BY <1>1, Types DEF IInv, HashInv
    <2>2. hash_out = [c \in 0 .. (HASH_SIZE - 1) |-> hash_out[c]]
        BY <1>1, Types DEF Buffer
    <2>3. ReferenceHash = [c \in 0 .. (HASH_SIZE - 1) |-> ReferenceHash[c]]
        BY DEF ReferenceHash
    <2> QED
        BY <2>1, <2>2, <2>3
<1>5. HashInv'
    BY <1>4, ReferenceKept DEF HashInv, HashDone
<1> QED
    BY <1>1, <1>2, <1>3, <1>5 DEF IInv, HashDone

LEMMA DecryptKeeps == IInv /\ Decrypt => IInv'
<1> SUFFICES ASSUME IInv, Decrypt PROVE IInv'
    OBVIOUS
<1>1. TypeOK /\ len \in Nat /\ CipherInv /\ i = 0 /\ pc = "decrypt"
    BY DEF IInv, Decrypt
<1>2. decrypted' \in Buffer(len, Byte)
    BY <1>1, Types, WithKeyType DEF Decrypt
<1>3. TypeOK'
    BY <1>1, <1>2, Types, TypesNext DEF Decrypt, TypeOK
<1>4. CipherInv'
    BY <1>1 DEF CipherInv, Decrypt, GoodLength, WithKey
<1>5. HashInv'
    BY <1>1, ReferenceKept DEF IInv, HashInv, Decrypt
<1> QED
    BY <1>1, <1>3, <1>4, <1>5 DEF IInv, Decrypt

LEMMA StutterKeeps == IInv /\ UNCHANGED vars => IInv'
<1> SUFFICES ASSUME IInv, UNCHANGED vars PROVE IInv'
    OBVIOUS
<1>1. TypeOK'
    BY DEF IInv, vars, TypeOK
<1>2. CipherInv'
    BY DEF IInv, vars, CipherInv, GoodLength, WithKey
<1>3. HashInv'
    BY ReferenceKept DEF IInv, vars, HashInv
<1> QED
    BY <1>1, <1>2, <1>3 DEF IInv, vars

(* Every step keeps the invariant.                                         *)
THEOREM Inductive == Spec => []IInv
<1>1. IInv /\ [Next]_vars => IInv'
    BY EncryptKeeps, ClearKeeps, MixKeeps, MixDoneKeeps, DiffuseKeeps,
       HashDoneKeeps, DecryptKeeps, StutterKeeps DEF Next
<1> QED
    BY <1>1, InvInit, PTL DEF Spec

-----------------------------------------------------------------------------
(* Every variable keeps its type: whatever encrypt_sym, decrypt_sym and    *)
(* hash shift, add and combine in ints fits the uint8_t it is stored in.   *)
THEOREM TypeCorrect == Spec => []TypeOK
<1>1. IInv => TypeOK
    BY DEF IInv
<1> QED
    BY <1>1, Inductive, PTL

(* For every key, block size and length of a key, decrypt_sym gives back   *)
(* each message of a length that encrypt_sym takes.                        *)
THEOREM DecryptsToItself == Spec => []MessageRestored
<1>1. IInv => MessageRestored
    <2> SUFFICES ASSUME IInv, pc = "done", GoodLength
                 PROVE  decrypted = data
        BY DEF MessageRestored
    <2>1. decrypted = WithKey(WithKey(data))
        BY DEF IInv, CipherInv
    <2> QED
        BY <2>1, Types, WithKeyType DEF IInv
<1> QED
    BY <1>1, Inductive, PTL

(* For every length of a message and of a hash, what hash computes in      *)
(* place, byte after byte, is what it is column by column.                 *)
THEOREM HashesByColumns == Spec => []HashExact
<1>1. IInv => HashExact
    BY DEF IInv, HashInv, HashExact
<1> QED
    BY <1>1, Inductive, PTL
=============================================================================
