------------------------- MODULE CryptoHelpersProofs -------------------------
(***************************************************************************)
(* For integers of any width and bytes of any even radix: no signature     *)
(* makes format_signature panic, each half of its result denotes its       *)
(* integer, and compress_public_key keeps the keys of a curve apart.       *)
(***************************************************************************)
EXTENDS CryptoHelpers, Recursion

-----------------------------------------------------------------------------
(* Bytes of an integer *)

LEMMA Sizes ==
    Radix \in Nat /\ Radix > 1 /\ Half \in Nat /\ Half > 0
  BY SizesAssumption

\* A number is its quotient and its last byte.
LEMMA Division ==
    ASSUME NEW n \in Nat
    PROVE  /\ n \div Radix \in Nat /\ n % Radix \in Byte
           /\ n = (n \div Radix) * Radix + (n % Radix)
  BY Sizes DEF Byte

LEMMA ShiftSteps ==
    ASSUME NEW n \in Nat
    PROVE  /\ Shift(n) \in [0..Half -> Nat] /\ Shift(n)[0] = n
           /\ \A k \in 1..Half : Shift(n)[k] = Shift(n)[k - 1] \div Radix
  <1> DEFINE G == [p \in (1..Half) \X Nat |-> p[2] \div Radix]
             Is(h) == h = [k \in 0..Half |->
                             IF k = 0 THEN n ELSE h[k - 1] \div Radix]
             without == CHOOSE h : Is(h)
  <1>1. G \in [(1..Half) \X Nat -> Nat]
    BY Division
  <1>2. PICK f : Recurses(f, Nat, n, G, Half)
    <2> HIDE DEF G
    <2> QED BY <1>1, Sizes, RecursionExists, Zenon
  <1>3. /\ f \in [0..Half -> Nat] /\ f[0] = n
        /\ \A k \in 1..Half : f[k] = f[k - 1] \div Radix
    <2>1. /\ f \in [0..Half -> Nat] /\ f[0] = n
          /\ \A k \in 1..Half : f[k] = G[<<k, f[k - 1]>>]
      <3> HIDE DEF G
      <3> QED BY <1>2 DEF Recurses
    <2>2. \A k \in 1..Half : f[k - 1] \in Nat
      BY <2>1, Sizes
    <2> QED BY <2>1, <2>2
  <1>4. Is(without)
    <2>1. Is(f)
      BY <1>3, Sizes
    <2> HIDE DEF Is
    <2> QED BY <2>1
  <1>5. Shift(n) = without
    BY Zenon DEF Shift
  <1>6. /\ without[0] = n
        /\ \A k \in 1..Half : without[k] = without[k - 1] \div Radix
    <2> HIDE DEF without
    <2> QED BY <1>4, Sizes
  <1> DEFINE T == {k \in 0..Half : without[k] \in Nat}
  <1>7. \A k \in 0..Half : k \in T
    <2> HIDE DEF without
    <2>1. 0 \in T
      BY <1>6, Sizes
    <2>2. ASSUME NEW k \in 1..Half, k - 1 \in T
          PROVE  k \in T
      BY <1>6, <2>2, Division
    <2> HIDE DEF T
    <2> QED BY <2>1, <2>2, Sizes, BoundedInduction, Zenon
  <1>8. without \in [0..Half -> Nat]
    <2> HIDE DEF without
    <2> QED BY <1>4, <1>7
  <1> HIDE DEF without
  <1> QED BY <1>5, <1>6, <1>8

\* Once nothing is left, nothing is.
LEMMA ShiftStaysZero ==
    ASSUME NEW n \in Nat, NEW w \in 0..Half, Shift(n)[w] = 0
    PROVE  \A k \in w..Half : Shift(n)[k] = 0
  <1> DEFINE T == {k \in 0..Half : k >= w => Shift(n)[k] = 0}
  <1>1. 0 \in T
    BY Sizes
  <1>2. ASSUME NEW k \in 1..Half, k - 1 \in T
        PROVE  k \in T
    <2>1. Shift(n)[k] = Shift(n)[k - 1] \div Radix
      BY ShiftSteps
    <2>2. CASE k = w
      BY <2>2
    <2>3. CASE k > w
      <3>1. Shift(n)[k - 1] = 0
        BY <1>2, <2>3
      <3>2. 0 \div Radix = 0
        BY Sizes
      <3> QED BY <2>1, <3>1, <3>2
    <2>4. CASE k < w
      BY <2>4
    <2> QED BY <2>2, <2>3, <2>4
  <1>3. \A k \in 0..Half : k \in T
    <2> HIDE DEF T
    <2> QED BY <1>1, <1>2, Sizes, BoundedInduction, Zenon
  <1> QED BY <1>3

LEMMA ValueSteps ==
    ASSUME NEW bytes \in Seq(Byte)
    PROVE  \E v \in [0..Len(bytes) -> Nat] :
              /\ v[0] = 0
              /\ \A k \in 1..Len(bytes) : v[k] = v[k - 1] * Radix + bytes[k]
              /\ Value(bytes) = v[Len(bytes)]
  <1> DEFINE N == Len(bytes)
             G == [p \in (1..N) \X Nat |-> p[2] * Radix + bytes[p[1]]]
             Is(h) == h = [k \in 0..N |->
                             IF k = 0 THEN 0 ELSE h[k - 1] * Radix + bytes[k]]
             upTo == CHOOSE h : Is(h)
  <1>1. N \in Nat /\ \A k \in 1..N : bytes[k] \in Nat
    BY Sizes DEF Byte
  <1> HIDE DEF N
  <1>2. \A v \in Nat, k \in 1..N : v * Radix + bytes[k] \in Nat
    <2> TAKE v \in Nat, k \in 1..N
    <2>1. v * Radix \in Nat /\ bytes[k] \in Nat
      BY <1>1, Sizes
    <2> QED BY <2>1
  <1>3. G \in [(1..N) \X Nat -> Nat]
    BY <1>2
  <1>4. PICK f : Recurses(f, Nat, 0, G, N)
    <2> HIDE DEF G
    <2>1. 0 \in Nat
      OBVIOUS
    <2> QED BY <1>1, <1>3, <2>1, RecursionExists, Zenon
  <1>5. /\ f \in [0..N -> Nat] /\ f[0] = 0
        /\ \A k \in 1..N : f[k] = f[k - 1] * Radix + bytes[k]
    <2>1. /\ f \in [0..N -> Nat] /\ f[0] = 0
          /\ \A k \in 1..N : f[k] = G[<<k, f[k - 1]>>]
      <3> HIDE DEF G
      <3> QED BY <1>4 DEF Recurses
    <2>2. \A k \in 1..N : f[k - 1] \in Nat
      BY <1>1, <2>1
    <2> QED BY <2>1, <2>2
  <1>6. Is(upTo)
    <2>1. Is(f)
      BY <1>1, <1>5
    <2> HIDE DEF Is
    <2> QED BY <2>1
  <1>7. Value(bytes) = upTo[N]
    BY Zenon DEF Value, N
  <1>8. /\ upTo[0] = 0
        /\ \A k \in 1..N : upTo[k] = upTo[k - 1] * Radix + bytes[k]
    <2> HIDE DEF upTo
    <2> QED BY <1>1, <1>6
  <1> DEFINE T == {k \in 0..N : upTo[k] \in Nat}
  <1>9. \A k \in 0..N : k \in T
    <2> HIDE DEF upTo
    <2>1. 0 \in T
      BY <1>1, <1>8
    <2>2. ASSUME NEW k \in 1..N, k - 1 \in T
          PROVE  k \in T
      <3>1. upTo[k - 1] \in Nat
        BY <2>2
      <3>2. upTo[k - 1] * Radix + bytes[k] \in Nat
        BY <1>2, <3>1
      <3>3. upTo[k] \in Nat
        BY <1>8, <3>2
      <3> QED BY <1>1, <3>3
    <2> HIDE DEF T
    <2> QED BY <1>1, <2>1, <2>2, BoundedInduction, Zenon
  <1>10. upTo \in [0..N -> Nat]
    <2> HIDE DEF upTo
    <2> QED BY <1>6, <1>9
  <1> HIDE DEF upTo
  <1> QED BY <1>7, <1>8, <1>10 DEF N

\* Half bytes that are those of n, the first ones zero if n is short, denote n.
Denotes(bytes, n) ==
    /\ bytes \in Seq(Byte) /\ Len(bytes) = Half
    /\ \A k \in 1..Half : bytes[k] = Shift(n)[Half - k] % Radix

LEMMA DenotesValue ==
    ASSUME NEW n \in Scalar, NEW bytes, Denotes(bytes, n)
    PROVE  Value(bytes) = n
  <1>1. n \in Nat /\ Shift(n)[Half] = 0
    BY DEF Scalar
  <1>2. bytes \in Seq(Byte) /\ Len(bytes) = Half
    BY DEF Denotes
  <1>3. PICK v \in [0..Half -> Nat] :
           /\ v[0] = 0
           /\ \A k \in 1..Half : v[k] = v[k - 1] * Radix + bytes[k]
           /\ Value(bytes) = v[Half]
    BY <1>2, ValueSteps
  <1> DEFINE T == {k \in 0..Half : v[k] = Shift(n)[Half - k]}
  <1>4. 0 \in T
    BY <1>1, <1>3, Sizes
  <1>5. ASSUME NEW k \in 1..Half, k - 1 \in T
        PROVE  k \in T
    <2>1. Half - k \in 0..Half /\ (Half - k) + 1 \in 1..Half
      BY Sizes
    <2>2. Half - (k - 1) = (Half - k) + 1 /\ ((Half - k) + 1) - 1 = Half - k
      BY Sizes
    <2>3. Shift(n)[(Half - k) + 1] = Shift(n)[Half - k] \div Radix
      <3> DEFINE j == (Half - k) + 1
      <3>1. j \in 1..Half /\ j - 1 = Half - k
        BY <2>1, <2>2
      <3> HIDE DEF j
      <3>2. Shift(n)[j] = Shift(n)[j - 1] \div Radix
        BY <1>1, <3>1, ShiftSteps
      <3> QED BY <3>1, <3>2, Zenon DEF j
    <2>4. Shift(n)[Half - k] \in Nat
      BY <1>1, <2>1, ShiftSteps
    <2>5. v[k - 1] = Shift(n)[Half - k] \div Radix
      BY <1>5, <2>2, <2>3
    <2>6. bytes[k] = Shift(n)[Half - k] % Radix
      BY DEF Denotes
    <2> DEFINE m == Shift(n)[Half - k]
               q == m \div Radix
               b == m % Radix
    <2>7. m = q * Radix + b
      BY <2>4, Division
    <2> HIDE DEF m, q, b
    <2>8. v[k - 1] = q /\ bytes[k] = b
      BY <2>5, <2>6 DEF m, q, b
    <2>9. v[k] = m
      BY <1>3, <2>7, <2>8
    <2> QED BY <2>9 DEF m
  <1>6. \A k \in 0..Half : k \in T
    <2> HIDE DEF T
    <2> QED BY <1>4, <1>5, Sizes, BoundedInduction, Zenon
  <1>7. v[Half] = Shift(n)[0]
    BY <1>6, Sizes
  <1> QED BY <1>1, <1>3, <1>7, ShiftSteps

LEMMA FixedDenotes ==
    ASSUME NEW n \in Nat, NEW w \in 1..Half
    PROVE  /\ Fixed(n, w) \in Seq(Byte) /\ Len(Fixed(n, w)) = w
           /\ \A i \in 1..w : Fixed(n, w)[i] = Shift(n)[w - i] % Radix
  <1>1. w \in Nat /\ \A i \in 1..w : w - i \in 0..Half
    BY Sizes
  <1>2. \A i \in 1..w : Shift(n)[w - i] % Radix \in Byte
    <2> TAKE i \in 1..w
    <2>1. Shift(n)[w - i] \in Nat
      BY <1>1, ShiftSteps
    <2> QED BY <2>1, Division
  <1>3. Fixed(n, w) \in [1..w -> Byte]
    BY <1>2 DEF Fixed
  <1>4. Fixed(n, w) \in Seq(Byte) /\ Len(Fixed(n, w)) = w
    <2> DEFINE f == Fixed(n, w)
    <2> HIDE DEF f
    <2>1. f \in Seq(Byte) /\ Len(f) = w
      BY <1>1, <1>3 DEF f
    <2> QED BY <2>1 DEF f
  <1> QED BY <1>4 DEF Fixed

-----------------------------------------------------------------------------
(* Integers of a signature *)

\* The fewest bytes do not begin with zero, unless there is but one.
LEMMA MagnitudeIs ==
    ASSUME NEW n \in Scalar
    PROVE  \E w \in 1..Half :
              /\ Magnitude(n) \in Seq(Byte) /\ Len(Magnitude(n)) = w
              /\ Shift(n)[w] = 0
              /\ \A i \in 1..w : Magnitude(n)[i] = Shift(n)[w - i] % Radix
              /\ w > 1 => Magnitude(n)[1] # 0
  <1> DEFINE W == {w \in 1..Half : Shift(n)[w] = 0}
             width == Min(W)
  <1>1. n \in Nat /\ Half \in W
    BY Sizes DEF Scalar
  <1>2. width \in W /\ \A w \in W : width <= w
    <2>1. W \subseteq Nat /\ W # {}
      BY <1>1, Sizes
    <2> HIDE DEF W
    <2>2. \E x \in W : \A y \in W : x <= y
      BY <2>1, LeastMember
    <2> QED BY <2>2 DEF Min
  <1>3. Magnitude(n) = Fixed(n, width)
    BY DEF Magnitude
  <1> HIDE DEF width
  <1>4. width \in 1..Half /\ Shift(n)[width] = 0
    BY <1>2
  <1>5. /\ Magnitude(n) \in Seq(Byte) /\ Len(Magnitude(n)) = width
        /\ \A i \in 1..width : Magnitude(n)[i] = Shift(n)[width - i] % Radix
    BY <1>1, <1>3, <1>4, FixedDenotes
  <1>6. ASSUME width > 1
        PROVE  Magnitude(n)[1] # 0
    <2>1. width - 1 \in 1..Half /\ width - 1 \in 0..Half /\ ~(width <= width - 1)
      BY <1>4, <1>6, Sizes
    <2>2. Shift(n)[width - 1] # 0
      BY <1>2, <2>1
    <2>3. Shift(n)[width] = Shift(n)[width - 1] \div Radix
      BY <1>1, <1>4, ShiftSteps
    <2>4. Shift(n)[width - 1] \in Nat
      BY <1>1, <2>1, ShiftSteps
    <2> DEFINE m == Shift(n)[width - 1]
    <2> HIDE DEF m
    <2>5. m \in Nat /\ m # 0 /\ m \div Radix = 0
      BY <1>4, <2>2, <2>3, <2>4 DEF m
    <2>6. m % Radix # 0
      BY <2>5, Sizes
    <2>7. Magnitude(n)[1] = m % Radix
      BY <1>4, <1>5 DEF m
    <2> QED BY <2>6, <2>7
  <1> QED BY <1>4, <1>5, <1>6

\* The decoder takes back exactly what DER has put in front.
LEMMA DecodeReturns ==
    ASSUME NEW n \in Scalar
    PROVE  DecodeInteger(DerInteger(n)) = Magnitude(n)
  <1> DEFINE m == Magnitude(n)
  <1>1. PICK w \in 1..Half :
           /\ m \in Seq(Byte) /\ Len(m) = w
           /\ w > 1 => m[1] # 0
    BY MagnitudeIs
  <1>2. Len(m) \in Nat /\ Len(m) > 0 /\ Head(m) = m[1]
    BY <1>1, Sizes
  <1> HIDE DEF m
  <1>3. CASE DerInteger(n) = m
    BY <1>1, <1>2, <1>3 DEF DecodeInteger, m
  <1>4. CASE DerInteger(n) = <<0>> \o m
    <2>1. 0 \in Byte
      BY Sizes DEF Byte
    <2>2. <<0>> \in Seq(Byte)
      BY <2>1
    <2>3. <<0>> \o m \in Seq(Byte)
      BY <1>1, <2>2
    <2>4. Len(<<0>> \o m) = 1 + Len(m) /\ Head(<<0>> \o m) = 0
      BY <1>1, <2>2, <2>3
    <2>5. Tail(<<0>> \o m) = m
      BY <1>1, <2>2
    <2> DEFINE z == <<0>> \o m
    <2>6. Len(z) > 1 /\ Head(z) = 0 /\ Tail(z) = m
      BY <1>2, <2>4, <2>5
    <2> HIDE DEF z
    <2>7. DecodeInteger(z) = m
      BY <2>6 DEF DecodeInteger
    <2> QED BY <1>4, <2>7 DEF m, z
  <1> QED BY <1>3, <1>4 DEF DerInteger, m

-----------------------------------------------------------------------------
(* The result of format_signature *)

\* The half that begins behind position base has the bytes of n, and is zero.
Holds(buffer, base, n) ==
    \A k \in 1..Half : buffer[base + k] = Shift(n)[Half - k] % Radix

Empty(buffer, base) == \A k \in 1..Half : buffer[base + k] = 0

Buffers == [1..(2 * Half) -> Byte]

\* A copy into an empty half fits, fills it, and leaves the other alone.
LEMMA WriteHolds ==
    ASSUME NEW half \in {0, 1}, NEW base, base = half * Half,
           NEW n \in Scalar, result_buffer \in Buffers, Empty(result_buffer, base)
    PROVE  /\ ~Panics(half, Magnitude(n))
           /\ Written(half, Magnitude(n)) \in Buffers
           /\ Holds(Written(half, Magnitude(n)), base, n)
           /\ \A i \in 1..(2 * Half) : i \notin (base + 1)..(base + Half) =>
                 Written(half, Magnitude(n))[i] = result_buffer[i]
  <1> DEFINE m == Magnitude(n)
  <1>1. PICK w \in 1..Half :
           /\ m \in Seq(Byte) /\ Len(m) = w
           /\ Shift(n)[w] = 0
           /\ \A i \in 1..w : m[i] = Shift(n)[w - i] % Radix
    BY MagnitudeIs
  <1> HIDE DEF m
  <1>2. /\ base \in {0, Half} /\ base \in Nat /\ base + Half <= 2 * Half
        /\ (half + 1) * Half = base + Half
    <2>1. CASE half = 0
      BY <2>1, Sizes
    <2>2. CASE half = 1
      BY <2>2, Sizes
    <2> QED BY <2>1, <2>2
  <1>3. Slot(half, w) = [from |-> base + (Half - w), to |-> base + Half]
    BY <1>2 DEF Slot
  <1>4. ~Panics(half, m)
    BY <1>1, <1>2, <1>3, Sizes DEF Panics
  <1>5. Written(half, m) =
           [i \in 1..(2 * Half) |->
              IF i \in (base + (Half - w) + 1)..(base + Half)
              THEN m[i - (base + (Half - w))] ELSE result_buffer[i]]
    BY <1>1, <1>3 DEF Written
  <1>6. ASSUME NEW i \in (base + (Half - w) + 1)..(base + Half)
        PROVE  i - (base + (Half - w)) \in 1..w
    BY <1>2, Sizes
  <1> DEFINE new == Written(half, m)
  <1>7. new \in Buffers
    <2>1. \A i \in 1..(2 * Half) : result_buffer[i] \in Byte
      BY DEF Buffers
    <2>2. \A j \in 1..w : m[j] \in Byte
      BY <1>1
    <2> QED BY <1>5, <1>6, <2>1, <2>2 DEF Buffers
  <1>8. ASSUME NEW k \in 1..Half
        PROVE  new[base + k] = Shift(n)[Half - k] % Radix
    <2>1. base + k \in 1..(2 * Half)
      BY <1>2, Sizes
    <2>2. CASE k > Half - w
      <3> DEFINE j == k - (Half - w)
      <3>1. /\ base + k \in (base + (Half - w) + 1)..(base + Half)
            /\ (base + k) - (base + (Half - w)) = j
            /\ j \in 1..w /\ w - j = Half - k
        BY <1>2, <2>2, Sizes
      <3> HIDE DEF j
      <3>2. new[base + k] = m[j]
        BY <1>5, <2>1, <3>1
      <3> QED BY <1>1, <3>1, <3>2
    <2>3. CASE k <= Half - w
      <3>1. base + k \notin (base + (Half - w) + 1)..(base + Half)
        BY <1>2, <2>3, Sizes
      <3>2. new[base + k] = 0
        BY <1>5, <2>1, <3>1 DEF Empty
      <3>3. Half - k \in w..Half /\ w \in 0..Half
        BY <2>3, Sizes
      <3>4. Shift(n)[Half - k] = 0
        BY <1>1, <3>3, ShiftStaysZero DEF Scalar
      <3>5. 0 % Radix = 0
        BY Sizes
      <3> QED BY <3>2, <3>4, <3>5
    <2> QED BY <2>2, <2>3, Sizes
  <1>9. ASSUME NEW i \in 1..(2 * Half), i \notin (base + 1)..(base + Half)
        PROVE  new[i] = result_buffer[i]
    <2>1. i \notin (base + (Half - w) + 1)..(base + Half)
      BY <1>2, <1>9, Sizes
    <2> QED BY <1>5, <2>1
  <1> HIDE DEF new
  <1>10. Holds(new, base, n)
    BY <1>8 DEF Holds
  <1> QED BY <1>4, <1>7, <1>9, <1>10 DEF m, new

-----------------------------------------------------------------------------
(* The steps *)

\* What is decoded are the two integers, and each half is empty until its
\* integer is written.
FormatInv ==
    /\ pc # "panicked"
    /\ pc \in {"sign", "r", "s", "done"} =>
          /\ input \in Scalar \X Scalar
          /\ result_buffer \in Buffers
    /\ pc \in {"sign", "r"} => Empty(result_buffer, 0)
    /\ pc \in {"sign", "r", "s"} => Empty(result_buffer, Half)
    /\ pc \in {"r", "s"} => r = Magnitude(input[1]) /\ s = Magnitude(input[2])
    /\ pc \in {"s", "done"} => Holds(result_buffer, 0, input[1])
    /\ pc = "done" => Holds(result_buffer, Half, input[2])

LEMMA InitFormat == Init => FormatInv
  <1> SUFFICES ASSUME Init PROVE FormatInv
    OBVIOUS
  <1>1. CASE pc = "sign" /\ input \in Signatures
    <2>1. input \in Scalar \X Scalar
      BY <1>1, InputsAssumption
    <2>2. 0 \in Byte
      BY Sizes DEF Byte
    <2>3. result_buffer \in Buffers
      BY <2>2 DEF Init, Buffers
    <2>4. Empty(result_buffer, 0) /\ Empty(result_buffer, Half)
      BY Sizes DEF Init, Empty
    <2> QED BY <1>1, <2>1, <2>3, <2>4 DEF FormatInv
  <1>2. CASE pc = "key"
    BY <1>2 DEF FormatInv
  <1> QED BY <1>1, <1>2 DEF Init

LEMMA DecodeKeeps ==
    ASSUME FormatInv, Decode
    PROVE  FormatInv'
  <1>1. /\ input[1] \in Scalar /\ input[2] \in Scalar
        /\ UNCHANGED <<input, result_buffer>> /\ pc = "sign" /\ pc' = "r"
    BY DEF Decode, FormatInv
  <1>2. r' = Magnitude(input[1]) /\ s' = Magnitude(input[2])
    BY <1>1, DecodeReturns DEF Decode
  <1> QED BY <1>1, <1>2 DEF FormatInv

LEMMA WriteRKeeps ==
    ASSUME FormatInv, WriteR
    PROVE  FormatInv'
  <1> DEFINE n == input[1]
             new == Written(0, Magnitude(n))
  <1>1. /\ pc = "r" /\ n \in Scalar /\ r = Magnitude(n)
        /\ result_buffer \in Buffers
        /\ Empty(result_buffer, 0) /\ Empty(result_buffer, Half)
    BY DEF WriteR, FormatInv
  <1>2. 0 = 0 * Half
    BY Sizes
  <1> HIDE DEF n
  <1>3. /\ ~Panics(0, Magnitude(n))
        /\ new \in Buffers /\ Holds(new, 0, n)
        /\ \A i \in 1..(2 * Half) : i \notin (0 + 1)..(0 + Half) =>
              new[i] = result_buffer[i]
    BY <1>1, <1>2, WriteHolds
  <1>4. /\ pc' = "s" /\ result_buffer' = new /\ UNCHANGED <<input, r, s>>
    BY <1>1, <1>3 DEF WriteR, Write
  <1>5. Empty(new, Half)
    <2> SUFFICES ASSUME NEW k \in 1..Half PROVE new[Half + k] = 0
      BY DEF Empty
    <2>1. Half + k \in 1..(2 * Half) /\ Half + k \notin (0 + 1)..(0 + Half)
      BY Sizes
    <2> HIDE DEF new
    <2>2. new[Half + k] = result_buffer[Half + k]
      BY <1>3, <2>1
    <2> QED BY <1>1, <2>2 DEF Empty
  <1> HIDE DEF new
  <1>6. Empty(result_buffer', Half) /\ Holds(result_buffer', 0, n)
    BY <1>3, <1>4, <1>5
  <1> QED BY <1>1, <1>3, <1>4, <1>6 DEF FormatInv, Empty, Holds, n

LEMMA WriteSKeeps ==
    ASSUME FormatInv, WriteS
    PROVE  FormatInv'
  <1> DEFINE n == input[2]
             new == Written(1, Magnitude(n))
  <1>1. /\ pc = "s" /\ n \in Scalar /\ s = Magnitude(n)
        /\ result_buffer \in Buffers
        /\ Holds(result_buffer, 0, input[1]) /\ Empty(result_buffer, Half)
    BY DEF WriteS, FormatInv
  <1>2. Half = 1 * Half
    BY Sizes
  <1> HIDE DEF n
  <1>3. /\ ~Panics(1, Magnitude(n))
        /\ new \in Buffers /\ Holds(new, Half, n)
        /\ \A i \in 1..(2 * Half) : i \notin (Half + 1)..(Half + Half) =>
              new[i] = result_buffer[i]
    BY <1>1, <1>2, WriteHolds
  <1>4. /\ pc' = "done" /\ result_buffer' = new /\ UNCHANGED <<input, r, s>>
    BY <1>1, <1>3 DEF WriteS, Write
  <1>5. Holds(new, 0, input[1])
    <2> SUFFICES ASSUME NEW k \in 1..Half
                 PROVE  new[0 + k] = Shift(input[1])[Half - k] % Radix
      BY DEF Holds
    <2>1. 0 + k \in 1..(2 * Half) /\ 0 + k \notin (Half + 1)..(Half + Half)
      BY Sizes
    <2> HIDE DEF new
    <2>2. new[0 + k] = result_buffer[0 + k]
      BY <1>3, <2>1
    <2> QED BY <1>1, <2>2 DEF Holds
  <1> HIDE DEF new
  <1> QED BY <1>1, <1>3, <1>4, <1>5 DEF FormatInv, Holds, n

LEMMA FormatInvariant == Spec => []FormatInv
  <1>1. FormatInv /\ [Next]_vars => FormatInv'
    <2> SUFFICES ASSUME FormatInv, [Next]_vars PROVE FormatInv'
      OBVIOUS
    <2>1. CASE Compress
      BY <2>1 DEF Compress, FormatInv
    <2>2. CASE DecodeFails
      BY <2>2 DEF DecodeFails, FormatInv
    <2>3. CASE UNCHANGED vars
      BY <2>3 DEF vars, FormatInv, Empty, Holds
    <2> QED BY <2>1, <2>2, <2>3, DecodeKeeps, WriteRKeeps, WriteSKeeps DEF Next
  <1> QED BY <1>1, InitFormat, PTL DEF Spec

\* Neither padding underflows and neither copy has the wrong length.
THEOREM NoPanic == Spec => []NeverPanics
  <1>1. FormatInv => NeverPanics
    BY DEF FormatInv, NeverPanics
  <1> QED BY <1>1, FormatInvariant, PTL

\* The bytes of a half are those of its integer, and denote it.
LEMMA HalfDenotes ==
    ASSUME NEW base \in {0, Half}, NEW n \in Scalar,
           result_buffer \in Buffers, Holds(result_buffer, base, n)
    PROVE  Value(SubSeq(result_buffer, base + 1, base + Half)) = n
  <1> DEFINE bytes == SubSeq(result_buffer, base + 1, base + Half)
  <1>1. base \in Nat /\ base + Half <= 2 * Half /\ 2 * Half \in Nat
    BY Sizes
  <1>2. result_buffer \in Seq(Byte) /\ Len(result_buffer) = 2 * Half
    BY <1>1 DEF Buffers
  <1>3. Len(bytes) = Half
    BY <1>1, <1>2, Sizes
  <1>4. bytes \in Seq(Byte)
    BY <1>1, <1>2, Sizes
  <1>5. ASSUME NEW k \in 1..Half
        PROVE  bytes[k] = result_buffer[base + k]
    BY <1>1, <1>2, Sizes
  <1> HIDE DEF bytes
  <1>6. Denotes(bytes, n)
    BY <1>3, <1>4, <1>5 DEF Denotes, Holds
  <1>7. Value(bytes) = n
    BY <1>6, DenotesValue
  <1> QED BY <1>7 DEF bytes

\* However long r and s are, each half of the result denotes its integer.
THEOREM SignatureValues == Spec => []HalvesDenote
  <1>1. FormatInv => HalvesDenote
    <2> SUFFICES ASSUME FormatInv, pc = "done" PROVE HalvesDenote
      BY DEF HalvesDenote
    <2>1. /\ input[1] \in Scalar /\ input[2] \in Scalar
          /\ result_buffer \in Buffers
          /\ Holds(result_buffer, 0, input[1])
          /\ Holds(result_buffer, Half, input[2])
      BY DEF FormatInv
    <2>2. 0 + 1 = 1 /\ 0 + Half = Half /\ Half + Half = 2 * Half
      BY Sizes
    <2>3. Value(SubSeq(result_buffer, 0 + 1, 0 + Half)) = input[1]
      BY <2>1, HalfDenotes
    <2>4. Value(SubSeq(result_buffer, Half + 1, Half + Half)) = input[2]
      BY <2>1, HalfDenotes
    <2> QED BY <2>2, <2>3, <2>4 DEF HalvesDenote
  <1> QED BY <1>1, FormatInvariant, PTL

-----------------------------------------------------------------------------
(* Compressed keys *)

\* The last byte of a number has its parity.
LEMMA ParityOfLastByte ==
    ASSUME NEW n \in Nat
    PROVE  (n % Radix) % 2 = n % 2
  <1> DEFINE h == Radix \div 2
             q == n \div Radix
             b == n % Radix
  <1>1. Radix = 2 * h /\ h \in Nat
    BY SizesAssumption
  <1>2. n = q * Radix + b /\ q \in Nat /\ b \in Nat
    BY Division, Sizes DEF Byte
  <1> HIDE DEF h, q, b
  <1>3. q * Radix = 2 * (q * h) /\ q * h \in Nat
    BY <1>1, <1>2
  <1> DEFINE m == q * h
  <1>4. n = 2 * m + b /\ m \in Nat
    BY <1>2, <1>3
  <1> HIDE DEF m
  <1>5. n % 2 = b % 2
    BY <1>2, <1>4
  <1> QED BY <1>5 DEF b

LEMMA BytesAreNumbers ==
    ASSUME NEW bytes \in Seq(Byte)
    PROVE  bytes \in Seq(Nat)
  <1>1. Byte \subseteq Nat
    BY Sizes DEF Byte
  <1> QED BY <1>1, SeqMonotonic

\* The bytes of a compressed key: the parity of y, then x.
LEMMA CompressedIs ==
    ASSUME NEW x \in Scalar, NEW y \in Scalar
    PROVE  LET key == Compressed(Uncompressed(<<x, y>>)) IN
           /\ key[1] = IF y % 2 = 1 THEN 3 ELSE 2
           /\ \A k \in 1..Half : key[1 + k] = Fixed(x, Half)[k]
  <1> DEFINE X == Fixed(x, Half)
             Y == Fixed(y, Half)
             whole == <<4>> \o X \o Y
             key == Compressed(whole)
             prefix == IF whole[2 * Half + 1] % 2 = 1 THEN 3 ELSE 2
  <1>0. Half \in 1..Half /\ x \in Nat /\ y \in Nat
    BY Sizes DEF Scalar
  <1>1. /\ X \in Seq(Byte) /\ Len(X) = Half
        /\ Y \in Seq(Byte) /\ Len(Y) = Half
        /\ Y[Half] = Shift(y)[Half - Half] % Radix
    BY <1>0, FixedDenotes
  <1>2. Y[Half] = y % Radix
    <2>1. Shift(y)[0] = y /\ Half - Half = 0
      BY <1>0, Sizes, ShiftSteps
    <2> HIDE DEF Y
    <2> QED BY <1>1, <2>1
  <1> HIDE DEF X, Y
  <1>3. X \in Seq(Nat) /\ Y \in Seq(Nat) /\ <<4>> \in Seq(Nat)
    <2>1. 4 \in Nat
      OBVIOUS
    <2>2. <<4>> \in Seq(Nat)
      BY <2>1
    <2> QED BY <1>1, <2>2, BytesAreNumbers
  <1>4. <<4>> \o X \in Seq(Nat) /\ Len(<<4>> \o X) = 1 + Half
    BY <1>1, <1>3
  <1>5. whole \in Seq(Nat) /\ Len(whole) = 2 * Half + 1
    <2> DEFINE front == <<4>> \o X
    <2>1. front \in Seq(Nat) /\ Len(front) = 1 + Half
      BY <1>4
    <2> HIDE DEF front
    <2>2. front \o Y \in Seq(Nat)
      BY <1>3, <2>1
    <2>3. Len(front \o Y) = Len(front) + Len(Y)
      BY <1>3, <2>1
    <2>4. Len(front \o Y) = 2 * Half + 1
      BY <1>1, <2>1, <2>3, Sizes
    <2> QED BY <2>2, <2>4 DEF front
  <1>6. \A k \in 1..Half : whole[1 + k] = X[k]
    <2> TAKE k \in 1..Half
    <2>1. (<<4>> \o X)[1 + k] = X[k]
      BY <1>1, <1>3, Sizes
    <2>2. whole[1 + k] = (<<4>> \o X)[1 + k]
      BY <1>1, <1>3, <1>4, Sizes
    <2> QED BY <2>1, <2>2
  <1>7. whole[2 * Half + 1] = Y[Half]
    <2>1. 2 * Half + 1 = (1 + Half) + Half
      BY Sizes
    <2>2. whole[(1 + Half) + Half] = Y[Half]
      BY <1>1, <1>3, <1>4, Sizes
    <2> QED BY <2>1, <2>2
  <1>8. Uncompressed(<<x, y>>) = whole
    BY DEF Uncompressed, X, Y
  <1> HIDE DEF whole
  <1>9. key = <<prefix>> \o SubSeq(whole, 2, Half + 1)
    BY DEF Compressed
  <1>10. /\ SubSeq(whole, 2, Half + 1) \in Seq(Nat)
         /\ Len(SubSeq(whole, 2, Half + 1)) = Half
         /\ \A k \in 1..Half : SubSeq(whole, 2, Half + 1)[k] = whole[1 + k]
    BY <1>5, Sizes
  <1>11. prefix = IF y % 2 = 1 THEN 3 ELSE 2
    BY <1>0, <1>2, <1>7, ParityOfLastByte
  <1> DEFINE tail == SubSeq(whole, 2, Half + 1)
  <1> HIDE DEF tail, prefix
  <1>12. prefix \in Nat
    BY <1>11
  <1>13. <<prefix>> \in Seq(Nat) /\ Len(<<prefix>>) = 1
    BY <1>12
  <1>14. /\ (<<prefix>> \o tail)[1] = prefix
         /\ \A k \in 1..Half : (<<prefix>> \o tail)[1 + k] = tail[k]
    BY <1>10, <1>13, Sizes DEF tail
  <1> HIDE DEF key
  <1>15. key[1] = IF y % 2 = 1 THEN 3 ELSE 2
    BY <1>9, <1>11, <1>14 DEF tail
  <1>16. \A k \in 1..Half : key[1 + k] = X[k]
    BY <1>6, <1>9, <1>10, <1>14 DEF tail
  <1> QED BY <1>8, <1>15, <1>16 DEF key, X

\* The bytes of x denote it, so they tell it.
LEMMA FixedTells ==
    ASSUME NEW x \in Scalar, NEW u \in Scalar,
           \A k \in 1..Half : Fixed(x, Half)[k] = Fixed(u, Half)[k]
    PROVE  x = u
  <1>1. Half \in 1..Half /\ x \in Nat /\ u \in Nat
    BY Sizes DEF Scalar
  <1>2. Denotes(Fixed(x, Half), x) /\ Denotes(Fixed(u, Half), u)
    BY <1>1, FixedDenotes DEF Denotes
  <1>3. Denotes(Fixed(x, Half), u)
    BY <1>2 DEF Denotes
  <1> QED BY <1>2, <1>3, DenotesValue

\* On a curve the parity of y is all that x leaves open.
LEMMA KeysApart ==
    ASSUME NEW p \in Points, NEW q \in Points,
           Compressed(Uncompressed(p)) = Compressed(Uncompressed(q))
    PROVE  p = q
  <1>1. PICK x \in Scalar, y \in Scalar : p = <<x, y>>
    BY InputsAssumption
  <1>2. PICK u \in Scalar, v \in Scalar : q = <<u, v>>
    BY InputsAssumption
  <1>3. x = u
    <2>1. \A k \in 1..Half : Fixed(x, Half)[k] = Fixed(u, Half)[k]
      BY <1>1, <1>2, CompressedIs
    <2> QED BY <2>1, FixedTells
  <1>4. y % 2 = v % 2
    <2>1. (IF y % 2 = 1 THEN 3 ELSE 2) = IF v % 2 = 1 THEN 3 ELSE 2
      BY <1>1, <1>2, CompressedIs
    <2>2. y \in Nat /\ v \in Nat
      BY DEF Scalar
    <2> QED BY <2>1, <2>2
  <1>5. y = v \/ y + v = Prime
    BY <1>1, <1>2, <1>3, CurveAssumption
  <1>6. y + v # Prime
    <2>1. y \in Nat /\ v \in Nat
      BY DEF Scalar
    <2> QED BY <1>4, <2>1, CurveAssumption
  <1> QED BY <1>1, <1>2, <1>3, <1>5, <1>6

\* A key that comes out compressed is the input's, and no other key's.
THEOREM KeysApartAlways == Spec => []KeysStayApart
  <1> DEFINE Inv == /\ pc \in {"key", "compressed"} => input \in Points
                    /\ pc = "compressed" =>
                          result_buffer = Compressed(Uncompressed(input))
  <1>1. Init => Inv
    BY DEF Init
  <1>2. Inv /\ [Next]_vars => Inv'
    BY DEF Next, vars, Decode, DecodeFails, WriteR, WriteS, Write, Compress
  <1>3. Inv => KeysStayApart
    BY KeysApart DEF KeysStayApart
  <1> QED BY <1>1, <1>2, <1>3, PTL DEF Spec
=============================================================================
