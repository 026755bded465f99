---------------------------- MODULE CryptoHelpers ----------------------------
(***************************************************************************)
(* format_signature and compress_public_key of                             *)
(* rust-app/src/crypto_helpers.rs.  A signature comes as two DER integers, *)
(* which are as long as their value needs, and leaves as two halves of     *)
(* fixed width; a public key loses all of y but its parity.                *)
(***************************************************************************)
EXTENDS Naturals, Sequences, FiniteSetsExt

CONSTANTS
    Radix,       \* 256, the values of a byte
    Half,        \* 32, the bytes of r, s, x and y
    Signatures,  \* pairs <<r, s>> deterministic_sign may return
    Points,      \* pairs <<x, y>> that are public keys
    Prime        \* the modulus of the curve secp256k1

ASSUME SizesAssumption ==
    Radix \in Nat /\ Radix > 1 /\ Radix % 2 = 0 /\ Half \in Nat \ {0}

Byte == 0..(Radix - 1)

\* What is left of n without its k last bytes.
Shift(n) ==
    LET without[k \in 0..Half] == IF k = 0 THEN n ELSE without[k - 1] \div Radix
    IN  without

\* The integers half a result can hold.
Scalar == {n \in Nat : Shift(n)[Half] = 0}

ASSUME InputsAssumption ==
    Signatures \subseteq Scalar \X Scalar /\ Points \subseteq Scalar \X Scalar

\* The curve is y^2 = f(x) over a field with an odd number of elements: the two
\* roots of a square are opposite, and the sum of opposites is the modulus.
ASSUME CurveAssumption ==
    /\ Prime \in Nat /\ Prime % 2 = 1
    /\ \A p, q \in Points :
          p[1] = q[1] => p[2] = q[2] \/ p[2] + q[2] = Prime

VARIABLES
    pc,      \* "sign", "r", "s", "key"; "done", "none", "panicked", "compressed"
    input,   \* the pair
    r, s,    \* the slices cx_ecfp_decode_sig_der leaves
    result_buffer

vars == <<pc, input, r, s, result_buffer>>

\* Big-endian bytes of n in a given width, and back.
Fixed(n, width) == [i \in 1..width |-> Shift(n)[width - i] % Radix]
Value(bytes) ==
    LET upTo[k \in 0..Len(bytes)] ==
            IF k = 0 THEN 0 ELSE upTo[k - 1] * Radix + bytes[k]
    IN  upTo[Len(bytes)]

-----------------------------------------------------------------------------
(* External: the system calls *)

\* The fewest bytes that hold n.
Magnitude(n) == Fixed(n, Min({w \in 1..Half : Shift(n)[w] = 0}))

\* DER integers are signed: a leading zero keeps a large one positive.
DerInteger(n) ==
    IF Head(Magnitude(n)) >= Radix \div 2 THEN <<0>> \o Magnitude(n) ELSE Magnitude(n)

\* cx_ecfp_decode_sig_der points behind that zero.
DecodeInteger(bytes) ==
    IF Len(bytes) > 1 /\ Head(bytes) = 0 THEN Tail(bytes) ELSE bytes

\* ECPublicKey<65, 'W'>.
Uncompressed(point) == <<4>> \o Fixed(point[1], Half) \o Fixed(point[2], Half)

-----------------------------------------------------------------------------
(* format_signature *)

\* Mutant of Slot: the integer goes to the front of its half.
SlotLeft(half, length) == [from |-> half * Half, to |-> half * Half + length]

\* Mutant of Slot: padding1 is used for both.
SlotPadding1(half, length) ==
    [from |-> half * Half + (Half - Len(r)), to |-> (half + 1) * Half]

\* The range of result_buffer for an integer of this length.
Slot(half, length) ==
    [from |-> half * Half + (Half - length), to |-> (half + 1) * Half]

\* An integer too long underflows its padding; clone_from_slice wants as many
\* bytes as the range has.
Panics(half, bytes) ==
    LET slot == Slot(half, Len(bytes)) IN
    Len(bytes) > Half \/ slot.to - slot.from # Len(bytes)

Written(half, bytes) ==
    LET slot == Slot(half, Len(bytes)) IN
    [i \in 1..(2 * Half) |->
        IF i \in (slot.from + 1)..slot.to THEN bytes[i - slot.from]
                                          ELSE result_buffer[i]]

Write(half, bytes, next) ==
    IF Panics(half, bytes)
    THEN pc' = "panicked" /\ UNCHANGED result_buffer
    ELSE pc' = next /\ result_buffer' = Written(half, bytes)

Init ==
    /\ \/ pc = "sign" /\ input \in Signatures
       \/ pc = "key" /\ input \in Points
    /\ r = <<>> /\ s = <<>>
    /\ result_buffer = [i \in 1..(2 * Half) |-> 0]

Decode ==
    /\ pc = "sign"
    /\ r' = DecodeInteger(DerInteger(input[1]))
    /\ s' = DecodeInteger(DerInteger(input[2]))
    /\ pc' = "r"
    /\ UNCHANGED <<input, result_buffer>>

\* flag # 1: None, before anything is written.
DecodeFails == pc = "sign" /\ pc' = "none" /\ UNCHANGED <<input, r, s, result_buffer>>

WriteR == pc = "r" /\ Write(0, r, "s") /\ UNCHANGED <<input, r, s>>
WriteS == pc = "s" /\ Write(1, s, "done") /\ UNCHANGED <<input, r, s>>

-----------------------------------------------------------------------------
(* compress_public_key *)

\* Mutant of Compressed: the parity is that of x.
CompressedX(pubkey) ==
    <<IF pubkey[Half + 1] % 2 = 1 THEN 3 ELSE 2>> \o SubSeq(pubkey, 2, Half + 1)

Compressed(pubkey) ==
    <<IF pubkey[2 * Half + 1] % 2 = 1 THEN 3 ELSE 2>> \o SubSeq(pubkey, 2, Half + 1)

Compress ==
    /\ pc = "key"
    /\ result_buffer' = Compressed(Uncompressed(input))
    /\ pc' = "compressed"
    /\ UNCHANGED <<input, r, s>>

Next == Decode \/ DecodeFails \/ WriteR \/ WriteS \/ Compress

Spec == Init /\ [][Next]_vars

-----------------------------------------------------------------------------
(* Properties *)

\* The lengths of r and s vary from one signature to the next; each half of the
\* result nevertheless denotes its integer.
HalvesDenote ==
    pc = "done" =>
        /\ Value(SubSeq(result_buffer, 1, Half)) = input[1]
        /\ Value(SubSeq(result_buffer, Half + 1, 2 * Half)) = input[2]

\* No padding underflows and no copy has the wrong length, whichever of r and s
\* is the longer and whether or not DER put a zero in front.
NeverPanics == pc # "panicked"

\* Two keys never come out as the same bytes: for each x on the curve, the
\* parity tells the two values of y apart.
KeysStayApart ==
    pc = "compressed" =>
        \A q \in Points : Compressed(Uncompressed(q)) = result_buffer => q = input
=============================================================================
