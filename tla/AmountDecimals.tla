--------------------------- MODULE AmountDecimals ---------------------------
(***************************************************************************)
(* get_amount_in_decimals of rust-app/src/implementation.rs: the text of   *)
(* an amount in nhash becomes the text of the same amount in HASH, by      *)
(* moving the decimal point.  One step per turn of the scanning loop, one  *)
(* for what follows the loop.  Bytes are their codes; indices count from 0 *)
(* as in the code.                                                         *)
(***************************************************************************)
EXTENDS Integers, Sequences

CONSTANTS
    Decimals,   \* chars_after_decimal, 9 in the code
    Cap,        \* the N of both ArrayVec<u8, N>, 64 in the code
    Amounts     \* the texts to convert

ASSUME DecimalsAssumption == Decimals \in Nat /\ Decimals >= 2
ASSUME CapAssumption == Cap \in Nat /\ Cap >= Decimals + 2
ASSUME AmountsAssumption ==
    \A a \in Amounts : a \in Seq(0..255) /\ Len(a) <= Cap

Zero == 48
Nine == 57
Dot == 46

VARIABLES
    amount,
    ix,                     \* the byte the loop looks at next
    found_first_non_zero,
    start_ix,
    last_non_zero_ix,
    dec_value,
    pc                      \* "scan", then "Ok", "Err" or "panicked"

vars == <<amount, ix, found_first_non_zero, start_ix, last_non_zero_ix,
          dec_value, pc>>

scanVars == <<ix, found_first_non_zero, start_ix, last_non_zero_ix>>

\* Mutant of IsDigit: the upper bound is one too high.
IsDigitWide(c) == c \in Zero..(Nine + 1)

IsDigit(c) == c \in Zero..Nine

Init ==
    /\ amount \in Amounts
    /\ ix = 0
    /\ found_first_non_zero = FALSE
    /\ start_ix = 0
    /\ last_non_zero_ix = 0
    /\ dec_value = <<>>
    /\ pc = "scan"

-----------------------------------------------------------------------------
(* The loop *)

InLoop == pc = "scan" /\ ix < Len(amount)

\* The byte at ix.
c == amount[ix + 1]

ScanInvalid ==
    /\ InLoop
    /\ ~IsDigit(c)
    /\ pc' = "Err"
    /\ UNCHANGED <<amount, dec_value, scanVars>>

\* Mutant of ScanDigit: the first digit that is not zero is not yet recorded
\* as the last one.
ScanDigitSkipsFirst ==
    /\ InLoop
    /\ IsDigit(c)
    /\ last_non_zero_ix' = IF c # Zero /\ found_first_non_zero
                           THEN ix ELSE last_non_zero_ix
    /\ start_ix' = IF c # Zero /\ ~found_first_non_zero THEN ix ELSE start_ix
    /\ found_first_non_zero' = (found_first_non_zero \/ c # Zero)
    /\ ix' = ix + 1
    /\ UNCHANGED <<amount, dec_value, pc>>

ScanDigit ==
    /\ InLoop
    /\ IsDigit(c)
    /\ last_non_zero_ix' = IF c # Zero THEN ix ELSE last_non_zero_ix
    /\ start_ix' = IF c # Zero /\ ~found_first_non_zero THEN ix ELSE start_ix
    /\ found_first_non_zero' = (found_first_non_zero \/ c # Zero)
    /\ ix' = ix + 1
    /\ UNCHANGED <<amount, dec_value, pc>>

-----------------------------------------------------------------------------
(* After the loop *)

\* amount[lo..hi], which panics unless the bounds are in order and in range.
Slice(lo, hi) == SubSeq(amount, lo + 1, hi)
SliceInRange(lo, hi) == lo <= hi /\ hi <= Len(amount)

amt_len == Len(amount) - start_ix
point == Len(amount) - Decimals

\* Mutant of IsMoreThanOne: an amount of exactly Decimals digits counts.
IsMoreThanOneOrEqual == amt_len >= Decimals

IsMoreThanOne == amt_len > Decimals

\* Mutant of FractionEnd: trailing zeros are kept.
FractionEndAll == Len(amount)

\* The end of the digits worth showing.
FractionEnd == last_non_zero_ix + 1

\* The bounds of the slices the taken branch evaluates.
SlicesInRange ==
    IF IsMoreThanOne
    THEN /\ SliceInRange(start_ix, point)
         /\ point <= last_non_zero_ix => SliceInRange(point, FractionEnd)
    ELSE SliceInRange(start_ix, FractionEnd)

\* Mutant of Padding: one zero short.
PaddingShort == [i \in 1..(Decimals - amt_len - 1) |-> Zero]

\* The zeros between the point and the digits of a value less than one.
Padding == [i \in 1..(Decimals - amt_len) |-> Zero]

\* Everything pushed to dec_value, if it has room.
Shown ==
    IF IsMoreThanOne
    THEN Slice(start_ix, point) \o <<Dot>> \o
            (IF point <= last_non_zero_ix THEN Slice(point, FractionEnd)
                                          ELSE <<Zero>>)
    ELSE <<Zero, Dot>> \o Padding \o Slice(start_ix, FractionEnd)

Finished == pc = "scan" /\ ix = Len(amount)

FormatPanic ==
    /\ Finished
    /\ ~SlicesInRange
    /\ pc' = "panicked"
    /\ UNCHANGED <<amount, dec_value, scanVars>>

\* A push beyond the capacity of dec_value is an error.
FormatErr ==
    /\ Finished
    /\ SlicesInRange
    /\ Len(Shown) > Cap
    /\ pc' = "Err"
    /\ UNCHANGED <<amount, dec_value, scanVars>>

FormatOk ==
    /\ Finished
    /\ SlicesInRange
    /\ Len(Shown) <= Cap
    /\ dec_value' = Shown
    /\ pc' = "Ok"
    /\ UNCHANGED <<amount, scanVars>>

Next == ScanInvalid \/ ScanDigit \/ FormatPanic \/ FormatErr \/ FormatOk

Spec == Init /\ [][Next]_vars

-----------------------------------------------------------------------------
(* Properties *)

\* What the loop knows of the bytes it has passed: the first and the last one
\* that is not zero, and that only zeros lie outside them.
ScanInv ==
    /\ \A j \in 1..ix : IsDigit(amount[j])
    /\ \A j \in 1..start_ix : amount[j] = Zero
    /\ \A j \in (last_non_zero_ix + 2)..ix : amount[j] = Zero
    /\ IF found_first_non_zero
       THEN /\ start_ix <= last_non_zero_ix /\ last_non_zero_ix < ix
            /\ amount[start_ix + 1] # Zero
            /\ amount[last_non_zero_ix + 1] # Zero
       ELSE /\ start_ix = 0 /\ last_non_zero_ix = 0
            /\ \A j \in 1..ix : amount[j] = Zero

\* No slice of get_amount_in_decimals is out of range but for the empty text.
PanicOnlyOnEmpty == pc = "panicked" => amount = <<>>

\* A text of digits is refused exactly when moving the point makes it longer
\* than the buffer: it fills the buffer, and neither end can be dropped.
TooLong ==
    /\ Len(amount) = Cap
    /\ amount[1] # Zero
    /\ amount[Cap] # Zero

RefusedExactly ==
    /\ pc = "Err" => TooLong \/ \E j \in 1..Len(amount) : amount[j] \notin Zero..Nine
    /\ pc = "Ok" => ~TooLong /\ \A j \in 1..Len(amount) : amount[j] \in Zero..Nine

\* The text shown is digits on both sides of a point at d.
PointAt(d) ==
    /\ dec_value[d] = Dot
    /\ d > 1 /\ Len(dec_value) - d \in 1..Decimals
    /\ \A i \in (1..Len(dec_value)) \ {d} : dec_value[i] \in Zero..Nine

\* The digit that counts 10^k in the amount, and the one that counts
\* 10^(k - Decimals) in the text shown.
AmountDigit(k) == IF k < Len(amount) THEN amount[Len(amount) - k] ELSE Zero

ShownDigit(d, k) ==
    LET i == IF k < Decimals THEN d + Decimals - k ELSE d + Decimals - k - 1 IN
    IF i \in 1..Len(dec_value) THEN dec_value[i] ELSE Zero

\* "Divides" the amount by 10^Decimals (implementation.rs:165): the text shown
\* denotes it in the larger unit, to the last digit.
ValuePreserved ==
    pc = "Ok" =>
        \E d \in 1..Len(dec_value) :
            /\ PointAt(d)
            /\ \A k \in 0..(Len(amount) + Len(dec_value) + Decimals) :
                  ShownDigit(d, k) = AmountDigit(k)

\* Apart from the amount zero, a number has one text only: no zero before the
\* first digit but the one before the point, none after the last but the one
\* after the point.  Two amounts that differ never look alike.
Canonical ==
    pc = "Ok" /\ (\E j \in 1..Len(amount) : amount[j] # Zero) =>
        \E d \in 1..Len(dec_value) :
            /\ PointAt(d)
            /\ d = 2 \/ dec_value[1] # Zero
            /\ d = Len(dec_value) - 1 \/ dec_value[Len(dec_value)] # Zero

\* docs/apdu.md:143 has SW_ERROR for "bad input".  No text of an amount makes
\* the conversion panic.
BadAmountIsAnError == pc # "panicked"
=============================================================================
