------------------------ MODULE AmountDecimalsProofs ------------------------
(***************************************************************************)
(* The loop invariant of get_amount_in_decimals, and what it gives for     *)
(* every number of decimals and every capacity: no slice is out of range   *)
(* on a text that is not empty, exactly the texts that are no number or    *)
(* have no room are refused, and the text shown has every digit of the     *)
(* amount at its place.                                                    *)
(***************************************************************************)
EXTENDS AmountDecimals, SequenceTheorems, TLAPS

\* The ranges of the variables.
Ranges ==
    /\ amount \in Amounts
    /\ amount \in Seq(0..255) /\ Len(amount) <= Cap
    /\ ix \in 0..Len(amount)
    /\ found_first_non_zero \in BOOLEAN
    /\ start_ix \in Nat /\ last_non_zero_ix \in Nat
    /\ pc \in {"scan", "Ok", "Err", "panicked"}

AmountInv == Ranges /\ ScanInv /\ PanicOnlyOnEmpty /\ RefusedExactly

LEMMA InitEstablishes == Init => AmountInv
  <1> SUFFICES ASSUME Init PROVE AmountInv
    OBVIOUS
  <1>1. amount \in Seq(0..255) /\ Len(amount) <= Cap
    BY AmountsAssumption DEF Init
  <1>2. Len(amount) \in Nat
    BY <1>1, LenProperties
  <1>3. Ranges
    <2>1. found_first_non_zero \in BOOLEAN
      BY Zenon DEF Init
    <2>2. ix \in 0..Len(amount) /\ start_ix \in Nat /\ last_non_zero_ix \in Nat
      BY <1>2 DEF Init
    <2> QED BY <1>1, <2>1, <2>2 DEF Init, Ranges
  <1>4. ScanInv
    BY DEF Init, ScanInv
  <1>5. PanicOnlyOnEmpty /\ RefusedExactly
    BY DEF Init, PanicOnlyOnEmpty, RefusedExactly
  <1> QED BY <1>3, <1>4, <1>5 DEF AmountInv

\* One turn of the loop extends what is known by one byte.
LEMMA ScanKeeps == AmountInv /\ ScanDigit => AmountInv'
  <1> SUFFICES ASSUME AmountInv, ScanDigit PROVE AmountInv'
    OBVIOUS
  <1> USE DEF AmountInv, ScanDigit, InLoop
  <1>1. /\ ix \in Nat /\ Len(amount) \in Nat /\ ix < Len(amount)
        /\ ix' = ix + 1 /\ amount' = amount /\ IsDigit(amount[ix + 1])
    BY LenProperties DEF Ranges, c
  <1>2. Ranges'
    BY <1>1 DEF Ranges
  <1>3. \A j \in 1..ix' : j \in 1..ix \/ j = ix + 1
    BY <1>1
  <1>4. CASE amount[ix + 1] # Zero /\ found_first_non_zero
    <2>1. last_non_zero_ix' = ix /\ start_ix' = start_ix /\ found_first_non_zero'
      BY <1>4 DEF c, Ranges
    <2> QED BY <1>1, <1>2, <1>3, <1>4, <2>1
            DEF Ranges, ScanInv, PanicOnlyOnEmpty, RefusedExactly
  <1>5. CASE amount[ix + 1] # Zero /\ ~found_first_non_zero
    <2>1. last_non_zero_ix' = ix /\ start_ix' = ix /\ found_first_non_zero'
      BY <1>5 DEF c, Ranges
    <2> QED BY <1>1, <1>2, <1>3, <1>5, <2>1
            DEF Ranges, ScanInv, PanicOnlyOnEmpty, RefusedExactly
  <1>6. CASE amount[ix + 1] = Zero
    <2>1. /\ last_non_zero_ix' = last_non_zero_ix /\ start_ix' = start_ix
          /\ found_first_non_zero' = found_first_non_zero
      BY <1>6 DEF c, Ranges
    <2> QED BY <1>1, <1>2, <1>3, <1>6, <2>1
            DEF Ranges, ScanInv, PanicOnlyOnEmpty, RefusedExactly
  <1> QED BY <1>4, <1>5, <1>6

\* After the loop both indices are in the text, so every slice is in range.
LEMMA RangesAfterLoop ==
    ASSUME AmountInv, Finished, amount # <<>>
    PROVE  SlicesInRange
  <1>1. Len(amount) \in Nat \ {0}
    BY EmptySeq DEF AmountInv, Ranges
  <1>2. /\ start_ix <= last_non_zero_ix
        /\ last_non_zero_ix < Len(amount)
    BY <1>1 DEF AmountInv, Ranges, ScanInv, Finished
  <1> QED BY <1>1, <1>2, DecimalsAssumption
          DEF SlicesInRange, SliceInRange, IsMoreThanOne, amt_len, point,
              FractionEnd, AmountInv, Ranges

\* How many bytes get_amount_in_decimals pushes.
LEMMA ShownLength ==
    ASSUME AmountInv, Finished, SlicesInRange
    PROVE  Len(Shown) =
             IF IsMoreThanOne
             THEN (point - start_ix) + 1 +
                    (IF point <= last_non_zero_ix
                     THEN FractionEnd - point ELSE 1)
             ELSE 2 + (Decimals - amt_len) + (FractionEnd - start_ix)
  <1> DEFINE Bytes == 0..255
  <1>1. /\ Len(amount) \in Nat
        /\ \A j \in 1..Len(amount) : amount[j] \in Bytes
    <2>1. amount \in Seq(Bytes)
      BY DEF AmountInv, Ranges
    <2> HIDE DEF Bytes
    <2> QED BY <2>1, LenProperties
  <1>2. ASSUME NEW lo \in Int, NEW hi \in Int, lo >= 0, SliceInRange(lo, hi)
        PROVE  Slice(lo, hi) \in Seq(Bytes) /\ Len(Slice(lo, hi)) = hi - lo
    <2> HIDE DEF Bytes
    <2>1. \A i \in (lo + 1)..hi : amount[i] \in Bytes
      BY <1>1, <1>2 DEF SliceInRange
    <2> QED BY <1>2, <2>1, SubSeqProperties DEF Slice, SliceInRange
  <1>3. /\ start_ix \in Int /\ point \in Int /\ FractionEnd \in Int
        /\ start_ix >= 0 /\ amt_len \in Int
    BY <1>1, DecimalsAssumption DEF AmountInv, Ranges, point, FractionEnd, amt_len
  <1>4. /\ <<Zero>> \in Seq(Bytes) /\ Len(<<Zero>>) = 1
        /\ <<Dot>> \in Seq(Bytes) /\ Len(<<Dot>>) = 1
        /\ <<Zero, Dot>> \in Seq(Bytes) /\ Len(<<Zero, Dot>>) = 2
    BY DEF Zero, Dot
  <1>5. CASE IsMoreThanOne
    <2> DEFINE whole == Slice(start_ix, point)
               fraction == IF point <= last_non_zero_ix
                           THEN Slice(point, FractionEnd) ELSE <<Zero>>
    <2>1. whole \in Seq(Bytes) /\ Len(whole) = point - start_ix
      BY <1>2, <1>3, <1>5 DEF SlicesInRange
    <2>2. point >= 0
      BY <1>1, <1>3, <1>5, DecimalsAssumption DEF IsMoreThanOne, amt_len, point
    <2>3. /\ fraction \in Seq(Bytes)
          /\ Len(fraction) = IF point <= last_non_zero_ix
                             THEN FractionEnd - point ELSE 1
      BY <1>2, <1>3, <1>4, <1>5, <2>2 DEF SlicesInRange
    <2>4. Shown = whole \o <<Dot>> \o fraction
      BY <1>5 DEF Shown
    <2> HIDE DEF whole, fraction, Bytes
    <2>5. whole \o <<Dot>> \in Seq(Bytes) /\ Len(whole \o <<Dot>>) = Len(whole) + 1
      BY <1>4, <2>1, ConcatProperties
    <2>6. Len((whole \o <<Dot>>) \o fraction)
            = Len(whole \o <<Dot>>) + Len(fraction)
      BY <2>3, <2>5, ConcatProperties
    <2>7. Len(Shown) = Len(whole) + 1 + Len(fraction)
      BY <2>4, <2>5, <2>6
    <2> QED BY <1>5, <2>1, <2>3, <2>7
  <1>6. CASE ~IsMoreThanOne
    <2> DEFINE digits == Slice(start_ix, FractionEnd)
    <2>1. digits \in Seq(Bytes) /\ Len(digits) = FractionEnd - start_ix
      BY <1>2, <1>3, <1>6 DEF SlicesInRange
    <2>2. Decimals - amt_len \in Nat
      BY <1>3, <1>6, DecimalsAssumption DEF IsMoreThanOne
    <2>3. Padding \in Seq(Bytes) /\ Len(Padding) = Decimals - amt_len
      BY <2>2 DEF Padding, Zero
    <2>4. Shown = <<Zero, Dot>> \o Padding \o digits
      BY <1>6 DEF Shown
    <2> HIDE DEF digits, Bytes
    <2>5. /\ <<Zero, Dot>> \o Padding \in Seq(Bytes)
          /\ Len(<<Zero, Dot>> \o Padding) = 2 + Len(Padding)
      BY <1>4, <2>3, ConcatProperties
    <2>6. Len((<<Zero, Dot>> \o Padding) \o digits)
            = Len(<<Zero, Dot>> \o Padding) + Len(digits)
      BY <2>1, <2>5, ConcatProperties
    <2>7. Len(Shown) = 2 + Len(Padding) + Len(digits)
      BY <2>4, <2>5, <2>6
    <2> QED BY <1>6, <2>1, <2>3, <2>7
  <1> QED BY <1>5, <1>6

\* A text of digits lacks room exactly when it is TooLong.
LEMMA RoomExactly ==
    ASSUME AmountInv, Finished, SlicesInRange
    PROVE  Len(Shown) > Cap <=> TooLong
  <1>1. /\ Len(amount) \in Nat /\ Len(amount) <= Cap /\ ix = Len(amount)
        /\ start_ix \in Nat /\ last_non_zero_ix \in Nat
        /\ Decimals \in Nat /\ Decimals >= 2
        /\ Cap \in Nat /\ Cap >= Decimals + 2
    BY LenProperties, DecimalsAssumption, CapAssumption
       DEF AmountInv, Ranges, Finished
  <1>2. CASE amount = <<>>
    <2>1. FALSE
      BY <1>1, <1>2 DEF SlicesInRange, SliceInRange, IsMoreThanOne, amt_len,
             point, FractionEnd, AmountInv, ScanInv
    <2> QED BY <2>1
  <1>3. CASE amount # <<>>
    <2>1. Len(amount) > 0
      BY <1>1, <1>3, EmptySeq DEF AmountInv, Ranges
    <2>2. /\ start_ix <= last_non_zero_ix
          /\ last_non_zero_ix < Len(amount)
      BY <1>1, <2>1 DEF AmountInv, ScanInv
    <2>3. TooLong <=> /\ Len(amount) = Cap
                      /\ start_ix = 0 /\ amount[1] # Zero
                      /\ last_non_zero_ix = Cap - 1
      <3>1. ASSUME TooLong
            PROVE  start_ix = 0 /\ last_non_zero_ix = Cap - 1
        <4>1. ~(start_ix >= 1)
          BY <1>1, <3>1 DEF TooLong, AmountInv, ScanInv
        <4>2. ~(last_non_zero_ix + 2 <= Cap)
          BY <1>1, <3>1 DEF TooLong, AmountInv, ScanInv
        <4> QED BY <1>1, <2>2, <3>1, <4>1, <4>2 DEF TooLong
      <3>2. ASSUME Len(amount) = Cap, start_ix = 0, amount[1] # Zero,
                   last_non_zero_ix = Cap - 1
            PROVE  TooLong
        <4>1. found_first_non_zero
          BY <1>1, <3>2 DEF AmountInv, ScanInv
        <4> QED BY <1>1, <3>2, <4>1 DEF TooLong, AmountInv, ScanInv
      <3> QED BY <3>1, <3>2 DEF TooLong
    <2>4. start_ix = 0 /\ last_non_zero_ix > 0 => amount[1] # Zero
      BY <1>1 DEF AmountInv, ScanInv, Ranges
    <2>5. CASE IsMoreThanOne
      <3>1. Len(Shown) = (point - start_ix) + 1 +
                           (IF point <= last_non_zero_ix
                            THEN FractionEnd - point ELSE 1)
        BY <2>5, ShownLength
      <3>2. CASE point <= last_non_zero_ix
        <4>1. Len(Shown) = last_non_zero_ix - start_ix + 2
          BY <1>1, <3>1, <3>2 DEF point, FractionEnd
        <4>2. Len(Shown) > Cap <=>
                 Len(amount) = Cap /\ start_ix = 0 /\ last_non_zero_ix = Cap - 1
          BY <1>1, <2>2, <4>1
        <4> QED BY <1>1, <2>3, <2>4, <4>2
      <3>3. CASE ~(point <= last_non_zero_ix)
        <4>1. point = Len(amount) - Decimals
          BY DEF point
        <4>2. Len(Shown) = point - start_ix + 2
          BY <1>1, <3>1, <3>3, <4>1
        <4> QED BY <1>1, <2>3, <3>3, <4>1, <4>2
      <3> QED BY <3>2, <3>3
    <2>6. CASE ~IsMoreThanOne
      <3>1. Len(Shown) = 2 + (Decimals - amt_len) + (FractionEnd - start_ix)
        BY <2>6, ShownLength
      <3> QED BY <1>1, <2>1, <2>2, <2>3, <2>6, <3>1
              DEF IsMoreThanOne, amt_len, FractionEnd
    <2> QED BY <2>5, <2>6
  <1> QED BY <1>2, <1>3

LEMMA AmountInvInductive == AmountInv /\ [Next]_vars => AmountInv'
  <1> SUFFICES ASSUME AmountInv, [Next]_vars PROVE AmountInv'
    OBVIOUS
  <1> USE DEF AmountInv
  <1>0. Len(amount) \in Nat /\ ix \in Nat
    BY LenProperties DEF Ranges
  <1>1. CASE ScanInvalid
    <2>1. Ranges' /\ ScanInv' /\ PanicOnlyOnEmpty'
      BY <1>1 DEF ScanInvalid, scanVars, Ranges, ScanInv, PanicOnlyOnEmpty
    <2>2. \E j \in 1..Len(amount) : ~IsDigit(amount[j])
      <3>1. ix + 1 \in 1..Len(amount) /\ ~IsDigit(amount[ix + 1])
        BY <1>0, <1>1 DEF ScanInvalid, InLoop, c
      <3> QED BY <3>1
    <2>3. RefusedExactly'
      BY <1>1, <2>2 DEF ScanInvalid, RefusedExactly, IsDigit
    <2> QED BY <2>1, <2>3
  <1>2. CASE ScanDigit
    BY <1>2, ScanKeeps
  <1>3. CASE FormatPanic
    <2>1. amount = <<>>
      BY <1>3, RangesAfterLoop DEF FormatPanic
    <2> QED BY <1>3, <2>1 DEF FormatPanic, scanVars, Ranges, ScanInv,
            PanicOnlyOnEmpty, RefusedExactly
  <1>4. CASE FormatErr
    <2>1. TooLong
      BY <1>4, RoomExactly DEF FormatErr
    <2> QED BY <1>4, <2>1 DEF FormatErr, scanVars, Ranges, ScanInv,
            PanicOnlyOnEmpty, RefusedExactly, TooLong
  <1>5. CASE FormatOk
    <2>1. ~TooLong
      <3>1. ~(Len(Shown) > Cap)
        <4>1. Len(Shown) \in Int
          BY <1>0, <1>5, ShownLength, DecimalsAssumption
             DEF FormatOk, Ranges, point, FractionEnd, amt_len
        <4> QED BY <1>5, <4>1, CapAssumption DEF FormatOk
      <3> QED BY <1>5, <3>1, RoomExactly DEF FormatOk
    <2>2. \A j \in 1..Len(amount) : IsDigit(amount[j])
      BY <1>5 DEF FormatOk, Finished, ScanInv
    <2>3. \A j \in 1..Len(amount) : amount[j] \in Zero..Nine
      BY <2>2 DEF IsDigit
    <2>4. RefusedExactly'
      BY <1>5, <2>1, <2>3 DEF FormatOk, RefusedExactly, TooLong
    <2> QED BY <1>5, <2>4 DEF FormatOk, scanVars, Ranges, ScanInv,
            PanicOnlyOnEmpty
  <1>6. CASE UNCHANGED vars
    BY <1>6 DEF vars, Ranges, ScanInv, PanicOnlyOnEmpty, RefusedExactly,
           TooLong
  <1> QED BY <1>1, <1>2, <1>3, <1>4, <1>5, <1>6 DEF Next

-----------------------------------------------------------------------------
(* What is shown, byte by byte *)

\* Where the point comes in Shown.
PointPlace == IF IsMoreThanOne THEN (point - start_ix) + 1 ELSE 2

\* A concatenation of three sequences, place by place.
LEMMA ThreeParts ==
    ASSUME NEW a \in Seq(Int), NEW b \in Seq(Int), NEW d \in Seq(Int)
    PROVE  /\ Len((a \o b) \o d) = Len(a) + Len(b) + Len(d)
           /\ \A i \in 1..(Len(a) + Len(b) + Len(d)) :
                 ((a \o b) \o d)[i] =
                    IF i <= Len(a) THEN a[i]
                    ELSE IF i <= Len(a) + Len(b) THEN b[i - Len(a)]
                    ELSE d[i - Len(a) - Len(b)]
  <1>1. Len(a) \in Nat /\ Len(b) \in Nat /\ Len(d) \in Nat
    BY LenProperties
  <1>2. /\ a \o b \in Seq(Int) /\ Len(a \o b) = Len(a) + Len(b)
        /\ \A i \in 1..(Len(a) + Len(b)) :
              (a \o b)[i] = IF i <= Len(a) THEN a[i] ELSE b[i - Len(a)]
    BY ConcatProperties
  <1>3. /\ Len((a \o b) \o d) = Len(a \o b) + Len(d)
        /\ \A i \in 1..(Len(a \o b) + Len(d)) :
              ((a \o b) \o d)[i] =
                 IF i <= Len(a \o b) THEN (a \o b)[i] ELSE d[i - Len(a \o b)]
    BY <1>2, ConcatProperties
  <1>4. ASSUME NEW i \in 1..(Len(a) + Len(b) + Len(d))
        PROVE  ((a \o b) \o d)[i] =
                  IF i <= Len(a) THEN a[i]
                  ELSE IF i <= Len(a) + Len(b) THEN b[i - Len(a)]
                  ELSE d[i - Len(a) - Len(b)]
    <2>1. i \in 1..(Len(a \o b) + Len(d))
      BY <1>2, <1>4
    <2>2. ((a \o b) \o d)[i] =
             IF i <= Len(a) + Len(b) THEN (a \o b)[i]
             ELSE d[i - (Len(a) + Len(b))]
      BY <1>2, <1>3, <2>1
    <2>3. i - (Len(a) + Len(b)) = i - Len(a) - Len(b)
      BY <1>1, <1>4
    <2>4. i <= Len(a) + Len(b) => i \in 1..(Len(a) + Len(b))
      BY <1>1, <1>4
    <2>5. i <= Len(a) => i <= Len(a) + Len(b)
      BY <1>1, <1>4
    <2> QED BY <1>2, <2>2, <2>3, <2>4, <2>5
  <1> QED BY <1>2, <1>3, <1>4

\* What the code knows after the loop, in numbers.
LEMMA AfterLoop ==
    ASSUME AmountInv, Finished, SlicesInRange
    PROVE  /\ Len(amount) \in Nat /\ Decimals \in Nat /\ Decimals >= 2
           /\ start_ix \in Nat /\ last_non_zero_ix \in Nat
           /\ start_ix <= last_non_zero_ix /\ last_non_zero_ix < Len(amount)
           /\ \A j \in 1..Len(amount) : amount[j] \in Zero..Nine
           /\ \A j \in 1..start_ix : amount[j] = Zero
           /\ \A j \in (last_non_zero_ix + 2)..Len(amount) : amount[j] = Zero
  <1>1. /\ Len(amount) \in Nat /\ ix = Len(amount)
        /\ start_ix \in Nat /\ last_non_zero_ix \in Nat
        /\ Decimals \in Nat /\ Decimals >= 2
    BY LenProperties, DecimalsAssumption DEF AmountInv, Ranges, Finished
  <1>2. Len(amount) # 0
    BY <1>1 DEF SlicesInRange, SliceInRange, IsMoreThanOne, amt_len, point,
           FractionEnd, AmountInv, ScanInv
  <1>3. start_ix <= last_non_zero_ix /\ last_non_zero_ix < Len(amount)
    BY <1>1, <1>2 DEF AmountInv, ScanInv
  <1>4. \A j \in 1..Len(amount) : amount[j] \in Zero..Nine
    BY <1>1 DEF AmountInv, ScanInv, IsDigit
  <1> QED BY <1>1, <1>3, <1>4 DEF AmountInv, ScanInv

\* The parts of an amount of more than Decimals digits.
LEMMA ShownAboveOne ==
    ASSUME AmountInv, Finished, SlicesInRange, IsMoreThanOne
    PROVE  /\ point \in Nat /\ start_ix < point
           /\ Len(Shown) = (point - start_ix) + 1 +
                             (IF point <= last_non_zero_ix
                              THEN (last_non_zero_ix + 1) - point ELSE 1)
           /\ \A i \in 1..Len(Shown) :
                 Shown[i] = IF i <= point - start_ix THEN amount[start_ix + i]
                            ELSE IF i = (point - start_ix) + 1 THEN Dot
                            ELSE IF point <= last_non_zero_ix
                                 THEN amount[start_ix + i - 1] ELSE Zero
  <1> DEFINE dot == <<Dot>>
             zero == <<Zero>>
             whole == Slice(start_ix, point)
             fraction == IF point <= last_non_zero_ix
                         THEN Slice(point, FractionEnd) ELSE zero
  <1>1. /\ Len(amount) \in Nat /\ Decimals \in Nat /\ Decimals >= 2
        /\ start_ix \in Nat /\ last_non_zero_ix \in Nat
        /\ start_ix <= last_non_zero_ix /\ last_non_zero_ix < Len(amount)
        /\ \A j \in 1..Len(amount) : amount[j] \in Int
    <2>1. \A b \in Zero..Nine : b \in Int
      BY DEF Zero, Nine
    <2> QED BY <2>1, AfterLoop
  <1>2. /\ point = Len(amount) - Decimals /\ point \in Nat /\ start_ix < point
        /\ point < Len(amount)
    BY <1>1 DEF point, IsMoreThanOne, amt_len
  <1>3. /\ whole \in Seq(Int) /\ Len(whole) = point - start_ix
        /\ \A i \in 1..(point - start_ix) : whole[i] = amount[start_ix + i]
    <2>1. \A i \in (start_ix + 1)..point : amount[i] \in Int
      BY <1>1, <1>2
    <2>2. start_ix + 1 \in Int /\ point \in Int
      BY <1>1, <1>2
    <2>3. /\ SubSeq(amount, start_ix + 1, point) \in Seq(Int)
          /\ Len(SubSeq(amount, start_ix + 1, point)) =
                IF start_ix + 1 <= point THEN point - (start_ix + 1) + 1 ELSE 0
          /\ \A i \in 1..(point - (start_ix + 1) + 1) :
                SubSeq(amount, start_ix + 1, point)[i] = amount[start_ix + 1 + i - 1]
      BY <2>1, <2>2, SubSeqProperties
    <2> QED BY <1>1, <1>2, <2>3 DEF Slice
  <1>4. CASE point <= last_non_zero_ix
    <2>1. \A i \in (point + 1)..FractionEnd : amount[i] \in Int
      BY <1>1, <1>2 DEF FractionEnd
    <2>2. point + 1 \in Int /\ FractionEnd \in Int
      BY <1>1, <1>2 DEF FractionEnd
    <2>3. /\ SubSeq(amount, point + 1, FractionEnd) \in Seq(Int)
          /\ Len(SubSeq(amount, point + 1, FractionEnd)) =
                IF point + 1 <= FractionEnd THEN FractionEnd - (point + 1) + 1 ELSE 0
          /\ \A i \in 1..(FractionEnd - (point + 1) + 1) :
                SubSeq(amount, point + 1, FractionEnd)[i] = amount[point + 1 + i - 1]
      BY <2>1, <2>2, SubSeqProperties
    <2>4. /\ fraction \in Seq(Int) /\ Len(fraction) = (last_non_zero_ix + 1) - point
          /\ \A i \in 1..((last_non_zero_ix + 1) - point) : fraction[i] = amount[point + i]
      <3>1. fraction = SubSeq(amount, point + 1, FractionEnd)
        BY <1>4 DEF Slice
      <3>2. point + 1 <= FractionEnd /\ FractionEnd - (point + 1) + 1 = (last_non_zero_ix + 1) - point
        BY <1>1, <1>2, <1>4 DEF FractionEnd
      <3> HIDE DEF fraction
      <3>3. fraction \in Seq(Int) /\ Len(fraction) = (last_non_zero_ix + 1) - point
        BY <2>3, <3>1, <3>2
      <3>4. ASSUME NEW i \in 1..((last_non_zero_ix + 1) - point)
            PROVE  fraction[i] = amount[point + i]
        <4>1. point + 1 + i - 1 = point + i
          BY <1>2
        <4> QED BY <2>3, <3>1, <3>2, <4>1
      <3> QED BY <3>3, <3>4
    <2>5. Shown = (whole \o dot) \o fraction
      BY DEF Shown
    <2>6. dot \in Seq(Int) /\ Len(dot) = 1 /\ dot[1] = Dot
      BY DEF Dot
    <2> HIDE DEF dot, zero, whole, fraction
    <2>7. /\ Len(Shown) = Len(whole) + Len(dot) + Len(fraction)
          /\ \A i \in 1..(Len(whole) + Len(dot) + Len(fraction)) :
                Shown[i] = IF i <= Len(whole) THEN whole[i]
                           ELSE IF i <= Len(whole) + Len(dot) THEN dot[i - Len(whole)]
                           ELSE fraction[i - Len(whole) - Len(dot)]
      BY <1>3, <2>4, <2>5, <2>6, ThreeParts
    <2>8. Len(Shown) = (point - start_ix) + 1 + ((last_non_zero_ix + 1) - point)
      BY <1>3, <2>4, <2>6, <2>7
    <2>9. ASSUME NEW i \in 1..Len(Shown)
          PROVE  Shown[i] = IF i <= point - start_ix THEN amount[start_ix + i]
                            ELSE IF i = (point - start_ix) + 1 THEN Dot
                            ELSE amount[start_ix + i - 1]
      <3>1. CASE i <= point - start_ix
        <4>1. Shown[i] = whole[i]
          BY <1>3, <2>7, <2>9, <3>1
        <4> QED BY <1>1, <1>2, <1>3, <2>9, <3>1, <4>1
      <3>2. CASE i = (point - start_ix) + 1
        <4>1. ~(i <= Len(whole)) /\ i <= Len(whole) + Len(dot) /\ i - Len(whole) = 1
          BY <1>1, <1>2, <1>3, <2>6, <2>9, <3>2
        <4>2. Shown[i] = dot[i - Len(whole)]
          BY <2>7, <2>9, <4>1
        <4>3. Shown[i] = Dot
          BY <2>6, <4>1, <4>2
        <4> QED BY <1>1, <1>2, <2>9, <3>2, <4>3
      <3>3. CASE i > (point - start_ix) + 1
        <4>1. /\ i - Len(whole) - Len(dot) \in 1..((last_non_zero_ix + 1) - point)
              /\ point + (i - Len(whole) - Len(dot)) = start_ix + i - 1
          BY <1>1, <1>2, <1>3, <2>6, <2>8, <2>9, <3>3
        <4>2. ~(i <= Len(whole)) /\ ~(i <= Len(whole) + Len(dot))
          BY <1>1, <1>2, <1>3, <2>6, <2>9, <3>3
        <4>3. Shown[i] = fraction[i - Len(whole) - Len(dot)]
          BY <2>7, <2>9, <4>2
        <4>4. Shown[i] = amount[start_ix + i - 1]
          BY <2>4, <4>1, <4>3
        <4> QED BY <1>1, <1>2, <2>9, <3>3, <4>4
      <3>4. \/ i <= point - start_ix \/ i = (point - start_ix) + 1
            \/ i > (point - start_ix) + 1
        <4>1. i \in Int /\ point \in Int /\ start_ix \in Int
          BY <1>1, <1>2, <2>9
        <4> QED BY <4>1
      <3> QED BY <3>1, <3>2, <3>3, <3>4
    <2> QED BY <1>2, <1>4, <2>8, <2>9
  <1>5. CASE ~(point <= last_non_zero_ix)
    <2>1. Shown = (whole \o dot) \o zero
      BY <1>5 DEF Shown
    <2>2. /\ dot \in Seq(Int) /\ Len(dot) = 1 /\ dot[1] = Dot
          /\ zero \in Seq(Int) /\ Len(zero) = 1 /\ zero[1] = Zero
      BY DEF Dot, Zero
    <2> HIDE DEF dot, zero, whole, fraction
    <2>3. /\ Len(Shown) = Len(whole) + Len(dot) + Len(zero)
          /\ \A i \in 1..(Len(whole) + Len(dot) + Len(zero)) :
                Shown[i] = IF i <= Len(whole) THEN whole[i]
                           ELSE IF i <= Len(whole) + Len(dot) THEN dot[i - Len(whole)]
                           ELSE zero[i - Len(whole) - Len(dot)]
      BY <1>3, <2>1, <2>2, ThreeParts
    <2>4. Len(Shown) = (point - start_ix) + 1 + 1
      BY <1>3, <2>2, <2>3
    <2>5. ASSUME NEW i \in 1..Len(Shown)
          PROVE  Shown[i] = IF i <= point - start_ix THEN amount[start_ix + i]
                            ELSE IF i = (point - start_ix) + 1 THEN Dot ELSE Zero
      <3>1. CASE i <= point - start_ix
        <4>1. Shown[i] = whole[i]
          BY <1>3, <2>3, <2>5, <3>1
        <4> QED BY <1>1, <1>2, <1>3, <2>5, <3>1, <4>1
      <3>2. CASE i = (point - start_ix) + 1
        <4>1. ~(i <= Len(whole)) /\ i <= Len(whole) + Len(dot) /\ i - Len(whole) = 1
          BY <1>1, <1>2, <1>3, <2>2, <2>5, <3>2
        <4>2. Shown[i] = dot[i - Len(whole)]
          BY <2>3, <2>5, <4>1
        <4>3. Shown[i] = Dot
          BY <2>2, <4>1, <4>2
        <4> QED BY <1>1, <1>2, <2>5, <3>2, <4>3
      <3>3. CASE i = (point - start_ix) + 2
        <4>1. /\ ~(i <= Len(whole)) /\ ~(i <= Len(whole) + Len(dot))
              /\ i - Len(whole) - Len(dot) = 1
          BY <1>1, <1>2, <1>3, <2>2, <2>5, <3>3
        <4>2. Shown[i] = zero[i - Len(whole) - Len(dot)]
          BY <2>3, <2>5, <4>1
        <4>3. Shown[i] = Zero
          BY <2>2, <4>1, <4>2
        <4> QED BY <1>1, <1>2, <2>5, <3>3, <4>3
      <3>4. \/ i <= point - start_ix \/ i = (point - start_ix) + 1
            \/ i = (point - start_ix) + 2
        BY <1>1, <1>2, <2>4, <2>5
      <3> QED BY <3>1, <3>2, <3>3, <3>4
    <2> QED BY <1>2, <1>5, <2>4, <2>5
  <1> QED BY <1>4, <1>5

\* The parts of an amount of at most Decimals digits.
LEMMA ShownBelowOne ==
    ASSUME AmountInv, Finished, SlicesInRange, ~IsMoreThanOne
    PROVE  /\ amt_len = Len(amount) - start_ix /\ amt_len <= Decimals
           /\ Len(Shown) = 2 + (Decimals - amt_len) + (last_non_zero_ix + 1 - start_ix)
           /\ \A i \in 1..Len(Shown) :
                 Shown[i] = IF i = 2 THEN Dot
                            ELSE IF i <= 2 + (Decimals - amt_len) THEN Zero
                            ELSE amount[start_ix + i - 2 - (Decimals - amt_len)]
  <1> DEFINE front == <<Zero, Dot>>
             digits == Slice(start_ix, FractionEnd)
  <1>1. /\ Len(amount) \in Nat /\ Decimals \in Nat /\ Decimals >= 2
        /\ start_ix \in Nat /\ last_non_zero_ix \in Nat
        /\ start_ix <= last_non_zero_ix /\ last_non_zero_ix < Len(amount)
        /\ \A j \in 1..Len(amount) : amount[j] \in Int
    <2>1. \A b \in Zero..Nine : b \in Int
      BY DEF Zero, Nine
    <2> QED BY <2>1, AfterLoop
  <1>2. /\ amt_len = Len(amount) - start_ix /\ amt_len \in Nat
        /\ amt_len <= Decimals /\ Decimals - amt_len \in Nat
    BY <1>1 DEF IsMoreThanOne, amt_len
  <1>3. /\ digits \in Seq(Int) /\ Len(digits) = last_non_zero_ix + 1 - start_ix
        /\ \A i \in 1..(last_non_zero_ix + 1 - start_ix) : digits[i] = amount[start_ix + i]
    <2>1. \A i \in (start_ix + 1)..FractionEnd : amount[i] \in Int
      BY <1>1 DEF FractionEnd
    <2>2. start_ix + 1 \in Int /\ FractionEnd \in Int
      BY <1>1 DEF FractionEnd
    <2>3. /\ SubSeq(amount, start_ix + 1, FractionEnd) \in Seq(Int)
          /\ Len(SubSeq(amount, start_ix + 1, FractionEnd)) =
                IF start_ix + 1 <= FractionEnd
                THEN FractionEnd - (start_ix + 1) + 1 ELSE 0
          /\ \A i \in 1..(FractionEnd - (start_ix + 1) + 1) :
                SubSeq(amount, start_ix + 1, FractionEnd)[i] = amount[start_ix + 1 + i - 1]
      BY <2>1, <2>2, SubSeqProperties
    <2> QED BY <1>1, <2>3 DEF Slice, FractionEnd
  <1>4. /\ Padding \in Seq(Int) /\ Len(Padding) = Decimals - amt_len
        /\ \A i \in 1..(Decimals - amt_len) : Padding[i] = Zero
    BY <1>2 DEF Padding, Zero
  <1>5. /\ front \in Seq(Int) /\ Len(front) = 2
        /\ front[1] = Zero /\ front[2] = Dot
    BY DEF Zero, Dot
  <1>6. Shown = (front \o Padding) \o digits
    BY DEF Shown
  <1> HIDE DEF front, digits
  <1>7. /\ Len(Shown) = Len(front) + Len(Padding) + Len(digits)
        /\ \A i \in 1..(Len(front) + Len(Padding) + Len(digits)) :
              Shown[i] = IF i <= Len(front) THEN front[i]
                         ELSE IF i <= Len(front) + Len(Padding)
                         THEN Padding[i - Len(front)]
                         ELSE digits[i - Len(front) - Len(Padding)]
    BY <1>3, <1>4, <1>5, <1>6, ThreeParts
  <1>8. Len(Shown) = 2 + (Decimals - amt_len) + (last_non_zero_ix + 1 - start_ix)
    BY <1>3, <1>4, <1>5, <1>7
  <1>9. ASSUME NEW i \in 1..Len(Shown)
        PROVE  Shown[i] = IF i = 2 THEN Dot
                          ELSE IF i <= 2 + (Decimals - amt_len) THEN Zero
                          ELSE amount[start_ix + i - 2 - (Decimals - amt_len)]
    <2>1. CASE i <= 2
      <3>1. Shown[i] = front[i]
        BY <1>5, <1>7, <1>9, <2>1
      <3>2. i = 1 \/ i = 2
        BY <1>9, <2>1
      <3> QED BY <1>2, <1>5, <3>1, <3>2
    <2>2. CASE i > 2 /\ i <= 2 + (Decimals - amt_len)
      <3>1. /\ i - Len(front) \in 1..(Decimals - amt_len)
            /\ ~(i <= Len(front)) /\ i <= Len(front) + Len(Padding)
        BY <1>2, <1>4, <1>5, <1>9, <2>2
      <3>2. Shown[i] = Padding[i - Len(front)]
        BY <1>7, <1>9, <3>1
      <3>3. Shown[i] = Zero
        BY <1>4, <3>1, <3>2
      <3> QED BY <1>2, <1>9, <2>2, <3>3
    <2>3. CASE i > 2 + (Decimals - amt_len)
      <3>1. /\ i - Len(front) - Len(Padding) \in 1..(last_non_zero_ix + 1 - start_ix)
            /\ start_ix + (i - Len(front) - Len(Padding))
                  = start_ix + i - 2 - (Decimals - amt_len)
        BY <1>1, <1>2, <1>4, <1>5, <1>8, <1>9, <2>3
      <3>2. ~(i <= Len(front)) /\ ~(i <= Len(front) + Len(Padding))
        BY <1>2, <1>4, <1>5, <1>9, <2>3
      <3>3. Shown[i] = digits[i - Len(front) - Len(Padding)]
        BY <1>7, <1>9, <3>2
      <3>4. Shown[i] = amount[start_ix + i - 2 - (Decimals - amt_len)]
        BY <1>3, <3>1, <3>3
      <3> QED BY <1>2, <1>9, <2>3, <3>4
    <2> QED BY <1>2, <1>9, <2>1, <2>2, <2>3
  <1> QED BY <1>2, <1>8, <1>9

\* Digits on both sides of the point, and at most Decimals of them after it.
LEMMA ShownHasPoint ==
    ASSUME AmountInv, Finished, SlicesInRange, dec_value' = Shown,
           NEW d, d = PointPlace
    PROVE  d \in 1..Len(Shown) /\ PointAt(d)'
  <1>1. /\ Len(amount) \in Nat /\ Decimals \in Nat /\ Decimals >= 2
        /\ start_ix \in Nat /\ last_non_zero_ix \in Nat
        /\ start_ix <= last_non_zero_ix /\ last_non_zero_ix < Len(amount)
        /\ \A j \in 1..Len(amount) : amount[j] \in Zero..Nine
    BY AfterLoop
  <1>2. SUFFICES /\ d \in Int /\ d > 1 /\ Shown[d] = Dot
                 /\ Len(Shown) \in Int /\ Len(Shown) - d \in 1..Decimals
                 /\ \A i \in (1..Len(Shown)) \ {d} : Shown[i] \in Zero..Nine
    BY <1>1 DEF PointAt
  <1>3. CASE IsMoreThanOne
    <2>1. /\ point \in Nat /\ start_ix < point /\ point = Len(amount) - Decimals
          /\ d = (point - start_ix) + 1
      BY <1>3, ShownAboveOne DEF point, PointPlace
    <2>2. Len(Shown) = d + (IF point <= last_non_zero_ix
                            THEN (last_non_zero_ix + 1) - point ELSE 1)
      BY <1>3, <2>1, ShownAboveOne
    <2>3. \A i \in 1..Len(Shown) :
             Shown[i] = IF i <= point - start_ix THEN amount[start_ix + i]
                        ELSE IF i = (point - start_ix) + 1 THEN Dot
                        ELSE IF point <= last_non_zero_ix
                             THEN amount[start_ix + i - 1] ELSE Zero
      BY <1>3, ShownAboveOne
    <2>4. /\ d \in Int /\ d > 1 /\ Len(Shown) \in Int
          /\ Len(Shown) - d \in 1..Decimals /\ d \in 1..Len(Shown)
      <3>1. d \in Int /\ d > 1
        BY <1>1, <2>1
      <3>2. CASE point <= last_non_zero_ix
        <4>1. Len(Shown) = d + ((last_non_zero_ix + 1) - point)
          BY <2>2, <3>2
        <4> QED BY <1>1, <2>1, <3>1, <3>2, <4>1
      <3>3. CASE ~(point <= last_non_zero_ix)
        <4>1. Len(Shown) = d + 1
          BY <2>2, <3>3
        <4> QED BY <1>1, <3>1, <4>1
      <3> QED BY <3>2, <3>3
    <2>5. Shown[d] = Dot
      <3>1. ~(d <= point - start_ix)
        BY <1>1, <2>1, <2>4
      <3> QED BY <2>1, <2>3, <2>4, <3>1
    <2>6. ASSUME NEW i \in (1..Len(Shown)) \ {d}
          PROVE  Shown[i] \in Zero..Nine
      <3>1. CASE i <= point - start_ix
        <4>1. start_ix + i \in 1..Len(amount)
          BY <1>1, <2>1, <2>6, <3>1
        <4>2. Shown[i] = amount[start_ix + i]
          BY <2>3, <2>6, <3>1
        <4> QED BY <1>1, <4>1, <4>2
      <3>2. CASE i > d /\ point <= last_non_zero_ix
        <4>0. Len(Shown) = d + ((last_non_zero_ix + 1) - point)
          BY <2>2, <3>2
        <4>1. /\ start_ix + i - 1 \in 1..Len(amount)
              /\ ~(i <= point - start_ix) /\ i # (point - start_ix) + 1
          <5>1. i \in Int /\ i <= d + ((last_non_zero_ix + 1) - point)
            BY <2>4, <2>6, <4>0
          <5> QED BY <1>1, <2>1, <3>2, <5>1
        <4>2. Shown[i] = amount[start_ix + i - 1]
          BY <2>3, <2>6, <3>2, <4>1
        <4> QED BY <1>1, <4>1, <4>2
      <3>3. CASE i > d /\ ~(point <= last_non_zero_ix)
        <4>1. ~(i <= point - start_ix) /\ i # (point - start_ix) + 1
          BY <1>1, <2>1, <2>4, <2>6, <3>3
        <4>2. Shown[i] = Zero
          BY <2>3, <2>6, <3>3, <4>1
        <4> QED BY <4>2 DEF Zero, Nine
      <3>4. i <= point - start_ix \/ i > d
        <4>1. i \in Int /\ i # d /\ d = (point - start_ix) + 1
          BY <2>1, <2>4, <2>6
        <4>2. point \in Int /\ start_ix \in Int /\ d \in Int
          BY <1>1, <2>1, <2>4
        <4> QED BY <4>1, <4>2
      <3> QED BY <3>1, <3>2, <3>3, <3>4
    <2> QED BY <2>4, <2>5, <2>6
  <1>4. CASE ~IsMoreThanOne
    <2>1. /\ amt_len = Len(amount) - start_ix /\ amt_len <= Decimals
          /\ d = 2
      BY <1>4, ShownBelowOne DEF PointPlace
    <2>2. Len(Shown) = 2 + (Decimals - amt_len) + (last_non_zero_ix + 1 - start_ix)
      BY <1>4, ShownBelowOne
    <2>3. \A i \in 1..Len(Shown) :
             Shown[i] = IF i = 2 THEN Dot
                        ELSE IF i <= 2 + (Decimals - amt_len) THEN Zero
                        ELSE amount[start_ix + i - 2 - (Decimals - amt_len)]
      BY <1>4, ShownBelowOne
    <2>4. /\ d \in Int /\ d > 1 /\ Len(Shown) \in Int
          /\ Len(Shown) - d \in 1..Decimals /\ d \in 1..Len(Shown)
      BY <1>1, <2>1, <2>2
    <2>5. Shown[d] = Dot
      BY <2>1, <2>3, <2>4
    <2>6. ASSUME NEW i \in (1..Len(Shown)) \ {d}
          PROVE  Shown[i] \in Zero..Nine
      <3>1. CASE i <= 2 + (Decimals - amt_len)
        <4>1. Shown[i] = Zero
          BY <2>1, <2>3, <2>6, <3>1
        <4> QED BY <4>1 DEF Zero, Nine
      <3>2. CASE ~(i <= 2 + (Decimals - amt_len))
        <4>1. Shown[i] = amount[start_ix + i - 2 - (Decimals - amt_len)]
          BY <2>1, <2>3, <2>6, <3>2
        <4>2. start_ix + i - 2 - (Decimals - amt_len) \in 1..Len(amount)
          BY <1>1, <2>1, <2>2, <2>4, <2>6, <3>2
        <4> QED BY <1>1, <4>1, <4>2
      <3> QED BY <3>1, <3>2
    <2> QED BY <2>4, <2>5, <2>6
  <1> QED BY <1>3, <1>4

\* Moving the point moves no digit.
LEMMA ShownDigits ==
    ASSUME AmountInv, Finished, SlicesInRange, dec_value' = Shown,
           UNCHANGED amount, NEW k \in Nat, NEW d, d = PointPlace
    PROVE  ShownDigit(d, k)' = AmountDigit(k)'
  <1> DEFINE i == IF k < Decimals THEN d + Decimals - k ELSE d + Decimals - k - 1
             n == Len(amount)
  <1>1. /\ n \in Nat /\ Decimals \in Nat /\ Decimals >= 2
        /\ start_ix \in Nat /\ last_non_zero_ix \in Nat
        /\ start_ix <= last_non_zero_ix /\ last_non_zero_ix < n
        /\ \A j \in 1..start_ix : amount[j] = Zero
        /\ \A j \in (last_non_zero_ix + 2)..n : amount[j] = Zero
    BY AfterLoop
  <1>2. AmountDigit(k)' = IF k < n THEN amount[n - k] ELSE Zero
    BY DEF AmountDigit
  <1>3. /\ n - k <= start_ix => AmountDigit(k)' = Zero
        /\ n - k >= last_non_zero_ix + 2 => AmountDigit(k)' = Zero
    <2> HIDE DEF n
    <2>1. k < n /\ n - k <= start_ix => n - k \in 1..start_ix
      BY <1>1
    <2>2. n - k >= last_non_zero_ix + 2 =>
             k < n /\ n - k \in (last_non_zero_ix + 2)..n
      BY <1>1
    <2> QED BY <1>1, <1>2, <2>1, <2>2
  <1>4. ShownDigit(d, k)' = IF i \in 1..Len(Shown) THEN Shown[i] ELSE Zero
    BY DEF ShownDigit
  <1>5. d \in Int /\ Len(Shown) \in Int
    BY ShownHasPoint, <1>1 DEF PointAt
  <1>6. CASE IsMoreThanOne
    <2>1. /\ point \in Nat /\ start_ix < point /\ point = n - Decimals
          /\ d = (point - start_ix) + 1
      BY <1>6, ShownAboveOne DEF point, PointPlace
    <2>2. Len(Shown) = d + (IF point <= last_non_zero_ix
                            THEN (last_non_zero_ix + 1) - point ELSE 1)
      BY <1>6, <2>1, ShownAboveOne
    <2>3. \A m \in 1..Len(Shown) :
             Shown[m] = IF m <= point - start_ix THEN amount[start_ix + m]
                        ELSE IF m = (point - start_ix) + 1 THEN Dot
                        ELSE IF point <= last_non_zero_ix
                             THEN amount[start_ix + m - 1] ELSE Zero
      BY <1>6, ShownAboveOne
    <2>4. CASE k < Decimals
      <3>1. /\ i = d + Decimals - k /\ i > d /\ k < n /\ i \in Int
            /\ start_ix + i - 1 = n - k
            /\ ~(i <= point - start_ix) /\ i # (point - start_ix) + 1
        BY <1>1, <1>5, <2>1, <2>4
      <3> HIDE DEF i, n
      <3>2. CASE i \in 1..Len(Shown) /\ point <= last_non_zero_ix
        <4>1. Shown[i] = amount[start_ix + i - 1]
          BY <2>3, <3>1, <3>2
        <4> QED BY <1>2, <1>4, <3>1, <3>2, <4>1
      <3>3. CASE ~(i \in 1..Len(Shown) /\ point <= last_non_zero_ix)
        <4>1. n - k >= last_non_zero_ix + 2
          BY <1>1, <1>5, <2>1, <2>2, <2>4, <3>1, <3>3
        <4>2. i \in 1..Len(Shown) => Shown[i] = Zero
          BY <2>3, <3>1, <3>3
        <4> QED BY <1>3, <1>4, <4>1, <4>2
      <3> QED BY <3>2, <3>3
    <2>5. CASE ~(k < Decimals)
      <3>1. /\ i = d + Decimals - k - 1 /\ i \in Int
            /\ start_ix + i = n - k /\ i <= point - start_ix
        BY <1>1, <1>5, <2>1, <2>5
      <3> HIDE DEF i, n
      <3>2. CASE i >= 1
        <4>1. i \in 1..Len(Shown) /\ k < n
          BY <1>1, <1>5, <2>1, <2>2, <3>1, <3>2
        <4>2. Shown[i] = amount[start_ix + i]
          BY <2>3, <3>1, <4>1
        <4> QED BY <1>2, <1>4, <3>1, <4>1, <4>2
      <3>3. CASE ~(i >= 1)
        <4>1. n - k <= start_ix /\ i \notin 1..Len(Shown)
          BY <1>1, <1>5, <3>1, <3>3
        <4> QED BY <1>3, <1>4, <4>1
      <3> QED BY <3>2, <3>3
    <2> QED BY <2>4, <2>5
  <1>7. CASE ~IsMoreThanOne
    <2>1. /\ amt_len = n - start_ix /\ amt_len <= Decimals /\ d = 2
      BY <1>7, ShownBelowOne DEF PointPlace
    <2>2. Len(Shown) = 2 + (Decimals - amt_len) + (last_non_zero_ix + 1 - start_ix)
      BY <1>7, ShownBelowOne
    <2>3. \A m \in 1..Len(Shown) :
             Shown[m] = IF m = 2 THEN Dot
                        ELSE IF m <= 2 + (Decimals - amt_len) THEN Zero
                        ELSE amount[start_ix + m - 2 - (Decimals - amt_len)]
      BY <1>7, ShownBelowOne
    <2>4. CASE k < Decimals
      <3>1. i = 2 + Decimals - k /\ i > 2 /\ i \in Int
        BY <1>1, <1>5, <2>1, <2>4
      <3> HIDE DEF i, n
      <3>2. CASE i <= 2 + (Decimals - amt_len)
        <4>1. n - k <= start_ix
          BY <1>1, <2>1, <3>1, <3>2
        <4>2. i \in 1..Len(Shown) => Shown[i] = Zero
          BY <2>3, <3>1, <3>2
        <4> QED BY <1>3, <1>4, <4>1, <4>2
      <3>3. CASE ~(i <= 2 + (Decimals - amt_len)) /\ i \in 1..Len(Shown)
        <4>1. start_ix + i - 2 - (Decimals - amt_len) = n - k /\ k < n
          BY <1>1, <2>1, <3>1, <3>3
        <4>2. Shown[i] = amount[start_ix + i - 2 - (Decimals - amt_len)]
          BY <2>3, <3>1, <3>3
        <4> QED BY <1>2, <1>4, <3>3, <4>1, <4>2
      <3>4. CASE i \notin 1..Len(Shown)
        <4>1. n - k >= last_non_zero_ix + 2
          BY <1>1, <1>5, <2>1, <2>2, <3>1, <3>4
        <4> QED BY <1>3, <1>4, <3>4, <4>1
      <3> QED BY <3>2, <3>3, <3>4
    <2>5. CASE ~(k < Decimals)
      <3>1. i = Decimals - k + 1 /\ i <= 1 /\ i \in Int /\ n - k <= start_ix
        BY <1>1, <1>5, <2>1, <2>5
      <3> HIDE DEF i, n
      <3>2. i \in 1..Len(Shown) => Shown[i] = Zero
        <4> SUFFICES ASSUME i \in 1..Len(Shown) PROVE Shown[i] = Zero
          OBVIOUS
        <4>1. i # 2 /\ i <= 2 + (Decimals - amt_len)
          BY <1>1, <2>1, <3>1
        <4> QED BY <2>3, <4>1
      <3> QED BY <1>3, <1>4, <3>1, <3>2
    <2> QED BY <2>4, <2>5
  <1> QED BY <1>6, <1>7

\* The first and the last digit shown count, or stand next to the point.
LEMMA ShownEnds ==
    ASSUME AmountInv, Finished, SlicesInRange, NEW j \in 1..Len(amount),
           amount[j] # Zero
    PROVE  /\ PointPlace = 2 \/ Shown[1] # Zero
           /\ PointPlace = Len(Shown) - 1 \/ Shown[Len(Shown)] # Zero
  <1>1. /\ Len(amount) \in Nat /\ Decimals \in Nat /\ Decimals >= 2
        /\ start_ix \in Nat /\ last_non_zero_ix \in Nat
        /\ start_ix <= last_non_zero_ix /\ last_non_zero_ix < Len(amount)
    BY AfterLoop
  <1>2. amount[start_ix + 1] # Zero /\ amount[last_non_zero_ix + 1] # Zero
    BY <1>1 DEF AmountInv, ScanInv, Finished
  <1>3. CASE IsMoreThanOne
    <2>1. /\ point \in Nat /\ start_ix < point /\ point = Len(amount) - Decimals
          /\ PointPlace = (point - start_ix) + 1
          /\ Len(Shown) = PointPlace + (IF point <= last_non_zero_ix
                                        THEN (last_non_zero_ix + 1) - point ELSE 1)
      BY <1>1, <1>3, ShownAboveOne DEF point, PointPlace
    <2>2. \A m \in 1..Len(Shown) :
             Shown[m] = IF m <= point - start_ix THEN amount[start_ix + m]
                        ELSE IF m = (point - start_ix) + 1 THEN Dot
                        ELSE IF point <= last_non_zero_ix
                             THEN amount[start_ix + m - 1] ELSE Zero
      BY <1>3, ShownAboveOne
    <2>3. Shown[1] # Zero
      <3>1. 1 <= point - start_ix /\ Len(Shown) \in Int /\ 1 <= Len(Shown)
        <4>1. 1 <= point - start_ix /\ PointPlace \in Int /\ PointPlace >= 2
          BY <1>1, <2>1
        <4>2. CASE point <= last_non_zero_ix
          <5>1. Len(Shown) = PointPlace + ((last_non_zero_ix + 1) - point)
            BY <2>1, <4>2
          <5> QED BY <1>1, <2>1, <4>1, <4>2, <5>1
        <4>3. CASE ~(point <= last_non_zero_ix)
          <5>1. Len(Shown) = PointPlace + 1
            BY <2>1, <4>3
          <5> QED BY <4>1, <5>1
        <4> QED BY <4>2, <4>3
      <3> QED BY <1>2, <2>2, <3>1
    <2>4. CASE point <= last_non_zero_ix
      <3>1. /\ Len(Shown) \in 1..Len(Shown)
            /\ ~(Len(Shown) <= point - start_ix)
            /\ Len(Shown) # (point - start_ix) + 1
            /\ start_ix + Len(Shown) - 1 = last_non_zero_ix + 1
        BY <1>1, <2>1, <2>4
      <3>2. Shown[Len(Shown)] = amount[start_ix + Len(Shown) - 1]
        BY <2>2, <2>4, <3>1
      <3> QED BY <1>2, <2>3, <3>1, <3>2
    <2>5. CASE ~(point <= last_non_zero_ix)
      BY <1>1, <2>1, <2>3, <2>5
    <2> QED BY <2>4, <2>5
  <1>4. CASE ~IsMoreThanOne
    <2>1. /\ amt_len = Len(amount) - start_ix /\ amt_len <= Decimals
          /\ PointPlace = 2
          /\ Len(Shown) = 2 + (Decimals - amt_len) + (last_non_zero_ix + 1 - start_ix)
      BY <1>4, ShownBelowOne DEF PointPlace
    <2>2. \A m \in 1..Len(Shown) :
             Shown[m] = IF m = 2 THEN Dot
                        ELSE IF m <= 2 + (Decimals - amt_len) THEN Zero
                        ELSE amount[start_ix + m - 2 - (Decimals - amt_len)]
      BY <1>4, ShownBelowOne
    <2>3. /\ Len(Shown) \in 1..Len(Shown) /\ Len(Shown) # 2
          /\ ~(Len(Shown) <= 2 + (Decimals - amt_len))
          /\ start_ix + Len(Shown) - 2 - (Decimals - amt_len) = last_non_zero_ix + 1
      BY <1>1, <2>1
    <2>4. Shown[Len(Shown)]
            = amount[start_ix + Len(Shown) - 2 - (Decimals - amt_len)]
      BY <2>2, <2>3
    <2> QED BY <1>2, <2>1, <2>3, <2>4
  <1> QED BY <1>3, <1>4

\* The invariant of the loop, and what the text shown is worth.
ConversionInv == AmountInv /\ ValuePreserved /\ Canonical

LEMMA ConversionInductive == ConversionInv /\ [Next]_vars => ConversionInv'
  <1> SUFFICES ASSUME ConversionInv, [Next]_vars PROVE ConversionInv'
    OBVIOUS
  <1>1. AmountInv'
    BY AmountInvInductive DEF ConversionInv
  <1>2. CASE FormatOk
    <2>1. /\ AmountInv /\ Finished /\ SlicesInRange /\ dec_value' = Shown
          /\ UNCHANGED amount
      BY <1>2 DEF FormatOk, ConversionInv
    <2>0. PICK d : d = PointPlace
      OBVIOUS
    <2>2. d \in 1..Len(dec_value') /\ PointAt(d)'
      BY <2>1, <2>0, ShownHasPoint
    <2>3. Len(amount) \in Nat /\ Len(Shown) \in Nat /\ Decimals \in Nat
      <3>1. Len(Shown) \in Int /\ Len(Shown) >= 1
        BY <2>1, <2>2, AfterLoop, ShownLength
           DEF point, FractionEnd, amt_len
      <3> QED BY <2>1, <3>1, AfterLoop
    <2>4. \A k \in 0..(Len(amount') + Len(dec_value') + Decimals) :
             ShownDigit(d, k)' = AmountDigit(k)'
      <3>1. \A k \in 0..(Len(amount') + Len(dec_value') + Decimals) : k \in Nat
        OBVIOUS
      <3> QED BY <2>1, <2>0, <3>1, ShownDigits
    <2>5. ValuePreserved'
      BY <2>2, <2>4 DEF ValuePreserved
    <2>6. Canonical'
      <3> SUFFICES ASSUME NEW j \in 1..Len(amount), amount[j] # Zero
                   PROVE  Canonical'
        BY <2>1 DEF Canonical
      <3>1. /\ PointPlace = 2 \/ Shown[1] # Zero
            /\ PointPlace = Len(Shown) - 1 \/ Shown[Len(Shown)] # Zero
        BY <2>1, ShownEnds
      <3> QED BY <2>1, <2>0, <2>2, <3>1 DEF Canonical
    <2> QED BY <1>1, <2>5, <2>6 DEF ConversionInv
  <1>3. CASE pc' # "Ok"
    BY <1>1, <1>3 DEF ConversionInv, ValuePreserved, Canonical
  <1>4. CASE UNCHANGED vars
    BY <1>1, <1>4 DEF vars, ConversionInv, ValuePreserved, Canonical, PointAt,
       ShownDigit, AmountDigit
  <1>5. FormatOk \/ pc' # "Ok" \/ UNCHANGED vars
    BY DEF Next, ScanInvalid, ScanDigit, FormatPanic, FormatErr, InLoop
  <1> QED BY <1>2, <1>3, <1>4, <1>5

LEMMA ConversionInvariant == Spec => []ConversionInv
  <1>1. Init => ConversionInv
    BY InitEstablishes DEF ConversionInv, Init, ValuePreserved, Canonical
  <1> QED BY <1>1, ConversionInductive, PTL DEF Spec

-----------------------------------------------------------------------------
(* The theorems *)

\* The invariant of the loop and of what follows it.
THEOREM AmountInvariant == Spec => []AmountInv
  BY InitEstablishes, AmountInvInductive, PTL DEF Spec

\* start_ix and last_non_zero_ix delimit the digits, with zeros outside only.
THEOREM LoopKnows == Spec => []ScanInv
  <1>1. AmountInv => ScanInv
    BY DEF AmountInv
  <1> QED BY <1>1, AmountInvariant, PTL

\* Only the empty text reaches a slice that is out of range.
THEOREM SlicesSafe == Spec => []PanicOnlyOnEmpty
  <1>1. AmountInv => PanicOnlyOnEmpty
    BY DEF AmountInv
  <1> QED BY <1>1, AmountInvariant, PTL

\* Err(()) is returned for the texts that are no number or have no room, and
\* for no other.
THEOREM RefusedIff == Spec => []RefusedExactly
  <1>1. AmountInv => RefusedExactly
    BY DEF AmountInv
  <1> QED BY <1>1, AmountInvariant, PTL

\* get_amount_in_decimals divides by 10^Decimals and loses nothing: every digit
\* of the amount stands at its place in the text shown, and no other is there.
THEOREM SameValue == Spec => []ValuePreserved
  <1>1. ConversionInv => ValuePreserved
    BY DEF ConversionInv
  <1> QED BY <1>1, ConversionInvariant, PTL

\* An amount that is not zero is shown in one way only.
THEOREM OneText == Spec => []Canonical
  <1>1. ConversionInv => Canonical
    BY DEF ConversionInv
  <1> QED BY <1>1, ConversionInvariant, PTL

-----------------------------------------------------------------------------
(* Two conversions *)

\* The digit of a text of n bytes, with the point at d, that counts
\* 10^(k - Decimals).
TextDigit(text, n, d, k) ==
    LET i == IF k < Decimals THEN d + Decimals - k ELSE d + Decimals - k - 1 IN
    IF i \in 1..n THEN text[i] ELSE Zero

\* Such a text, without superfluous zeros at either end.
Plain(text, n, d) ==
    /\ n \in Nat /\ d \in 2..(n - 1) /\ n - d <= Decimals
    /\ text[d] = Dot
    /\ d = 2 \/ text[1] # Zero
    /\ d = n - 1 \/ text[n] # Zero

\* The text that goes further from the point has a digit there, which counts.
LEMMA NoneReachesFurther ==
    ASSUME NEW t, NEW n, NEW d, Plain(t, n, d),
           NEW u, NEW m, NEW e, Plain(u, m, e),
           \A k \in Nat : TextDigit(t, n, d, k) = TextDigit(u, m, e, k)
    PROVE  ~(d < e) /\ (d = e => ~(n < m))
  <1>1. /\ n \in Nat /\ d \in 2..(n - 1) /\ n - d <= Decimals
        /\ m \in Nat /\ e \in 2..(m - 1) /\ m - e <= Decimals
    BY DEF Plain
  <1>2. ~(d < e)
    <2> SUFFICES ASSUME d < e PROVE FALSE
      OBVIOUS
    <2> DEFINE k == e + Decimals - 2
    <2>1. /\ k \in Nat
          /\ TextDigit(u, m, e, k) = u[1]
          /\ TextDigit(t, n, d, k) = Zero
      BY <1>1, DecimalsAssumption DEF TextDigit
    <2>2. u[1] # Zero
      BY <1>1 DEF Plain
    <2> QED BY <2>1, <2>2
  <1>3. ASSUME d = e, n < m
        PROVE  FALSE
    <2> DEFINE k == d + Decimals - m
    <2>1. /\ k \in Nat
          /\ TextDigit(u, m, e, k) = u[m]
          /\ TextDigit(t, n, d, k) = Zero
      BY <1>1, <1>3, DecimalsAssumption DEF TextDigit
    <2>2. u[m] # Zero
      BY <1>1, <1>3 DEF Plain
    <2> QED BY <2>1, <2>2
  <1> QED BY <1>2, <1>3

LEMMA EachDigitCounts ==
    ASSUME NEW t, NEW n \in Nat, NEW d \in 1..n, n - d <= Decimals,
           NEW i \in 1..n, i # d
    PROVE  \E k \in Nat : \A u : TextDigit(u, n, d, k) = u[i]
  <1>1. CASE i < d
    <2>1. d + Decimals - 1 - i \in Nat
      BY <1>1, DecimalsAssumption
    <2>2. \A u : TextDigit(u, n, d, d + Decimals - 1 - i) = u[i]
      BY <1>1, DecimalsAssumption DEF TextDigit
    <2> QED BY <2>1, <2>2
  <1>2. CASE i > d
    <2>1. d + Decimals - i \in Nat
      BY <1>2, DecimalsAssumption
    <2>2. \A u : TextDigit(u, n, d, d + Decimals - i) = u[i]
      BY <1>2, DecimalsAssumption DEF TextDigit
    <2> QED BY <2>1, <2>2
  <1> QED BY <1>1, <1>2

\* The digits of a text determine it.
LEMMA PlainTextsDiffer ==
    ASSUME NEW t, NEW n, NEW d, Plain(t, n, d),
           NEW u, NEW m, NEW e, Plain(u, m, e),
           \A k \in Nat : TextDigit(t, n, d, k) = TextDigit(u, m, e, k)
    PROVE  n = m /\ \A i \in 1..n : t[i] = u[i]
  <1>1. d = e /\ n = m
    <2>1. ~(d < e) /\ (d = e => ~(n < m))
      BY NoneReachesFurther
    <2>2. \A k \in Nat : TextDigit(u, m, e, k) = TextDigit(t, n, d, k)
      OBVIOUS
    <2>3. ~(e < d) /\ (e = d => ~(m < n))
      BY <2>2, NoneReachesFurther
    <2> QED BY <2>1, <2>3 DEF Plain
  <1>2. n \in Nat /\ d \in 1..n /\ n - d <= Decimals
    BY DEF Plain
  <1>3. ASSUME NEW i \in 1..n
        PROVE  t[i] = u[i]
    <2>1. CASE i = d
      BY <1>1, <2>1 DEF Plain
    <2>2. CASE i # d
      <3>1. PICK k \in Nat : \A v : TextDigit(v, n, d, k) = v[i]
        BY <1>2, <2>2, EachDigitCounts
      <3>2. TextDigit(t, n, d, k) = t[i] /\ TextDigit(u, n, d, k) = u[i]
        BY <3>1, Zenon
      <3>3. TextDigit(t, n, d, k) = TextDigit(u, m, e, k)
        BY Zenon
      <3> HIDE <3>1
      <3> QED BY <1>1, <3>2, <3>3
    <2> QED BY <2>1, <2>2
  <1> QED BY <1>1, <1>3

\* The digit of an amount that counts 10^k.
DigitOf(a, k) == IF k < Len(a) THEN a[Len(a) - k] ELSE Zero

\* What the conversion promises of the text made of an amount, in one formula.
Shows(text, a) ==
    \E d \in 2..(Len(text) - 1) :
        /\ Len(text) \in Nat
        /\ text[d] = Dot
        /\ \A i \in (1..Len(text)) \ {d} : text[i] # Dot
        /\ \A k \in Nat : TextDigit(text, Len(text), d, k) = DigitOf(a, k)
        /\ (\E k \in Nat : DigitOf(a, k) # Zero) => Plain(text, Len(text), d)

\* ValuePreserved speaks of the places that matter; at all others both have
\* zeros.
LEMMA ShownEverywhere ==
    ASSUME AmountInv, NEW d \in 1..Len(dec_value), PointAt(d),
           \A k \in 0..(Len(amount) + Len(dec_value) + Decimals) :
              ShownDigit(d, k) = AmountDigit(k)
    PROVE  \A k \in Nat :
              TextDigit(dec_value, Len(dec_value), d, k) = DigitOf(amount, k)
  <1> DEFINE n == Len(amount)
             m == Len(dec_value)
  <1>1. n \in Nat /\ m \in Nat /\ d \in 1..m
    <2>1. n \in Nat
      BY DEF AmountInv, Ranges
    <2>2. m \in Int /\ m >= 1
      BY DEF PointAt
    <2> QED BY <2>1, <2>2
  <1>2. ASSUME NEW k \in Nat, k <= n + m + Decimals
        PROVE  TextDigit(dec_value, m, d, k) = DigitOf(amount, k)
    <2>1. k \in 0..(n + m + Decimals)
      BY <1>1, <1>2, DecimalsAssumption
    <2>2. ShownDigit(d, k) = AmountDigit(k)
      BY <2>1
    <2> QED BY <2>2 DEF TextDigit, ShownDigit, AmountDigit, DigitOf
  <1>3. ASSUME NEW k \in Nat, k > n + m + Decimals
        PROVE  TextDigit(dec_value, m, d, k) = DigitOf(amount, k)
    <2> HIDE DEF n, m
    <2>1. ~(k < n) /\ ~(k < Decimals) /\ ~(d + Decimals - k - 1 \in 1..m)
      BY <1>1, <1>3, DecimalsAssumption
    <2> QED BY <2>1 DEF TextDigit, DigitOf, n
  <1> QED BY <1>1, <1>2, <1>3, DecimalsAssumption

LEMMA ConvertedShows == ConversionInv /\ pc = "Ok" => Shows(dec_value, amount)
  <1> SUFFICES ASSUME ConversionInv, pc = "Ok" PROVE Shows(dec_value, amount)
    OBVIOUS
  <1>1. PICK d \in 1..Len(dec_value) :
              /\ PointAt(d)
              /\ \A k \in 0..(Len(amount) + Len(dec_value) + Decimals) :
                    ShownDigit(d, k) = AmountDigit(k)
    BY DEF ConversionInv, ValuePreserved
  <1>2. \A k \in Nat :
           TextDigit(dec_value, Len(dec_value), d, k) = DigitOf(amount, k)
    BY <1>1, ShownEverywhere DEF ConversionInv
  <1>3. /\ Len(dec_value) \in Nat /\ d \in 2..(Len(dec_value) - 1)
        /\ Len(dec_value) - d <= Decimals /\ dec_value[d] = Dot
        /\ \A i \in (1..Len(dec_value)) \ {d} : dec_value[i] # Dot
    <2>1. PointAt(d)
      BY <1>1
    <2> DEFINE m == Len(dec_value)
    <2>2. /\ d \in 1..m /\ d > 1 /\ m - d \in 1..Decimals /\ dec_value[d] = Dot
          /\ \A i \in (1..m) \ {d} : dec_value[i] \in Zero..Nine
      BY <2>1, Zenon DEF PointAt
    <2>3. ASSUME NEW i \in (1..m) \ {d} PROVE dec_value[i] # Dot
      <3>1. dec_value[i] \in Zero..Nine
        BY <2>2, Zenon
      <3> HIDE DEF m
      <3> QED BY <3>1 DEF Dot, Zero, Nine
    <2>4. m \in Int /\ m >= 1
      BY <2>1 DEF PointAt
    <2>5. d \in 1..m /\ d > 1 /\ m - d \in 1..Decimals
      BY <2>2, Zenon
    <2>6. m \in Nat /\ d \in 2..(m - 1) /\ m - d <= Decimals
      <3> HIDE DEF m
      <3> QED BY <2>4, <2>5, DecimalsAssumption
    <2> QED BY <2>2, <2>3, <2>6
  <1>4. ASSUME NEW k \in Nat, DigitOf(amount, k) # Zero
        PROVE  Plain(dec_value, Len(dec_value), d)
    <2>1. Len(amount) \in Nat
      BY DEF ConversionInv, AmountInv, Ranges
    <2>2. Len(amount) - k \in 1..Len(amount) /\ amount[Len(amount) - k] # Zero
      BY <1>4, <2>1 DEF DigitOf
    <2>3. PICK e \in 1..Len(dec_value) :
                /\ PointAt(e)
                /\ e = 2 \/ dec_value[1] # Zero
                /\ e = Len(dec_value) - 1 \/ dec_value[Len(dec_value)] # Zero
      BY <2>2 DEF ConversionInv, Canonical
    <2>4. d = e
      BY <1>3, <2>3 DEF PointAt
    <2> QED BY <1>3, <2>3, <2>4 DEF Plain
  <1> QED BY <1>2, <1>3, <1>4 DEF Shows

\* Whatever is converted, the text left is one that Shows the amount.
THEOREM EveryTextShows == Spec => [](pc = "Ok" => Shows(dec_value, amount))
  BY ConvertedShows, ConversionInvariant, PTL

\* And that ties texts and amounts together both ways.  Amounts that differ in a
\* digit never look alike on the screen; and one number is one text, whatever
\* zeros were written in front of it, unless it is zero.
THEOREM SameTextIffSameAmount ==
    ASSUME NEW a, NEW text, Shows(text, a),
           NEW b, NEW other, Shows(other, b)
    PROVE  /\ text = other => \A k \in Nat : DigitOf(a, k) = DigitOf(b, k)
           /\ /\ \A k \in Nat : DigitOf(a, k) = DigitOf(b, k)
              /\ \E k \in Nat : DigitOf(a, k) # Zero
              => /\ Len(text) = Len(other)
                 /\ \A i \in 1..Len(text) : text[i] = other[i]
  <1>1. PICK d \in 2..(Len(text) - 1) :
           /\ Len(text) \in Nat
           /\ text[d] = Dot
           /\ \A i \in (1..Len(text)) \ {d} : text[i] # Dot
           /\ \A k \in Nat : TextDigit(text, Len(text), d, k) = DigitOf(a, k)
           /\ (\E k \in Nat : DigitOf(a, k) # Zero) => Plain(text, Len(text), d)
    BY DEF Shows
  <1>2. PICK e \in 2..(Len(other) - 1) :
           /\ Len(other) \in Nat
           /\ other[e] = Dot
           /\ \A i \in (1..Len(other)) \ {e} : other[i] # Dot
           /\ \A k \in Nat : TextDigit(other, Len(other), e, k) = DigitOf(b, k)
           /\ (\E k \in Nat : DigitOf(b, k) # Zero) => Plain(other, Len(other), e)
    BY DEF Shows
  <1>3. ASSUME text = other
        PROVE  \A k \in Nat : DigitOf(a, k) = DigitOf(b, k)
    <2>1. d = e
      BY <1>1, <1>2, <1>3
    <2> QED BY <1>1, <1>2, <1>3, <2>1
  <1>4. ASSUME \A k \in Nat : DigitOf(a, k) = DigitOf(b, k),
               NEW k \in Nat, DigitOf(a, k) # Zero
        PROVE  /\ Len(text) = Len(other)
               /\ \A i \in 1..Len(text) : text[i] = other[i]
    <2>1. Plain(text, Len(text), d) /\ Plain(other, Len(other), e)
      BY <1>1, <1>2, <1>4
    <2>2. \A j \in Nat : TextDigit(text, Len(text), d, j)
                            = TextDigit(other, Len(other), e, j)
      BY <1>1, <1>2, <1>4
    <2> HIDE <1>1, <1>2, <1>4
    <2> QED BY <2>1, <2>2, PlainTextsDiffer
  <1> QED BY <1>3, <1>4
=============================================================================
