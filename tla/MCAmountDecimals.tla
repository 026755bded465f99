-------------------------- MODULE MCAmountDecimals --------------------------
(***************************************************************************)
(* An instance of AmountDecimals for TLC at the real sizes: every text of  *)
(* up to twelve zeros and ones, every short one over three digits and the  *)
(* two bytes next to the digits, long ones at the limit of the buffer, and *)
(* the amounts of the comment and of the tests.                            *)
(***************************************************************************)
EXTENDS AmountDecimals, SequencesExt

Texts(n, bytes) == UNION {[1..k -> bytes] : k \in 0..n}

\* Of this length, with two places that are not zero.
Sparse(n) ==
    {[i \in 1..n |-> IF i \in {p, q} THEN Nine ELSE Zero] :
        p, q \in {1, 2, n - 10, n - 9, n - 8, n - 1, n}}

\* Digits as numbers to text.
Text(digits) == [i \in 1..Len(digits) |-> Zero + digits[i]]
Zeros(n) == [i \in 1..n |-> 0]

\* implementation.rs:167-173 (left), then amounts of signing-tests.ts, then the
\* longest ones: <<digits, digits before the point, digits after it>>.
Examples ==
    { << <<1>>, <<0>>, Zeros(8) \o <<1>> >>,
      << <<1, 0>>, <<0>>, Zeros(7) \o <<1>> >>,
      << <<1, 1>>, <<0>>, Zeros(7) \o <<1, 1>> >>,
      << <<1>> \o Zeros(9), <<1>>, <<0>> >>,
      << <<1>> \o Zeros(10), <<1, 0>>, <<0>> >>,
      << <<1, 0, 0, 1>> \o Zeros(7), <<1, 0>>, <<0, 1>> >>,
      << <<0, 1, 0, 0, 1>> \o Zeros(7), <<1, 0>>, <<0, 1>> >>,
      << <<1, 6>> \o Zeros(8), <<1>>, <<6>> >>,
      << <<1, 7, 0, 2, 8, 4, 5, 2, 1, 0>>, <<1>>, <<7, 0, 2, 8, 4, 5, 2, 1>> >>,
      << <<1>> \o Zeros(13), <<1, 0, 0, 0, 0>>, <<0>> >>,
      << <<1, 6, 6, 7, 7, 7, 0, 3, 5>>, <<0>>, <<1, 6, 6, 7, 7, 7, 0, 3, 5>> >>,
      << <<1>> \o Zeros(63), <<1>> \o Zeros(54), <<0>> >>,
      << Zeros(63) \o <<7>>, <<0>>, Zeros(8) \o <<7>> >> }

MCAmounts ==
    Texts(12, {Zero, Zero + 1})
      \cup Texts(4, {Zero - 1, Zero, Zero + 1, Nine, Nine + 1})
      \cup Sparse(63) \cup Sparse(64)
      \cup {Text(e[1]) : e \in Examples}

\* implementation.rs:165-173 and the prompts the tests expect: each text of the
\* list is converted to the text beside it.
ExamplesConverted ==
    \A e \in Examples :
        amount = Text(e[1]) /\ pc # "scan" =>
            pc = "Ok" /\ dec_value = Text(e[2]) \o <<Dot>> \o Text(e[3])
=============================================================================
