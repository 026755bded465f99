-------------------------------- MODULE MCApp --------------------------------
(***************************************************************************)
(* Instances of App for TLC: a header for each instruction and one that is *)
(* refused; transactions that are reviewed, signed blindly, refused, fatal *)
(* or too short; paths within and outside the prefix.                      *)
(***************************************************************************)
EXTENDS App, SequencesExt

MCHeaders ==
    {[cla |-> 0, ins |-> InsCode[i], p1 |-> 0, p2 |-> 0] : i \in Ins}
      \cup {[cla |-> 128, ins |-> 3, p1 |-> 0, p2 |-> 0]}

PieceOf(kind, amount) ==
    [kind |-> kind, first |-> "absent", second |-> "absent",
     hasCoin |-> amount # "absent",
     coin |-> IF amount = "absent" THEN [denom |-> "absent", amount |-> "absent"]
              ELSE [denom |-> "nhash", amount |-> amount]]

Fee == PieceOf("Fee", "number")
Fatal == PieceOf("Fee", "empty")
Unknown == PieceOf("Unknown", "absent")

Of(n) == [kind |-> "Length", n |-> n]

MCTransactions ==
    { <<Of(1), Fee>>, <<Of(1), Fatal>>, <<Of(1), Unknown>>, <<Of(2), Fee>> }

MCPaths2 == { <<[kind |-> "Path", underPrefix |-> u]>> : u \in BOOLEAN }

\* Base three and steps of one byte; the prefix is <<1, 2, 0>>.
MCPrefix == <<1, 2, 0>>

MCParams == { << <<2, 1>>, <<2>> >>, << <<2, 1, 1>> >>, << <<1>> >> }

Chain(c) ==
    {[data |-> c[k], next |-> SubSeq(c, k + 1, Len(c))] : k \in 1..Len(c)}

MCSignBlocks == UNION {Chain(c) : c \in MCTransactions \cup MCPaths2}
MCAddressBlocks == UNION {Chain(c) : c \in MCParams}
=============================================================================
