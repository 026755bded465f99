----------------------------- MODULE MCSignApdu -----------------------------
(***************************************************************************)
(* Instances of SignApdu for TLC: transactions of up to two pieces, with a *)
(* piece for each way to be recognized, refused, shown in part or fatal;   *)
(* lengths below, at and beyond the end of the chain.                      *)
(***************************************************************************)
EXTENDS SignApdu

InHash(amount) == [denom |-> "nhash", amount |-> amount]

Msg(kind, first, second, coin) ==
    [kind |-> kind, first |-> first, second |-> second,
     hasCoin |-> coin # NoCoin, coin |-> coin]

Of(n) == [kind |-> "Length", n |-> n]

GoodSend == Msg("Send", "text", "text", InHash("number"))
SendUnnamed == Msg("Send", "absent", "other", InHash("number"))
SendOtherCoin == Msg("Send", "text", "text", [denom |-> "other", amount |-> "number"])
GoodDelegate == Msg("Delegate", "text", "text", InHash("number"))
DelegateBadName == Msg("Delegate", "other", "text", InHash("number"))
UndelegateNothing == Msg("Undelegate", "text", "absent", NoCoin)
GoodDeposit == Msg("Deposit", "text", "text", InHash("number"))
GoodFee == Msg("Fee", "absent", "absent", InHash("number"))
FeeEmpty == Msg("Fee", "absent", "absent", InHash("empty"))
FeeBad == Msg("Fee", "absent", "absent", InHash("bad"))
Unknown == Msg("Unknown", "text", "absent", NoCoin)
Dropped == Msg("Dropped", "absent", "absent", NoCoin)
Malformed == Msg("Malformed", "absent", "absent", NoCoin)

MCPieces ==
    {GoodSend, SendUnnamed, SendOtherCoin, GoodDelegate, DelegateBadName,
     UndelegateNothing, GoodDeposit, GoodFee, FeeEmpty, FeeBad, Unknown,
     Dropped, Malformed}

\* Every transaction of at most two pieces, and lengths below and beyond the
\* end of the chain.
AllTransactions ==
    {<<Of(0)>>, <<Of(0), GoodSend>>, <<Of(2), GoodSend>>,
     <<Of(1), GoodSend, Unknown>>, <<Of(2), GoodFee>>}
      \cup {<<Of(1), p>> : p \in MCPieces}
      \cup {<<Of(2), p, q>> : p, q \in MCPieces}

\* One transaction for each way to end.
SomeTransactions ==
    { <<Of(2), GoodSend, GoodFee>>,
      <<Of(2), SendUnnamed, Dropped>>,
      <<Of(2), GoodFee, SendOtherCoin>>,
      <<Of(2), GoodDelegate, UndelegateNothing>>,
      <<Of(1), DelegateBadName>>,
      <<Of(2), GoodDeposit, FeeEmpty>>,
      <<Of(2), Dropped, FeeBad>>,
      <<Of(2), GoodFee, Unknown>>,
      <<Of(1), Malformed>>,
      <<Of(2), GoodSend>>,
      <<Of(1), GoodSend, Unknown>>,
      <<Of(0)>> }

MCPaths == { <<[kind |-> "Path", underPrefix |-> u]>> : u \in BOOLEAN }

\* Every block of every chain.
ChainBlocks(chain) ==
    {[data |-> chain[k], next |-> SubSeq(chain, k + 1, Len(chain))] : k \in 1..Len(chain)}

AllBlocks == UNION {ChainBlocks(c) : c \in AllTransactions \cup MCPaths}
SomeBlocks == UNION {ChainBlocks(c) : c \in SomeTransactions \cup MCPaths}
=============================================================================
