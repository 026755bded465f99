---------------------------- MODULE Transactions ----------------------------
(***************************************************************************)
(* What txn_messages_parser of rust-app/src/implementation.rs makes of a   *)
(* transaction.  A transaction is a sequence of pieces in the order they   *)
(* come in the stream: the messages, the fee, fields the parser drops, and *)
(* bytes it cannot take.  For each piece: does the pass without prompts    *)
(* accept it, and which prompts does the pass with prompts show.           *)
(*                                                                         *)
(* A text field is "text" (valid UTF-8), "other" (not), or "absent".       *)
(***************************************************************************)
EXTENDS Naturals, Sequences

Field == {"text", "other", "absent"}

\* The amount of a coin: a number within the limits of AmountDecimals, one
\* that is refused there ("bad"), the empty text, or no such field.
Coin == [denom : {"nhash", "other", "absent"},
         amount : {"number", "bad", "empty", "absent"}]

NoCoin == [denom |-> "absent", amount |-> "absent"]

\* The messages of MessagesInterp, the fee of AuthInfo, an Any of another type,
\* a field with DropInterp, and a field the schema or a Buffer cannot take.
\* first and second are the fields shown before the coin, which hasCoin says
\* is present.
Kinds == {"Send", "Delegate", "Undelegate", "Deposit", "Fee",
          "Unknown", "Dropped", "Malformed"}

Piece == [kind : Kinds, first : Field, second : Field,
          hasCoin : BOOLEAN, coin : Coin]

Messages == {"Send", "Delegate", "Undelegate", "Deposit"}

-----------------------------------------------------------------------------
(* txn_messages_parser::<false> *)

\* The dry pass shows nothing, so only the form of the bytes can fail it, and
\* the Preaction that rejects the type URL of an unknown message.
DryAccepts(piece) == piece.kind \notin {"Unknown", "Malformed"}

-----------------------------------------------------------------------------
(* txn_messages_parser::<true> *)

\* A prompt: its title (without spaces), whether a None from it rejects the
\* transaction, and what drawing it does: "ok", None without a user's answer, or
\* a panic.
Titles ==
    {"Transfer", "From", "To", "Amount", "Fee", "Delegate", "Undelegate",
     "DelegatorAddress", "ValidatorAddress", "ProposalID", "DepositorAddress"}

PromptKind ==
    [title : Titles, checked : BOOLEAN, draws : {"ok", "none", "panic"}]

Prompt(title, checked, draws) ==
    [title |-> title, checked |-> checked, draws |-> draws]

\* show_amount_in_decimals with only_hash, the ? on absent fields before it,
\* and what get_amount_in_decimals makes of the text.
AmountDraws(coin) ==
    IF coin.denom # "nhash" \/ coin.amount = "absent" THEN "none"
    ELSE [number |-> "ok", bad |-> "none", empty |-> "panic"][coin.amount]

AmountPrompt(title, piece) ==
    Prompt(title, TRUE, IF piece.hasCoin THEN AmountDraws(piece.coin) ELSE "none")

TextDraws(field) == IF field = "text" THEN "ok" ELSE "none"

\* show_string: the parser of a field runs when the field is there.
ShowString(title, field) ==
    IF field = "absent" THEN <<>>
    ELSE <<Prompt(title, TRUE, TextDraws(field))>>

\* show_coin, likewise.
ShowCoin(piece) == IF piece.hasCoin THEN <<AmountPrompt("Amount", piece)>> ELSE <<>>

\* "Transfer", "From" and "To" are shown with their results left unused.
SendPrompts(piece) ==
    <<Prompt("Transfer", FALSE, "ok"),
      Prompt("From", FALSE, TextDraws(piece.first)),
      Prompt("To", FALSE, TextDraws(piece.second)),
      AmountPrompt("Amount", piece)>>

StakePrompts(piece) ==
    <<Prompt(piece.kind, TRUE, "ok")>>
      \o ShowString("DelegatorAddress", piece.first)
      \o ShowString("ValidatorAddress", piece.second)
      \o ShowCoin(piece)

\* The proposal id is a number and can always be drawn.
DepositPrompts(piece) ==
    (IF piece.first = "absent" THEN <<>>
     ELSE <<Prompt("ProposalID", TRUE, "ok")>>)
      \o ShowString("DepositorAddress", piece.second)
      \o ShowCoin(piece)

FeePrompts(piece) == <<AmountPrompt("Fee", piece)>>

Prompts(piece) ==
    [ Send       |-> SendPrompts(piece),
      Delegate   |-> StakePrompts(piece),
      Undelegate |-> StakePrompts(piece),
      Deposit    |-> DepositPrompts(piece),
      Fee        |-> FeePrompts(piece),
      Unknown    |-> <<>>,
      Dropped    |-> <<>>,
      Malformed  |-> <<>> ][piece.kind]

\* Of the first n prompts of a piece, those that reach the screen.
DrawnOf(piece, n) ==
    {Prompts(piece)[k] : k \in {j \in 1..n : Prompts(piece)[j].draws = "ok"}}

\* All that reach the screen, and the test every checked prompt has to pass for
\* the transaction to be signed.
Drawn(piece) == DrawnOf(piece, Len(Prompts(piece)))

Reviewable(piece) ==
    /\ DryAccepts(piece)
    /\ \A k \in 1..Len(Prompts(piece)) :
          Prompts(piece)[k].checked => Prompts(piece)[k].draws = "ok"
=============================================================================
