--------------------------- MODULE SignApduProofs ---------------------------
(***************************************************************************)
(* What SignApdu promises for every set of transactions, paths and blocks: *)
(* SignInv is inductive, what was shown is what is signed, a blind         *)
(* signature has every consent, every request runs out of steps, and the   *)
(* handler implements SigningPromise.                                      *)
(***************************************************************************)
EXTENDS SignApdu, SequenceTheorems, TLAPS

Data == Length \cup PathData \cup Piece

\* The prompts of a piece are a sequence of prompts.
LEMMA PromptsType ==
    ASSUME NEW p \in Piece
    PROVE  Prompts(p) \in Seq(PromptKind)
  <1>0. /\ p.first \in Field /\ p.second \in Field /\ p.coin \in Coin
        /\ p.kind \in Kinds
    BY DEF Piece
  <1> USE DEF Titles
  <1>1. \A t \in Titles, d \in {"ok", "none", "panic"} :
           Prompt(t, TRUE, d) \in PromptKind /\ Prompt(t, FALSE, d) \in PromptKind
    BY DEF Prompt, PromptKind
  <1>2. \A f \in Field : TextDraws(f) \in {"ok", "none", "panic"}
    BY DEF TextDraws
  <1>3. AmountDraws(p.coin) \in {"ok", "none", "panic"}
    BY <1>0 DEF AmountDraws, Coin
  <1>4. /\ <<>> \in Seq(PromptKind)
        /\ \A x \in PromptKind : <<x>> \in Seq(PromptKind)
    OBVIOUS
  <1>5. \A t \in Titles : AmountPrompt(t, p) \in PromptKind
    BY <1>1, <1>3 DEF AmountPrompt
  <1>6. ASSUME NEW t \in Titles, NEW f \in Field
        PROVE  ShowString(t, f) \in Seq(PromptKind)
    <2>1. Prompt(t, TRUE, TextDraws(f)) \in PromptKind
      BY <1>1, <1>2
    <2>2. CASE f = "absent"
      BY <2>2, <1>4 DEF ShowString
    <2>3. CASE f # "absent"
      BY <2>1, <2>3, <1>4 DEF ShowString
    <2> QED BY <2>2, <2>3
  <1>7. ShowCoin(p) \in Seq(PromptKind)
    BY <1>5, <1>4 DEF ShowCoin
  <1>8. SendPrompts(p) \in Seq(PromptKind)
    <2>1. /\ Prompt("Transfer", FALSE, "ok") \in PromptKind
          /\ Prompt("From", FALSE, TextDraws(p.first)) \in PromptKind
          /\ Prompt("To", FALSE, TextDraws(p.second)) \in PromptKind
      BY <1>0, <1>1, <1>2
    <2>2. AmountPrompt("Amount", p) \in PromptKind
      BY <1>5
    <2> HIDE DEF Titles
    <2>3. \A a, b, c, d \in PromptKind : <<a, b, c, d>> \in Seq(PromptKind)
      OBVIOUS
    <2> QED BY <2>1, <2>2, <2>3 DEF SendPrompts
  <1>9. ASSUME p.kind \in {"Delegate", "Undelegate"}
        PROVE  StakePrompts(p) \in Seq(PromptKind)
    <2>1. p.kind \in Titles
      BY <1>9
    <2>2. <<Prompt(p.kind, TRUE, "ok")>> \in Seq(PromptKind)
      BY <2>1, <1>1, <1>4
    <2>3. /\ ShowString("DelegatorAddress", p.first) \in Seq(PromptKind)
          /\ ShowString("ValidatorAddress", p.second) \in Seq(PromptKind)
      BY <1>0, <1>6
    <2> QED BY <2>2, <2>3, <1>7, ConcatProperties DEF StakePrompts
  <1>10. DepositPrompts(p) \in Seq(PromptKind)
    <2>1. <<Prompt("ProposalID", TRUE, "ok")>> \in Seq(PromptKind)
      BY <1>1, <1>4
    <2>2. ShowString("DepositorAddress", p.second) \in Seq(PromptKind)
      BY <1>0, <1>6
    <2>3. CASE p.first = "absent"
      BY <2>2, <2>3, <1>4, <1>7, ConcatProperties DEF DepositPrompts
    <2>4. CASE p.first # "absent"
      BY <2>1, <2>2, <2>4, <1>7, ConcatProperties DEF DepositPrompts
    <2> QED BY <2>3, <2>4
  <1>11. FeePrompts(p) \in Seq(PromptKind)
    BY <1>4, <1>5 DEF FeePrompts
  <1> HIDE DEF Titles
  <1>12. CASE p.kind = "Send"
    BY <1>8, <1>12 DEF Prompts
  <1>13. CASE p.kind \in {"Delegate", "Undelegate"}
    BY <1>9, <1>13 DEF Prompts
  <1>14. CASE p.kind = "Deposit"
    BY <1>10, <1>14 DEF Prompts
  <1>15. CASE p.kind = "Fee"
    BY <1>11, <1>15 DEF Prompts
  <1>16. CASE p.kind \in {"Unknown", "Dropped", "Malformed"}
    <2>1. Prompts(p) = <<>>
      BY <1>16 DEF Prompts
    <2> QED BY <2>1, <1>4
  <1> QED BY <1>0, <1>12, <1>13, <1>14, <1>15, <1>16 DEF Kinds

\* The block that is due is the first datum of the cursor and the rest of it.
LEMMA GenuineBlock ==
    ASSUME NEW block \in Blocks, TypeOK, Genuine(block)
    PROVE  /\ cursor # <<>> /\ Len(cursor) > 0
           /\ block.data = cursor[1] /\ block.data = Head(cursor)
           /\ block.next \in Seq(Data)
           /\ block.next = Tail(cursor)
           /\ Len(block.next) = Len(cursor) - 1
           /\ \A k \in 1..Len(block.next) : block.next[k] = cursor[k + 1]
  <1>1. block.data \in Data /\ block.next \in Seq(Data)
    BY BlocksAssumption DEF Data
  <1>2. cursor = <<block.data>> \o block.next
    BY DEF Genuine, HashOf
  <1>3. /\ Len(cursor) = 1 + Len(block.next)
        /\ cursor[1] = block.data
        /\ \A k \in 1..Len(block.next) : cursor[k + 1] = block.next[k]
    BY <1>1, <1>2
  <1>4. cursor \in Seq(Data)
    BY DEF TypeOK, DataType, Data
  <1>5. cursor # <<>>
    BY <1>1, <1>3, <1>4
  <1>6. block.next = Tail(cursor)
    BY <1>1, <1>3, <1>4
  <1> QED BY <1>1, <1>3, <1>4, <1>5, <1>6

\* What a request is made of.
LEMMA RequestParts ==
    ASSUME NEW r \in Request
    PROVE  /\ r # NoRequest
           /\ r.settings \in {0, 1}
           /\ r.tx \in Seq(Data) /\ Len(r.tx) > 0
           /\ Head(r.tx) = r.tx[1] /\ Head(r.tx) \in Length /\ Head(r.tx).n \in Nat
           /\ Tail(r.tx) \in Seq(Piece)
           /\ r.path \in Seq(Data) /\ Len(r.path) > 0
           /\ Head(r.path) = r.path[1] /\ Head(r.path) \in PathData
  <1>1. r.tx \in Transactions1 /\ r.path \in Paths2 /\ r.settings \in {0, 1}
    BY DEF Request
  <1>2. /\ r.tx \in Seq(Length \cup Piece) /\ Len(r.tx) > 0 /\ r.tx[1] \in Length
        /\ Tail(r.tx) \in Seq(Piece)
        /\ r.path \in Seq(PathData) /\ Len(r.path) > 0
    BY <1>1, Transactions1Assumption, Paths2Assumption
  <1>3. Head(r.tx) = r.tx[1] /\ Head(r.path) = r.path[1]
    BY <1>2
  <1>4. r.path[1] \in PathData /\ r.tx[1].n \in Nat
    BY <1>2 DEF Length
  <1>5. r.tx \in Seq(Data) /\ r.path \in Seq(Data)
    BY <1>2 DEF Data
  <1>6. r # NoRequest
    BY NoRequestAssumption
  <1> QED BY <1>1, <1>2, <1>3, <1>4, <1>5, <1>6

LEMMA NoneTyped ==
    /\ NoPath \in PathData /\ NoPiece \in Piece
    /\ <<>> \in Seq(Length \cup PathData \cup Piece)
    /\ <<>> \in Seq(Piece)
    /\ <<>> \in Seq(SUBSET PromptKind)
  <1>1. NoPath \in PathData /\ NoPiece \in Piece
    BY DEF NoPath, NoPiece, NoCoin, PathData, Piece, Kinds, Field, Coin
  <1> QED BY <1>1, EmptySeq

-----------------------------------------------------------------------------
(* The invariant at the start and at the end of a request *)

LEMMA InitEstablishes == Init => SignInv
  <1> SUFFICES ASSUME Init PROVE SignInv
    OBVIOUS
  <1> USE DEF Init
  <1>1. ControlType
    <2>1. starts \in 0..MaxStarts
      BY MaxStartsAssumption
    <2> QED BY <2>1 DEF ControlType, Idle, Busy, Reading, Asking
  <1>6. DataType
    BY NoneTyped DEF DataType
  <1>2. ChainInv
    BY DEF ChainInv, AfterLength, AfterPath, Busy, Reading, Asking
  <1>3. PassInv
    BY DEF PassInv, InPass, AfterHash
  <1>4. ShownInv
    BY DEF ShownInv, AfterHash
  <1>5. ConsentInv
    BY DEF ConsentInv, AfterHash, Busy, Reading, Asking
  <1> QED BY <1>1, <1>2, <1>3, <1>4, <1>5, <1>6 DEF SignInv, TypeOK

\* A request that is dropped leaves nothing behind.
LEMMA DropKeeps ==
    ASSUME TypeOK, NEW how \in {"idle", "panicked"}, Drop(how)
    PROVE  SignInv'
  <1> USE DEF Drop, Fresh
  <1>1. ControlType'
    BY DEF TypeOK, ControlType, Idle, Busy, Reading, Asking
  <1>6. DataType'
    BY NoneTyped DEF DataType
  <1>2. ChainInv'
    BY DEF ChainInv, AfterLength, AfterPath, Busy, Reading, Asking
  <1>3. PassInv'
    BY DEF PassInv, InPass, AfterHash
  <1>4. ShownInv'
    BY DEF ShownInv, AfterHash
  <1>5. ConsentInv'
    BY DEF ConsentInv, AfterHash, Busy, Reading, Asking
  <1> QED BY <1>1, <1>2, <1>3, <1>4, <1>5, <1>6 DEF SignInv, TypeOK

-----------------------------------------------------------------------------
(* Passes *)

\* Where a request is, its parts are known.
LEMMA RequestGiven ==
    ASSUME TypeOK, pc \notin {"idle", "panicked"}
    PROVE  request \in Request
  BY DEF TypeOK, ControlType

\* A pass begins with all of input[0] ahead.
LEMMA PassBegins ==
    ASSUME DataType, NEW pass, BeginPass(pass), UNCHANGED <<length, input0>>
    PROVE  /\ Done' = 0 /\ left' \in Nat /\ left' <= length'
           /\ cursor' \in Seq(Length \cup PathData \cup Piece)
           /\ Done' + Len(cursor') = Len(input0')
           /\ \A k \in 1..Len(cursor') : cursor'[k] = input0'[Done' + k]
  <1>1. cursor' = input0 /\ left' = length /\ length' = length /\ input0' = input0
    BY DEF BeginPass
  <1>2. input0 \in Seq(Length \cup PathData \cup Piece) /\ Len(input0) \in Nat
    BY DEF DataType
  <1>3. Done' = 0
    BY <1>1 DEF DataType, Done
  <1> QED BY <1>1, <1>2, <1>3 DEF DataType

\* The block that is due is the next piece of input[0].
LEMMA PassAdvances ==
    ASSUME SignInv, NEW block \in Blocks, Genuine(block),
           pc \in {"dry", "prompt", "hash"},
           cursor' = block.next, left' = left - 1, UNCHANGED <<length, input0>>
    PROVE  /\ Done' = Done + 1 /\ Done \in Nat /\ Done' <= length /\ Done' <= Len(input0)
           /\ left' \in Nat /\ left' <= length'
           /\ cursor' \in Seq(Length \cup PathData \cup Piece)
           /\ block.data = input0[Done'] /\ input0[Done'] \in Piece
           /\ Done' + Len(cursor') = Len(input0')
           /\ \A k \in 1..Len(cursor') : cursor'[k] = input0'[Done' + k]
  <1>1. /\ left \in Nat /\ left > 0 /\ length \in Nat /\ left <= length
    BY DEF SignInv, TypeOK, DataType, Genuine, Waiting, NeedsBlock, PassInv, InPass
  <1>2. Done' = Done + 1 /\ Done \in Nat /\ Done' <= length
    BY <1>1 DEF Done
  <1>3. /\ Len(cursor) > 0 /\ block.data = cursor[1] /\ block.next \in Seq(Data)
        /\ Len(block.next) = Len(cursor) - 1
        /\ \A k \in 1..Len(block.next) : block.next[k] = cursor[k + 1]
    BY GenuineBlock DEF SignInv
  <1>4. /\ Done + Len(cursor) = Len(input0)
        /\ \A k \in 1..Len(cursor) : cursor[k] = input0[Done + k]
    BY DEF SignInv, PassInv, InPass
  <1>5. input0 \in Seq(Piece) /\ cursor \in Seq(Data)
    BY DEF SignInv, TypeOK, DataType, Data
  <1>6. Len(cursor) \in Nat /\ Len(input0) \in Nat
    BY <1>5
  <1>7. Done' <= Len(input0) /\ block.data = input0[Done'] /\ input0[Done'] \in Piece
    <2>1. 1 \in 1..Len(cursor) /\ Done' = Done + 1 /\ Done' <= Len(input0)
      BY <1>2, <1>3, <1>4, <1>6
    <2>2. block.data = input0[Done']
      BY <1>3, <1>4, <2>1
    <2>3. Done' \in 1..Len(input0)
      BY <1>2, <2>1
    <2>4. input0[Done'] \in Piece
      BY <1>5, <2>3
    <2> QED BY <2>1, <2>2, <2>4
  <1>8. Done' + Len(cursor') = Len(input0')
    <2>1. Done + 1 + (Len(cursor) - 1) = Len(input0)
      BY <1>2, <1>4, <1>6
    <2>2. Done' + Len(block.next) = Len(input0)
      BY <2>1, <1>2, <1>3
    <2> QED BY <2>2, Zenon
  <1>9. ASSUME NEW k \in 1..Len(cursor')
        PROVE  cursor'[k] = input0'[Done' + k]
    <2>1. k + 1 \in 1..Len(cursor) /\ cursor'[k] = cursor[k + 1]
      BY <1>3, <1>6
    <2>2. cursor[k + 1] = input0[Done + (k + 1)]
      BY <1>4, <2>1
    <2>3. Done + (k + 1) = Done' + k
      BY <1>2, <1>6, <2>1
    <2> QED BY <2>1, <2>2, <2>3
  <1>10. cursor' \in Seq(Length \cup PathData \cup Piece)
    BY <1>3 DEF Data
  <1>11. left' \in Nat /\ left' <= length'
    BY <1>1
  <1> QED BY <1>2, <1>7, <1>8, <1>9, <1>10, <1>11

-----------------------------------------------------------------------------
(* Steps that begin a request or end it *)

LEMMA StartKeeps ==
    ASSUME SignInv, Start
    PROVE  SignInv'
  <1> USE DEF Start, Begin
  <1>1. request' \in Request /\ cursor' = request'.tx /\ request'.settings = settings
    BY DEF Request, SignInv, TypeOK, ControlType
  <1>2. request' # NoRequest /\ cursor' \in Seq(Length \cup PathData \cup Piece)
    BY <1>1, RequestParts DEF Data
  <1>3. ControlType'
    <2>1. starts' \in 0..MaxStarts
      BY MaxStartsAssumption DEF SignInv, TypeOK, ControlType
    <2> QED BY <1>1, <1>2, <2>1
            DEF SignInv, TypeOK, ControlType, Idle, Busy, Reading, Asking
  <1>4. DataType'
    BY <1>2, NoneTyped DEF DataType
  <1>5. ChainInv'
    BY <1>1 DEF ChainInv, AfterLength, AfterPath, Busy, Reading, Asking
  <1>6. PassInv' /\ ShownInv'
    BY DEF PassInv, ShownInv, InPass, AfterHash
  <1>7. ConsentInv'
    BY <1>1 DEF ConsentInv, AfterHash
  <1> QED BY <1>3, <1>4, <1>5, <1>6, <1>7 DEF SignInv, TypeOK

LEMMA EndsKeep ==
    ASSUME SignInv,
           StartWithoutParams \/ WrongAnswer \/ WarnDisabled \/ SignFails \/ Stop
             \/ ShowPanics
    PROVE  SignInv'
  BY DropKeeps DEF SignInv, StartWithoutParams, WrongAnswer, WarnDisabled,
     SignFails, Stop, ShowPanics

LEMMA ToggleKeeps ==
    ASSUME SignInv, ToggleSettings
    PROVE  SignInv'
  <1> USE DEF ToggleSettings, handlerVars, SignInv
  <1>1. TypeOK'
    BY DEF TypeOK, ControlType, DataType
  <1>2. ChainInv' /\ PassInv' /\ ShownInv'
    BY DEF ChainInv, PassInv, ShownInv, Done, Reviewed
  <1>3. ConsentInv'
    BY DEF ConsentInv, Idle, Busy, Reading, Asking
  <1> QED BY <1>1, <1>2, <1>3

-----------------------------------------------------------------------------
(* Reading the length and the path *)

LEMMA ReadLengthKeeps ==
    ASSUME SignInv, NEW block \in Blocks, ReadLength(block)
    PROVE  SignInv'
  <1> USE DEF ReadLength, SignInv
  <1>1. request \in Request
    BY RequestGiven
  <1>2. block.data = Head(cursor) /\ block.next = Tail(cursor)
    BY GenuineBlock
  <1>3. cursor = request.tx
    BY DEF ChainInv
  <1>4. length' = Head(request.tx).n /\ input0' = Tail(request.tx)
        /\ length' \in Nat /\ input0' \in Seq(Piece)
    BY <1>1, <1>2, <1>3, RequestParts
  <1>5. cursor' = request.path /\ cursor' \in Seq(Length \cup PathData \cup Piece)
    BY <1>1, RequestParts DEF Data
  <1>6. ControlType'
    BY DEF TypeOK, ControlType, Busy, Reading, Asking
  <1>7. DataType'
    BY <1>4, <1>5 DEF TypeOK, DataType
  <1>8. ChainInv'
    BY <1>4, <1>5 DEF ChainInv, AfterPath, AfterLength
  <1>9. PassInv'
    BY DEF PassInv, InPass, AfterHash
  <1>10. ShownInv' /\ ConsentInv'
    BY DEF ShownInv, ConsentInv, AfterHash, Busy, Reading, Asking
  <1> QED BY <1>6, <1>7, <1>8, <1>9, <1>10 DEF TypeOK

LEMMA ReadPathKeeps ==
    ASSUME SignInv, NEW block \in Blocks, ReadPath(block)
    PROVE  SignInv'
  <1>1. CASE block.data.underPrefix = FALSE
    BY <1>1, DropKeeps DEF ReadPath, SignInv
  <1>2. CASE block.data.underPrefix = TRUE
    <2> USE DEF ReadPath, SignInv
    <2>1. request \in Request
      BY RequestGiven
    <2>2. path' = Head(request.path) /\ path'.underPrefix = TRUE /\ path' \in PathData
      BY <1>2, GenuineBlock DEF ChainInv
    <2>3. BeginPass("dry") /\ UNCHANGED <<length, input0>>
      BY <1>2
    <2>4. UNCHANGED <<request, known_txn, piece, step, shown, hashed, consent,
                      settings, starts>>
      BY <1>2
    <2>5. pc' = "dry"
      BY <2>3 DEF BeginPass
    <2>6. ControlType'
      BY <2>4, <2>5 DEF TypeOK, ControlType, Busy, Reading, Asking
    <2>7. DataType'
      BY <2>2, <2>3, <2>4, PassBegins DEF TypeOK, DataType
    <2>8. ChainInv'
      BY <2>2, <2>3, <2>4, <2>5 DEF ChainInv, AfterLength, AfterPath, Busy, Reading, Asking
    <2>9. PassInv'
      BY <2>3, <2>4, <2>5, PassBegins DEF TypeOK, PassInv, InPass, AfterHash
    <2>10. ShownInv' /\ ConsentInv'
      BY <2>4, <2>5 DEF ShownInv, ConsentInv, AfterHash, Busy, Reading, Asking
    <2> QED BY <2>6, <2>7, <2>8, <2>9, <2>10 DEF TypeOK
  <1>3. block.data.underPrefix \in BOOLEAN
    BY DEF ReadPath, PathData
  <1> QED BY <1>1, <1>2, <1>3

-----------------------------------------------------------------------------
(* The dry pass *)

\* From the dry pass to the warning: nothing is known, asked or hashed yet.
LEMMA BlindKeeps ==
    ASSUME SignInv, pc = "dry", BlindPath,
           cursor' \in Seq(Length \cup PathData \cup Piece),
           UNCHANGED <<request, length, path, input0, left, piece, step, shown,
                       hashed, consent, settings, starts>>
    PROVE  SignInv'
  <1> USE DEF SignInv
  <1>1. request.settings \in {0, 1}
    BY RequestGiven, RequestParts
  <1>2. /\ pc' \in {"warn_disabled", "warn"} /\ known_txn' = FALSE
        /\ pc' = "warn" => request.settings = 1
    BY <1>1 DEF BlindPath
  <1>3. ControlType'
    BY <1>2 DEF TypeOK, ControlType, Idle, Busy, Reading, Asking
  <1>4. DataType'
    BY DEF TypeOK, DataType
  <1>5. ChainInv'
    BY <1>2 DEF ChainInv, AfterLength, AfterPath, Busy, Reading, Asking
  <1>6. PassInv' /\ ShownInv'
    BY <1>2 DEF PassInv, ShownInv, InPass, AfterHash
  <1>7. known_txn = FALSE /\ consent = {}
    BY DEF PassInv, ConsentInv, AfterHash
  <1>8. ConsentInv'
    BY <1>2, <1>7 DEF ConsentInv, AfterHash, Busy, Reading, Asking
  <1> QED BY <1>3, <1>4, <1>5, <1>6, <1>8 DEF TypeOK

LEMMA ReadFailsKeeps ==
    ASSUME SignInv, ReadFails
    PROVE  SignInv'
  <1>1. CASE pc = "dry"
    <2>1. cursor' \in Seq(Length \cup PathData \cup Piece)
      BY <1>1 DEF ReadFails, SignInv, TypeOK, DataType
    <2> QED BY <1>1, <2>1, BlindKeeps DEF ReadFails
  <1>2. CASE pc # "dry"
    BY <1>2, DropKeeps DEF ReadFails, SignInv
  <1> QED BY <1>1, <1>2

LEMMA DryPieceKeeps ==
    ASSUME SignInv, NEW block \in Blocks, DryPiece(block)
    PROVE  SignInv'
  <1> USE DEF DryPiece
  <1>1. CASE ~DryAccepts(block.data)
    <2>1. cursor' \in Seq(Length \cup PathData \cup Piece)
      BY GenuineBlock DEF SignInv, Data
    <2> QED BY <1>1, <2>1, BlindKeeps
  <1>2. CASE DryAccepts(block.data)
    <2> USE DEF SignInv
    <2>1. left' = left - 1 /\ pc' = "dry"
      BY <1>2
    <2>2. UNCHANGED <<request, length, path, input0, known_txn, piece, step,
                      shown, hashed, consent, settings, starts>>
      BY <1>2
    <2>3. /\ Done' = Done + 1 /\ Done \in Nat
          /\ left' \in Nat /\ left' <= length'
          /\ cursor' \in Seq(Length \cup PathData \cup Piece)
          /\ block.data = input0[Done']
          /\ Done' + Len(cursor') = Len(input0')
          /\ \A k \in 1..Len(cursor') : cursor'[k] = input0'[Done' + k]
      BY <2>1, <2>2, PassAdvances
    <2>4. ControlType'
      BY <2>1, <2>2 DEF TypeOK, ControlType
    <2>5. DataType'
      BY <2>2, <2>3 DEF TypeOK, DataType
    <2>6. ChainInv'
      BY <2>1, <2>2 DEF ChainInv, AfterLength, AfterPath, Busy, Reading, Asking
    <2>7. \A k \in 1..Done' : DryAccepts(input0'[k])
      <3>1. \A k \in 1..Done : DryAccepts(input0[k])
        BY DEF PassInv
      <3> QED BY <1>2, <2>2, <2>3, <3>1
    <2>8. PassInv'
      BY <2>1, <2>2, <2>3, <2>7 DEF PassInv, InPass, AfterHash
    <2>9. ShownInv' /\ ConsentInv'
      BY <2>1, <2>2 DEF ShownInv, ConsentInv, AfterHash, Busy, Reading, Asking
    <2> QED BY <2>4, <2>5, <2>6, <2>8, <2>9 DEF TypeOK
  <1> QED BY <1>1, <1>2

LEMMA DryEndKeeps ==
    ASSUME SignInv, DryEnd
    PROVE  SignInv'
  <1> USE DEF DryEnd, SignInv
  <1>1. pc' = "prompt" /\ known_txn' = TRUE
    BY DEF BeginPass
  <1>2. length <= Len(input0) /\ \A k \in 1..length : DryAccepts(input0[k])
    <2>1. Done = length
      BY DEF TypeOK, DataType, Done
    <2>2. Done + Len(cursor) = Len(input0) /\ Len(cursor) \in Nat
      BY DEF PassInv, InPass, TypeOK, DataType
    <2> QED BY <2>1, <2>2 DEF PassInv, TypeOK, DataType
  <1>3. ControlType'
    BY <1>1 DEF TypeOK, ControlType, Busy, Reading, Asking
  <1>4. DataType'
    BY PassBegins DEF TypeOK, DataType
  <1>5. ChainInv'
    BY <1>1 DEF ChainInv, AfterLength, AfterPath, Busy, Reading, Asking
  <1>6. PassInv'
    BY <1>1, <1>2, PassBegins DEF TypeOK, PassInv, InPass, AfterHash
  <1>7. ShownInv'
    <2>1. shown' = <<>> /\ Done' = 0
      BY PassBegins DEF ShownInv, TypeOK
    <2> QED BY <1>1, <2>1 DEF ShownInv, Reviewed, AfterHash
  <1>8. ConsentInv'
    <2>1. known_txn = FALSE /\ consent = {}
      BY DEF PassInv, ConsentInv, AfterHash
    <2> QED BY <1>1, <2>1 DEF ConsentInv, AfterHash, Busy, Reading, Asking
  <1> QED BY <1>3, <1>4, <1>5, <1>6, <1>7, <1>8 DEF TypeOK

-----------------------------------------------------------------------------
(* The pass with prompts *)

LEMMA PromptPieceKeeps ==
    ASSUME SignInv, NEW block \in Blocks, PromptPiece(block)
    PROVE  SignInv'
  <1> USE DEF PromptPiece, SignInv
  <1>1. CASE ~DryAccepts(block.data)
    BY <1>1, DropKeeps
  <1>2. CASE DryAccepts(block.data)
    <2>1. /\ left' = left - 1 /\ pc' = "show" /\ piece' = block.data /\ step' = 1
          /\ shown' = Append(shown, {}) /\ cursor' = block.next
          /\ UNCHANGED <<request, length, path, input0, known_txn, hashed,
                         consent, settings, starts>>
      BY <1>2
    <2>2. /\ Done' = Done + 1 /\ Done \in Nat
          /\ left' \in Nat /\ left' <= length'
          /\ cursor' \in Seq(Length \cup PathData \cup Piece)
          /\ block.data = input0[Done'] /\ input0[Done'] \in Piece
          /\ Done' + Len(cursor') = Len(input0')
          /\ \A k \in 1..Len(cursor') : cursor'[k] = input0'[Done' + k]
      BY <2>1, PassAdvances
    <2>3. /\ shown' \in Seq(SUBSET PromptKind) /\ Len(shown') = Done'
          /\ \A k \in 1..Done : shown'[k] = shown[k]
          /\ shown'[Done'] = {}
      <3>1. shown \in Seq(SUBSET PromptKind) /\ Len(shown) = Done
        BY DEF TypeOK, DataType, ShownInv
      <3>2. {} \in SUBSET PromptKind
        OBVIOUS
      <3> QED BY <3>1, <3>2, <2>1, <2>2, AppendProperties
    <2>4. ControlType'
      BY <2>1 DEF TypeOK, ControlType, Busy, Reading, Asking
    <2>5. DataType'
      <3>1. piece' \in Piece
        BY <2>1, <2>2, Zenon
      <3>2. step' \in Nat \ {0}
        BY <2>1
      <3> QED BY <3>1, <3>2, <2>1, <2>2, <2>3 DEF TypeOK, DataType
    <2>6. ChainInv'
      BY <2>1 DEF ChainInv, AfterLength, AfterPath, Busy, Reading, Asking
    <2>7. PassInv'
      BY <2>1, <2>2 DEF PassInv, InPass, AfterHash
    <2>8. ShownInv'
      <3>1. Reviewed(Done)
        BY DEF ShownInv
      <3>3. Done' > 0 /\ Done' - 1 = Done /\ piece' = input0'[Done']
        BY <2>1, <2>2
      <3>4. Reviewed(Done - 1)'
        BY <3>1, <3>3, <2>1, <2>2, <2>3 DEF Reviewed
      <3>5. step' <= Len(Prompts(piece')) + 1
        <4> HIDE DEF PromptPiece, SignInv
        <4>1. piece' \in Piece
          BY <2>1, <2>2, Zenon
        <4>2. Prompts(piece') \in Seq(PromptKind)
          BY <4>1, PromptsType, Zenon
        <4>3. Len(Prompts(piece')) \in Nat
          BY <4>2, LenProperties
        <4> QED BY <2>1, <4>3
      <3>6. shown'[Done'] = DrawnOf(piece', step' - 1)
        BY <2>1, <2>3 DEF DrawnOf
      <3>7. \A k \in 1..(step' - 1) :
               Prompts(piece')[k].checked => Prompts(piece')[k].draws = "ok"
        BY <2>1
      <3> QED BY <2>1, <2>3, <3>3, <3>4, <3>5, <3>6, <3>7 DEF ShownInv, AfterHash
    <2>9. ConsentInv'
      BY <2>1 DEF ConsentInv, AfterHash, Busy, Reading, Asking
    <2> QED BY <2>4, <2>5, <2>6, <2>7, <2>8, <2>9 DEF TypeOK
  <1> QED BY <1>1, <1>2

\* One more prompt adds itself to what is drawn, if it can be.
LEMMA DrawnGrows ==
    ASSUME NEW p, NEW n \in Nat
    PROVE  DrawnOf(p, n + 1) =
              IF Prompts(p)[n + 1].draws = "ok"
              THEN DrawnOf(p, n) \cup {Prompts(p)[n + 1]}
              ELSE DrawnOf(p, n)
  <1>1. \A j : j \in 1..(n + 1) <=> j \in 1..n \/ j = n + 1
    OBVIOUS
  <1> QED BY <1>1 DEF DrawnOf

LEMMA ShowPromptKeeps ==
    ASSUME SignInv, NEW answer \in BOOLEAN, ShowPrompt(answer)
    PROVE  SignInv'
  <1> USE DEF SignInv
  <1>0. pc = "show" /\ piece \in Piece /\ step \in Nat \ {0}
    BY DEF ShowPrompt, InPiece, TypeOK, DataType
  <1>1. /\ Prompts(piece) \in Seq(PromptKind) /\ Len(Prompts(piece)) \in Nat
        /\ step \in 1..Len(Prompts(piece)) /\ current \in PromptKind
    <2>1. Prompts(piece) \in Seq(PromptKind) /\ Len(Prompts(piece)) \in Nat
      BY <1>0, PromptsType
    <2>2. step \in 1..Len(Prompts(piece))
      BY <1>0, <2>1 DEF ShowPrompt, InPiece
    <2> QED BY <2>1, <2>2 DEF current
  <1>2. CASE Drop("idle")
    BY <1>2, DropKeeps
  <1>3. CASE /\ ~(current.checked /\ (current.draws = "none" \/ ~answer))
             /\ shown' = IF current.draws = "ok"
                         THEN [shown EXCEPT ![Len(shown)] = @ \cup {current}]
                         ELSE shown
             /\ step' = step + 1
             /\ UNCHANGED <<pc, request, cursor, length, path, input0, left,
                            known_txn, piece, hashed, consent, settings, starts>>
    <2>1. /\ shown \in Seq(SUBSET PromptKind) /\ Len(shown) = Done /\ Done > 0
          /\ Done \in Nat /\ shown[Done] = DrawnOf(piece, step - 1)
          /\ Reviewed(Done - 1)
      <3>1. Len(shown) \in Nat
        BY DEF TypeOK, DataType
      <3> QED BY <1>0, <3>1 DEF TypeOK, DataType, ShownInv
    <2>2. current.checked => current.draws = "ok"
      <3>1. current.draws \in {"ok", "none", "panic"} /\ current.draws # "panic"
        BY <1>1 DEF PromptKind, ShowPrompt
      <3> QED BY <1>3, <3>1
    <2>3. DrawnOf(piece, step) = IF current.draws = "ok"
                                 THEN shown[Done] \cup {current} ELSE shown[Done]
      <3>1. step - 1 \in Nat /\ (step - 1) + 1 = step
        BY <1>0
      <3>2. DrawnOf(piece, (step - 1) + 1) =
              IF Prompts(piece)[(step - 1) + 1].draws = "ok"
              THEN DrawnOf(piece, step - 1) \cup {Prompts(piece)[(step - 1) + 1]}
              ELSE DrawnOf(piece, step - 1)
        BY <3>1, DrawnGrows
      <3> QED BY <3>1, <3>2, <2>1 DEF current
    <2>4. /\ shown' \in Seq(SUBSET PromptKind) /\ Len(shown') = Done
          /\ shown'[Done] = DrawnOf(piece, step)
          /\ \A k \in 1..(Done - 1) : shown'[k] = shown[k]
      <3>1. CASE current.draws = "ok"
        <4> DEFINE e == shown[Done] \cup {current}
        <4>1. Done \in 1..Len(shown) /\ shown[Done] \in SUBSET PromptKind
          BY <2>1
        <4>2. e \in SUBSET PromptKind
          BY <4>1, <1>1
        <4>3. shown' = [shown EXCEPT ![Done] = e]
          BY <1>3, <3>1, <2>1
        <4>4. e = DrawnOf(piece, step)
          BY <3>1, <2>3
        <4> HIDE DEF e
        <4>5. /\ shown' \in Seq(SUBSET PromptKind) /\ Len(shown') = Len(shown)
              /\ \A j \in 1..Len(shown) : shown'[j] = IF j = Done THEN e ELSE shown[j]
          BY <4>1, <4>2, <4>3, <2>1, ExceptSeq
        <4> QED BY <4>1, <4>4, <4>5, <2>1
      <3>2. CASE current.draws # "ok"
        BY <1>3, <3>2, <2>1, <2>3
      <3> QED BY <3>1, <3>2
    <2>5. ControlType'
      BY <1>3 DEF TypeOK, ControlType
    <2>6. DataType'
      BY <1>0, <1>3, <2>4 DEF TypeOK, DataType
    <2>7. ChainInv' /\ ConsentInv'
      BY <1>3 DEF ChainInv, ConsentInv
    <2>8. PassInv' /\ Done' = Done
      BY <1>3 DEF PassInv, Done
    <2>9. ShownInv'
      <3>1. Reviewed(Done - 1)'
        BY <1>3, <2>1, <2>4, <2>8 DEF Reviewed
      <3>2. piece' = input0'[Done'] /\ step' <= Len(Prompts(piece')) + 1
        BY <1>0, <1>1, <1>3, <2>8 DEF ShownInv
      <3>3. shown'[Done'] = DrawnOf(piece', step' - 1)
        BY <1>0, <1>3, <2>4, <2>8
      <3>4. \A k \in 1..(step' - 1) :
               Prompts(piece')[k].checked => Prompts(piece')[k].draws = "ok"
        <4>1. \A k \in 1..(step - 1) :
                 Prompts(piece)[k].checked => Prompts(piece)[k].draws = "ok"
          BY <1>0 DEF ShownInv
        <4>2. \A k \in 1..(step' - 1) : k \in 1..(step - 1) \/ k = step
          BY <1>0, <1>3
        <4> QED BY <4>1, <4>2, <2>2, <1>3 DEF current
      <3> QED BY <1>0, <1>3, <2>1, <2>4, <2>8, <3>1, <3>2, <3>3, <3>4
              DEF ShownInv, AfterHash
    <2> QED BY <2>5, <2>6, <2>7, <2>8, <2>9 DEF TypeOK
  <1> QED BY <1>2, <1>3 DEF ShowPrompt

LEMMA PieceShownKeeps ==
    ASSUME SignInv, PieceShown
    PROVE  SignInv'
  <1> USE DEF PieceShown, SignInv
  <1>1. /\ piece \in Piece /\ Len(Prompts(piece)) \in Nat /\ step \in Nat \ {0}
        /\ step - 1 = Len(Prompts(piece))
    <2>1. piece \in Piece /\ step \in Nat \ {0}
      BY DEF TypeOK, DataType
    <2>2. Len(Prompts(piece)) \in Nat
      BY <2>1, PromptsType
    <2>3. step <= Len(Prompts(piece)) + 1
      BY DEF ShownInv
    <2> QED BY <2>1, <2>2, <2>3
  <1>2. /\ Done \in Nat /\ Done > 0 /\ Done <= length /\ Len(shown) = Done
        /\ piece = input0[Done]
    BY DEF TypeOK, DataType, ShownInv, Done
  <1>3. shown[Done] = Drawn(piece)
    BY <1>1 DEF ShownInv, Drawn
  <1>4. DryAccepts(piece)
    BY <1>2 DEF PassInv
  <1>5. Reviewable(piece)
    BY <1>1, <1>4 DEF ShownInv, Reviewable
  <1>6. Reviewed(Done)
    <2>1. Reviewed(Done - 1)
      BY DEF ShownInv
    <2>2. \A k \in 1..Done : k \in 1..(Done - 1) \/ k = Done
      BY <1>2
    <2> QED BY <2>1, <2>2, <1>2, <1>3, <1>5 DEF Reviewed
  <1>7. TypeOK'
    <2>1. DataType'
      BY NoneTyped DEF TypeOK, DataType
    <2> QED BY <2>1 DEF TypeOK, ControlType, Busy, Reading, Asking
  <1>8. ChainInv' /\ ConsentInv'
    BY DEF ChainInv, ConsentInv, AfterLength, AfterPath, AfterHash, Busy, Reading, Asking
  <1>9. PassInv' /\ Done' = Done
    BY DEF PassInv, Done, InPass, AfterHash
  <1>10. ShownInv'
    <2>1. Reviewed(Done)'
      BY <1>6, <1>9 DEF Reviewed
    <2> QED BY <2>1, <1>2, <1>9 DEF ShownInv, AfterHash
  <1> QED BY <1>7, <1>8, <1>9, <1>10

-----------------------------------------------------------------------------
(* The pass that hashes *)

LEMMA PromptEndKeeps ==
    ASSUME SignInv, PromptEnd
    PROVE  SignInv'
  <1> USE DEF PromptEnd, SignInv
  <1>1. pc' = "hash" /\ known_txn = TRUE
    BY DEF BeginPass, PassInv
  <1>2. Len(shown) = length /\ Reviewed(length)
    <2>1. Done = length
      BY DEF TypeOK, DataType, Done
    <2> QED BY <2>1 DEF ShownInv
  <1>3. ControlType'
    BY <1>1 DEF TypeOK, ControlType, Busy, Reading, Asking
  <1>4. DataType'
    BY PassBegins DEF TypeOK, DataType
  <1>5. ChainInv'
    BY <1>1 DEF ChainInv, AfterLength, AfterPath, Busy, Reading, Asking
  <1>6. PassInv'
    <2>1. Done' = 0 /\ hashed' = <<>>
      BY PassBegins DEF PassInv, AfterHash, TypeOK
    <2> QED BY <1>1, <2>1, PassBegins DEF TypeOK, PassInv, InPass, AfterHash
  <1>7. ShownInv'
    BY <1>1, <1>2 DEF ShownInv, Reviewed, AfterHash
  <1>8. ConsentInv'
    BY <1>1 DEF ConsentInv, AfterHash, Busy, Reading, Asking
  <1> QED BY <1>3, <1>4, <1>5, <1>6, <1>7, <1>8 DEF TypeOK

LEMMA WarnKeeps ==
    ASSUME SignInv, NEW answer \in BOOLEAN, Warn(answer)
    PROVE  SignInv'
  <1> USE DEF SignInv
  <1>1. CASE ~answer
    BY <1>1, DropKeeps DEF Warn
  <1>2. CASE answer
    <2>1. /\ pc = "warn" /\ consent' = consent \cup {"WARNING"}
          /\ UNCHANGED <<length, input0>> /\ BeginPass("hash")
          /\ UNCHANGED <<request, path, known_txn, piece, step, shown, hashed,
                         settings, starts>>
      BY <1>2 DEF Warn
    <2>2. pc' = "hash" /\ known_txn = FALSE /\ consent' = {"WARNING"} /\ hashed = <<>>
      BY <2>1 DEF BeginPass, PassInv, ConsentInv, AfterHash
    <2>3. ControlType'
      BY <2>1, <2>2 DEF TypeOK, ControlType, Busy, Reading, Asking
    <2>4. DataType'
      BY <2>1, PassBegins DEF TypeOK, DataType
    <2>5. ChainInv'
      BY <2>1, <2>2 DEF ChainInv, AfterLength, AfterPath, Busy, Reading, Asking
    <2>6. PassInv'
      BY <2>1, <2>2, PassBegins DEF TypeOK, PassInv, InPass, AfterHash
    <2>7. ShownInv'
      BY <2>1, <2>2 DEF ShownInv, AfterHash
    <2>8. ConsentInv'
      BY <2>1, <2>2 DEF ConsentInv, AfterHash, Busy, Reading, Asking
    <2> QED BY <2>3, <2>4, <2>5, <2>6, <2>7, <2>8 DEF TypeOK
  <1> QED BY <1>1, <1>2

LEMMA HashPieceKeeps ==
    ASSUME SignInv, NEW block \in Blocks, HashPiece(block)
    PROVE  SignInv'
  <1> USE DEF HashPiece, SignInv
  <1>1. /\ Done' = Done + 1 /\ Done \in Nat
        /\ left' \in Nat /\ left' <= length'
        /\ cursor' \in Seq(Length \cup PathData \cup Piece)
        /\ block.data = input0[Done'] /\ input0[Done'] \in Piece
        /\ Done' + Len(cursor') = Len(input0')
        /\ \A k \in 1..Len(cursor') : cursor'[k] = input0'[Done' + k]
    BY PassAdvances
  <1>2. /\ hashed' \in Seq(Piece) /\ Len(hashed') = Done'
        /\ \A k \in 1..Done' : hashed'[k] = input0'[k]
    <2>1. /\ hashed \in Seq(Piece) /\ Len(hashed) = Done
          /\ \A k \in 1..Done : hashed[k] = input0[k]
      BY DEF TypeOK, DataType, PassInv
    <2>2. /\ hashed' \in Seq(Piece) /\ Len(hashed') = Done + 1
          /\ \A k \in 1..Done : hashed'[k] = hashed[k]
          /\ hashed'[Done + 1] = block.data
      <3>1. hashed' = Append(hashed, block.data) /\ block.data \in Piece
        OBVIOUS
      <3> QED BY <2>1, <3>1, AppendProperties
    <2>3. \A k \in 1..Done' : k \in 1..Done \/ k = Done + 1
      BY <1>1
    <2>4. ASSUME NEW k \in 1..Done'
          PROVE  hashed'[k] = input0'[k]
      <3>1. CASE k \in 1..Done
        BY <3>1, <2>1, <2>2
      <3>2. CASE k = Done + 1
        BY <3>2, <2>2, <1>1
      <3> QED BY <3>1, <3>2, <2>3
    <2> QED BY <2>2, <2>4, <1>1
  <1>3. ControlType'
    BY DEF TypeOK, ControlType
  <1>4. DataType'
    BY <1>1, <1>2 DEF TypeOK, DataType
  <1>5. ChainInv' /\ ConsentInv'
    BY DEF ChainInv, ConsentInv
  <1>6. PassInv'
    BY <1>1, <1>2 DEF PassInv, InPass, AfterHash
  <1>7. ShownInv'
    BY DEF ShownInv, Reviewed, AfterHash
  <1> QED BY <1>3, <1>4, <1>5, <1>6, <1>7 DEF TypeOK

-----------------------------------------------------------------------------
(* The questions and the signature *)

LEMMA HashEndKeeps ==
    ASSUME SignInv, HashEnd
    PROVE  SignInv'
  <1> USE DEF HashEnd, handlerVars, SignInv
  <1>1. /\ known_txn = TRUE \/ known_txn = FALSE
        /\ known_txn = TRUE => pc' = "accept"
        /\ known_txn = FALSE => pc' = "show_hash"
    BY DEF TypeOK, ControlType
  <1>2. TypeOK'
    BY <1>1 DEF TypeOK, ControlType, DataType, Busy, Reading, Asking
  <1>3. ChainInv'
    BY <1>1 DEF ChainInv, AfterLength, AfterPath, Busy, Reading, Asking
  <1>4. PassInv'
    <2>1. length <= Len(input0)
      BY DEF PassInv, InPass, TypeOK, DataType, Done
    <2> QED BY <1>1, <2>1 DEF PassInv, InPass, AfterHash, Done
  <1>5. ShownInv'
    BY <1>1 DEF ShownInv, Reviewed, AfterHash
  <1>6. ConsentInv'
    BY <1>1 DEF ConsentInv, AfterHash, Busy, Reading, Asking
  <1> QED BY <1>2, <1>3, <1>4, <1>5, <1>6

\* From one point after the hash to another: only pc and consent change.
LEMMA AfterHashKeeps ==
    ASSUME SignInv, pc \in AfterHash \ {"signed"}, pc' \in AfterHash \ {"show_hash"},
           UNCHANGED <<request, cursor, length, path, input0, left, known_txn,
                       piece, step, shown, hashed, settings, starts>>,
           consent' \subseteq {"WARNING", "TransactionHash", "SignTransaction",
                               "BlindSignTransaction"},
           ConsentInv'
    PROVE  SignInv'
  <1> USE DEF SignInv, AfterHash
  <1>1. ControlType'
    BY DEF TypeOK, ControlType, Idle, Busy, Reading, Asking
  <1>2. DataType'
    BY DEF TypeOK, DataType
  <1>3. ChainInv'
    BY DEF ChainInv, AfterLength, AfterPath, Busy, Reading, Asking
  <1>4. PassInv'
    BY DEF PassInv, InPass, Done
  <1>5. ShownInv'
    BY DEF ShownInv, Reviewed
  <1> QED BY <1>1, <1>2, <1>3, <1>4, <1>5 DEF TypeOK

LEMMA ShowHashKeeps ==
    ASSUME SignInv, NEW answer \in BOOLEAN, ShowHash(answer)
    PROVE  SignInv'
  <1>1. CASE ~answer
    BY <1>1, DropKeeps DEF ShowHash, SignInv
  <1>2. CASE answer
    <2>1. /\ pc = "show_hash" /\ pc' = "accept"
          /\ consent' = consent \cup {"TransactionHash"}
          /\ UNCHANGED <<request, cursor, length, path, input0, left, known_txn,
                         piece, step, shown, hashed, settings, starts>>
      BY <1>2 DEF ShowHash
    <2>2. known_txn = FALSE /\ consent = {"WARNING"} /\ request.settings = 1
          /\ request.settings = settings
      BY <2>1 DEF SignInv, PassInv, ConsentInv, AfterHash, Busy, Reading, Asking
    <2>3. consent' = {"WARNING", "TransactionHash"}
      BY <2>1, <2>2
    <2>4. ConsentInv'
      BY <2>1, <2>2, <2>3 DEF ConsentInv, AfterHash, Busy, Reading, Asking
    <2> QED BY <2>1, <2>3, <2>4, AfterHashKeeps DEF AfterHash
  <1> QED BY <1>1, <1>2

LEMMA AcceptKeeps ==
    ASSUME SignInv, NEW answer \in BOOLEAN, Accept(answer)
    PROVE  SignInv'
  <1>1. CASE ~answer
    BY <1>1, DropKeeps DEF Accept, SignInv
  <1>2. CASE answer
    <2>1. /\ pc = "accept" /\ pc' = "sign"
          /\ consent' = consent \cup {FinalQuestion}
          /\ UNCHANGED <<request, cursor, length, path, input0, left, known_txn,
                         piece, step, shown, hashed, settings, starts>>
      BY <1>2 DEF Accept
    <2>2. request.settings = settings
      BY <2>1 DEF SignInv, ConsentInv, Busy, Reading, Asking
    <2>3. CASE known_txn = TRUE
      <3>1. consent' = {"SignTransaction"}
        BY <2>1, <2>3 DEF SignInv, ConsentInv, FinalQuestion
      <3>2. ConsentInv'
        BY <2>1, <2>2, <2>3, <3>1 DEF ConsentInv
      <3> QED BY <2>1, <3>1, <3>2, AfterHashKeeps DEF AfterHash
    <2>4. CASE known_txn = FALSE
      <3>1. consent' = {"WARNING", "TransactionHash", "BlindSignTransaction"}
        BY <2>1, <2>4 DEF SignInv, ConsentInv, FinalQuestion
      <3>2. request.settings = 1
        BY <2>1, <2>4 DEF SignInv, ConsentInv, AfterHash
      <3>3. ConsentInv'
        BY <2>1, <2>2, <2>4, <3>1, <3>2 DEF ConsentInv, AfterHash
      <3> QED BY <2>1, <3>1, <3>3, AfterHashKeeps DEF AfterHash
    <2> QED BY <2>3, <2>4 DEF SignInv, TypeOK, ControlType
  <1> QED BY <1>1, <1>2

LEMMA SignKeeps ==
    ASSUME SignInv, Sign
    PROVE  SignInv'
  <1>1. /\ pc = "sign" /\ pc' = "signed" /\ consent' = consent
        /\ UNCHANGED <<request, cursor, length, path, input0, left, known_txn,
                       piece, step, shown, hashed, settings, starts>>
    BY DEF Sign, handlerVars
  <1>2. ConsentInv'
    BY <1>1 DEF SignInv, ConsentInv, AfterHash, Busy, Reading, Asking
  <1>3. consent' \subseteq {"WARNING", "TransactionHash", "SignTransaction",
                            "BlindSignTransaction"}
    BY <1>1 DEF SignInv, TypeOK, ControlType
  <1> QED BY <1>1, <1>2, <1>3, AfterHashKeeps DEF AfterHash

-----------------------------------------------------------------------------
(* The invariant, and what follows from it *)

LEMMA StutterKeeps ==
    ASSUME SignInv, UNCHANGED vars
    PROVE  SignInv'
  BY DEF vars, handlerVars, SignInv, TypeOK, ControlType, DataType, ChainInv,
         PassInv, ShownInv, ConsentInv, Done, Reviewed

LEMMA NextKeeps ==
    ASSUME SignInv, [Next]_vars
    PROVE  SignInv'
  <1>1. CASE HostAnswers
    <2>1. CASE HostFailure
      BY <2>1, ReadFailsKeeps DEF HostFailure
    <2>2. CASE \E block \in Blocks :
                  \/ ReadLength(block) \/ ReadPath(block) \/ DryPiece(block)
                  \/ PromptPiece(block) \/ HashPiece(block)
      BY <2>2, ReadLengthKeeps, ReadPathKeeps, DryPieceKeeps, PromptPieceKeeps,
         HashPieceKeeps
    <2> QED BY <1>1, <2>1, <2>2 DEF HostAnswers
  <1>2. CASE UserAnswers
    <2>1. CASE WarnDisabled
      BY <2>1, EndsKeep
    <2>2. CASE \E answer \in BOOLEAN :
                  \/ ShowPrompt(answer) \/ Warn(answer) \/ ShowHash(answer)
                  \/ Accept(answer)
      BY <2>2, ShowPromptKeeps, WarnKeeps, ShowHashKeeps, AcceptKeeps
    <2> QED BY <1>2, <2>1, <2>2 DEF UserAnswers
  <1>3. CASE Handler
    <2>1. CASE EndOfChain
      BY <2>1, ReadFailsKeeps DEF EndOfChain
    <2>2. CASE ShowPanics \/ SignFails
      BY <2>2, EndsKeep
    <2> QED BY <1>3, <2>1, <2>2, DryEndKeeps, PieceShownKeeps, PromptEndKeeps,
               HashEndKeeps, SignKeeps DEF Handler
  <1>4. CASE Environment
    BY <1>4, StartKeeps, EndsKeep, ToggleKeeps DEF Environment
  <1> QED BY <1>1, <1>2, <1>3, <1>4, StutterKeeps DEF Next

\* What is read, shown, hashed and agreed to belongs to what START committed to,
\* at every moment of every request.
THEOREM SignInvariant == Spec => []SignInv
  BY InitEstablishes, NextKeeps, PTL DEF Spec

\* Every variable keeps its type.
THEOREM SignTypes == Spec => []TypeOK
  <1>1. SignInv => TypeOK
    BY DEF SignInv
  <1> QED BY <1>1, SignInvariant, PTL

\* After the hash, what is hashed is what was committed to.
LEMMA HashedIsCommitted ==
    ASSUME SignInv, pc \in AfterHash
    PROVE  /\ hashed = Committed /\ Len(hashed) = length
           /\ length <= Len(input0)
           /\ \A k \in 1..length : hashed[k] = input0[k]
  <1>1. request \in Request
    BY RequestGiven DEF SignInv, AfterHash
  <1>2. /\ Committed = SubSeq(input0, 1, length)
        /\ input0 \in Seq(Piece) /\ length \in Nat /\ hashed \in Seq(Piece)
    BY DEF SignInv, ChainInv, TypeOK, DataType, Committed, AfterLength, AfterHash,
           Busy, Reading, Asking
  <1>3. /\ Done = length /\ length <= Len(input0)
        /\ Len(hashed) = length /\ \A k \in 1..length : hashed[k] = input0[k]
    <2>1. Done = length
      BY <1>2 DEF SignInv, PassInv, Done
    <2> QED BY <2>1 DEF SignInv, PassInv
  <1>4. /\ Committed \in Seq(Piece) /\ Len(Committed) = length
        /\ \A k \in 1..length : Committed[k] = input0[k]
    BY <1>2, <1>3
  <1>5. hashed = Committed
    BY <1>2, <1>3, <1>4, SeqEqual
  <1> QED BY <1>3, <1>5

\* What you see is what you sign.
THEOREM WhatYouSee == Spec => []ReviewedIsSigned
  <1>1. ASSUME SignInv, pc = "signed", known_txn = TRUE
        PROVE  /\ hashed = Committed /\ Len(shown) = Len(hashed)
               /\ \A k \in 1..Len(hashed) :
                     shown[k] = Drawn(hashed[k]) /\ Reviewable(hashed[k])
               /\ consent = {"SignTransaction"}
    <2>1. pc \in AfterHash
      BY <1>1 DEF AfterHash
    <2>2. Len(shown) = length /\ Reviewed(length) /\ consent = {"SignTransaction"}
      BY <1>1, <2>1 DEF SignInv, ShownInv, ConsentInv
    <2> QED BY <1>1, <2>1, <2>2, HashedIsCommitted DEF Reviewed
  <1>2. SignInv => ReviewedIsSigned
    BY <1>1 DEF ReviewedIsSigned
  <1> QED BY <1>2, SignInvariant, PTL

\* Nothing unseen is signed without the setting and the three consents.
THEOREM BlindNeedsConsent == Spec => []BlindSignatureNeedsConsent
  <1>1. ASSUME SignInv, pc = "signed", known_txn = FALSE
        PROVE  /\ hashed = Committed /\ request.settings = 1
               /\ consent = {"WARNING", "TransactionHash", "BlindSignTransaction"}
    <2>1. pc \in AfterHash
      BY <1>1 DEF AfterHash
    <2> QED BY <1>1, <2>1, HashedIsCommitted DEF SignInv, ConsentInv
  <1>2. SignInv => BlindSignatureNeedsConsent
    BY <1>1 DEF BlindSignatureNeedsConsent, SignInv, TypeOK, ControlType
  <1> QED BY <1>2, SignInvariant, PTL

\* The passes after the dry pass find what it accepted.
THEOREM NoSurprise == Spec => []RecognizedStaysRecognized
  <1>1. ASSUME SignInv, known_txn = TRUE, pc \in {"prompt", "show", "hash"}
        PROVE  /\ left <= Len(cursor)
               /\ \A k \in 1..left : cursor[k] \in Piece /\ DryAccepts(cursor[k])
    <2>1. /\ length \in Nat /\ left \in Nat /\ left <= length
          /\ input0 \in Seq(Piece) /\ Len(cursor) \in Nat
      BY <1>1 DEF SignInv, TypeOK, DataType, PassInv, InPass
    <2>2. /\ Done + Len(cursor) = Len(input0) /\ length <= Len(input0)
          /\ Done = length - left /\ Len(input0) \in Nat
      BY <1>1, <2>1 DEF SignInv, PassInv, InPass, Done
    <2>3. left <= Len(cursor)
      BY <2>1, <2>2
    <2>4. ASSUME NEW k \in 1..left
          PROVE  cursor[k] \in Piece /\ DryAccepts(cursor[k])
      <3>1. cursor[k] = input0[Done + k]
        BY <1>1, <2>1, <2>3 DEF SignInv, PassInv, InPass
      <3>2. Done + k \in 1..length /\ Done + k \in 1..Len(input0)
        BY <2>1, <2>2
      <3> QED BY <1>1, <2>1, <3>1, <3>2 DEF SignInv, PassInv
    <2> QED BY <2>3, <2>4
  <1>2. SignInv => RecognizedStaysRecognized
    BY <1>1 DEF RecognizedStaysRecognized
  <1> QED BY <1>2, SignInvariant, PTL

-----------------------------------------------------------------------------
(* Steps *)

\* The steps that only the handler and its environment are busy with: a request
\* is open before and after them, or nothing but the setting changes.
LEMMA OpenSteps ==
    ASSUME SignInv, Next,
           ~Start, ~Sign, ~ToggleSettings,
           ~\E how \in {"idle", "panicked"} : Drop(how),
           ~(pc = "accept" /\ pc' = "sign")
    PROVE  /\ request' = request
           /\ pc \in Busy \ {"sign"} /\ pc' \in Busy \ {"sign"}
  <1> USE DEF Busy, Reading, Asking
  <1>1. ASSUME ReadFails, NeedsBlock
        PROVE  request' = request /\ pc = "dry" /\ pc' \in {"warn", "warn_disabled"}
    BY <1>1 DEF ReadFails, BlindPath
  <1>2. CASE HostAnswers
    <2>1. CASE HostFailure
      BY <2>1, <1>1 DEF HostFailure, Waiting
    <2>2. ASSUME NEW block \in Blocks,
                 ReadLength(block) \/ ReadPath(block) \/ DryPiece(block)
                   \/ PromptPiece(block) \/ HashPiece(block)
          PROVE  /\ request' = request
                 /\ pc \in Busy \ {"sign"} /\ pc' \in Busy \ {"sign"}
      BY <2>2 DEF ReadLength, ReadPath, DryPiece, PromptPiece, HashPiece,
                  BeginPass, BlindPath
    <2> QED BY <1>2, <2>1, <2>2 DEF HostAnswers
  <1>3. CASE UserAnswers
    <2>1. CASE WarnDisabled
      BY <2>1 DEF WarnDisabled
    <2>2. ASSUME NEW answer \in BOOLEAN,
                 ShowPrompt(answer) \/ Warn(answer) \/ ShowHash(answer)
                   \/ Accept(answer)
          PROVE  /\ request' = request
                 /\ pc \in Busy \ {"sign"} /\ pc' \in Busy \ {"sign"}
      <3>1. CASE ShowPrompt(answer)
        BY <3>1 DEF ShowPrompt, InPiece
      <3>2. CASE Warn(answer)
        BY <3>2 DEF Warn, BeginPass
      <3>3. CASE ShowHash(answer) \/ Accept(answer)
        BY <3>3 DEF ShowHash, Accept
      <3> QED BY <2>2, <3>1, <3>2, <3>3
    <2> QED BY <1>3, <2>1, <2>2 DEF UserAnswers
  <1>4. CASE Handler
    <2>1. CASE EndOfChain
      BY <2>1, <1>1 DEF EndOfChain
    <2> QED BY <1>4, <2>1 DEF Handler, DryEnd, ShowPanics, PieceShown, PromptEnd,
               HashEnd, SignFails, BeginPass
  <1>5. CASE Environment
    BY <1>5 DEF Environment, StartWithoutParams, WrongAnswer, Stop
  <1> QED BY <1>2, <1>3, <1>4, <1>5 DEF Next

\* A blind signature is made only while the setting is on.
THEOREM BlindWhileOn == Spec => BlindNeedsSetting
  <1>1. ASSUME SignInv, [Next]_vars, pc' = "signed", pc # "signed", ~known_txn
        PROVE  settings = 1
    <2>1. Next
      BY <1>1 DEF vars
    <2>2. CASE Sign
      BY <1>1, <2>2 DEF Sign, SignInv, ConsentInv, TypeOK, ControlType, AfterHash,
                        Busy, Reading, Asking
    <2>3. CASE ~Sign
      <3>1. ~Start /\ ~ToggleSettings /\ ~\E how \in {"idle", "panicked"} : Drop(how)
        BY <1>1 DEF Start, Begin, ToggleSettings, Drop
      <3>2. pc' \in Busy
        BY <1>1, <2>1, <2>3, <3>1, OpenSteps
      <3> QED BY <1>1, <3>2 DEF Busy, Reading, Asking
    <2> QED BY <2>2, <2>3
  <1>2. SignInv /\ [Next]_vars
          => [pc' = "signed" /\ pc # "signed" /\ ~known_txn => settings = 1]_vars
    BY <1>1
  <1> QED BY <1>2, SignInvariant, PTL DEF Spec, BlindNeedsSetting

-----------------------------------------------------------------------------
(* Every request runs out of steps *)

\* No piece has more than four prompts.
LEMMA PromptsFew ==
    ASSUME NEW p \in Piece
    PROVE  Len(Prompts(p)) \in 0..4
  <1>1. Len(SendPrompts(p)) = 4 /\ Len(FeePrompts(p)) = 1
    BY DEF SendPrompts, FeePrompts
  <1>2. Len(StakePrompts(p)) \in 1..4
    BY DEF StakePrompts, ShowString, ShowCoin
  <1>3. Len(DepositPrompts(p)) \in 0..3
    BY DEF DepositPrompts, ShowString, ShowCoin
  <1>4. Prompts(p) \in {SendPrompts(p), FeePrompts(p), StakePrompts(p),
                        DepositPrompts(p), <<>>}
    BY DEF Piece, Prompts, Kinds
  <1> QED BY <1>1, <1>2, <1>3, <1>4

\* What is left is a number, and something is left of a request that is open.
LEMMA StepsLeftType ==
    ASSUME SignInv
    PROVE  StepsLeft \in Nat /\ (pc \in Busy => StepsLeft > 0)
  <1>1. length \in Nat /\ left \in Nat /\ step \in Nat /\ piece \in Piece
    BY DEF SignInv, TypeOK, DataType
  <1>2. CASE pc = "length"
    <2>1. Head(request.tx).n \in Nat
      BY <1>2, RequestGiven, RequestParts DEF SignInv
    <2> QED BY <1>2, <2>1 DEF StepsLeft, PerPiece
  <1>3. CASE pc = "show"
    <2> DEFINE m == Len(Prompts(piece))
    <2>1. m \in Nat /\ step <= m + 1
      BY <1>1, <1>3, PromptsFew DEF SignInv, ShownInv
    <2>2. StepsLeft = 5 + length + PerPiece * left + (m + 2 - step)
      BY <1>3 DEF StepsLeft
    <2> HIDE DEF m
    <2> QED BY <1>1, <2>1, <2>2 DEF PerPiece
  <1>4. CASE pc \in {"path", "dry", "prompt"}
    <2>1. StepsLeft \in {7 + (PerPiece + 2) * length,
                        6 + (PerPiece + 1) * length + left,
                        5 + length + PerPiece * left}
      BY <1>4 DEF StepsLeft
    <2> QED BY <1>1, <2>1 DEF PerPiece
  <1>5. CASE pc \in {"warn", "hash", "show_hash", "accept", "sign", "warn_disabled"}
    BY <1>1, <1>5 DEF StepsLeft
  <1>6. CASE pc \notin Busy
    BY <1>6 DEF StepsLeft, Busy, Reading, Asking
  <1> QED BY <1>2, <1>3, <1>4, <1>5, <1>6 DEF Busy, Reading, Asking

\* A request that ends needs nothing more.
LEMMA EndCounts ==
    ASSUME SignInv, pc \in Busy, pc' \notin Busy
    PROVE  StepsLeft' \in 0..(StepsLeft - 1)
  <1>1. StepsLeft' = 0
    BY DEF StepsLeft, Busy, Reading, Asking
  <1> QED BY <1>1, StepsLeftType

\* The dry pass is followed by the pass that hashes, or by the end.
LEMMA BlindCounts ==
    ASSUME SignInv, pc = "dry", BlindPath, UNCHANGED length
    PROVE  StepsLeft' \in 0..(StepsLeft - 1)
  <1>1. length \in Nat /\ left \in Nat
    BY DEF SignInv, TypeOK, DataType
  <1>2. StepsLeft = 6 + (PerPiece + 1) * length + left
    BY DEF StepsLeft
  <1>3. StepsLeft' \in {1, 5 + length}
    BY DEF BlindPath, StepsLeft
  <1> QED BY <1>1, <1>2, <1>3 DEF PerPiece

LEMMA ReadFailsCounts ==
    ASSUME SignInv, NeedsBlock, ReadFails
    PROVE  StepsLeft' \in 0..(StepsLeft - 1)
  <1>1. pc \in Busy
    BY DEF NeedsBlock, Busy, Reading
  <1>2. CASE pc = "dry"
    BY <1>2, BlindCounts DEF ReadFails
  <1>3. CASE pc # "dry"
    BY <1>1, <1>3, EndCounts DEF ReadFails, Drop, Busy, Reading, Asking
  <1> QED BY <1>2, <1>3

\* The length says how often each pass may read.
LEMMA ReadLengthCounts ==
    ASSUME SignInv, SignInv', NEW block \in Blocks, ReadLength(block)
    PROVE  StepsLeft' \in 0..(StepsLeft - 1)
  <1>1. pc = "length" /\ pc' = "path" /\ request' = request
    BY DEF ReadLength
  <1>2. length' \in Nat /\ length' = Head(request.tx).n
    BY <1>1 DEF SignInv, TypeOK, DataType, ChainInv, AfterLength, Busy, Reading
  <1>3. StepsLeft = 8 + (PerPiece + 2) * length'
    BY <1>1, <1>2 DEF StepsLeft
  <1>4. StepsLeft' = 7 + (PerPiece + 2) * length'
    BY <1>1 DEF StepsLeft
  <1> QED BY <1>2, <1>3, <1>4 DEF PerPiece

LEMMA BlocksCount ==
    ASSUME SignInv, SignInv', NEW block \in Blocks,
           ReadPath(block) \/ DryPiece(block) \/ PromptPiece(block) \/ HashPiece(block)
    PROVE  StepsLeft' \in 0..(StepsLeft - 1)
  <1>1. length \in Nat /\ left \in Nat /\ pc \in Busy
    BY DEF SignInv, TypeOK, DataType, ReadPath, DryPiece, PromptPiece, HashPiece, Busy,
           Reading
  <1>2. CASE pc' \notin Busy
    BY <1>1, <1>2, EndCounts
  <1>3. CASE ReadPath(block) /\ pc' \in Busy
    <2>1. pc = "path" /\ pc' = "dry" /\ length' = length /\ left' = length
      BY <1>3 DEF ReadPath, Drop, BeginPass, Busy, Reading, Asking
    <2> QED BY <1>1, <2>1 DEF StepsLeft, PerPiece
  <1>4. CASE DryPiece(block) /\ DryAccepts(block.data)
    <2>1. pc = "dry" /\ pc' = "dry" /\ length' = length /\ left' = left - 1 /\ left > 0
      BY <1>4 DEF DryPiece, Genuine, Waiting, NeedsBlock
    <2> QED BY <1>1, <2>1 DEF StepsLeft, PerPiece
  <1>5. CASE DryPiece(block) /\ ~DryAccepts(block.data)
    BY <1>5, BlindCounts DEF DryPiece
  <1>6. CASE PromptPiece(block) /\ pc' \in Busy
    <2>1. /\ pc = "prompt" /\ pc' = "show" /\ length' = length /\ left' = left - 1
          /\ left > 0 /\ step' = 1
      BY <1>6 DEF PromptPiece, Genuine, Waiting, NeedsBlock, Drop, Busy, Reading, Asking
    <2> DEFINE m == Len(Prompts(piece'))
    <2>2. m \in 0..4
      BY PromptsFew DEF SignInv, TypeOK, DataType
    <2>3. StepsLeft = 5 + length + PerPiece * left
      BY <2>1 DEF StepsLeft
    <2>4. StepsLeft' = 5 + length + PerPiece * (left - 1) + (m + 2 - 1)
      BY <2>1 DEF StepsLeft
    <2> HIDE DEF m
    <2> QED BY <1>1, <2>1, <2>2, <2>3, <2>4 DEF PerPiece
  <1>7. CASE HashPiece(block)
    <2>1. pc = "hash" /\ pc' = "hash" /\ left' = left - 1 /\ left > 0
      BY <1>7 DEF HashPiece, Genuine, Waiting, NeedsBlock
    <2> QED BY <1>1, <2>1 DEF StepsLeft
  <1> QED BY <1>2, <1>3, <1>4, <1>5, <1>6, <1>7

LEMMA AnswersCount ==
    ASSUME SignInv, UserAnswers
    PROVE  StepsLeft' \in 0..(StepsLeft - 1)
  <1>1. length \in Nat /\ left \in Nat /\ step \in Nat /\ pc \in Busy
    BY DEF SignInv, TypeOK, DataType, UserAnswers, ShowPrompt, InPiece, Warn, ShowHash,
           Accept, WarnDisabled, Busy, Asking
  <1>2. CASE pc' \notin Busy
    BY <1>1, <1>2, EndCounts
  <1>3. ASSUME NEW answer \in BOOLEAN, ShowPrompt(answer), pc' \in Busy
        PROVE  StepsLeft' \in 0..(StepsLeft - 1)
    <2>1. /\ pc = "show" /\ pc' = "show" /\ step' = step + 1
          /\ step <= Len(Prompts(piece)) /\ UNCHANGED <<length, left, piece>>
      BY <1>3 DEF ShowPrompt, InPiece, Drop, Busy, Reading, Asking
    <2> DEFINE m == Len(Prompts(piece))
    <2>2. m \in Nat /\ step <= m
      BY <2>1, PromptsFew DEF SignInv, TypeOK, DataType
    <2>3. StepsLeft = 5 + length + PerPiece * left + (m + 2 - step)
      BY <2>1 DEF StepsLeft
    <2>4. StepsLeft' = 5 + length + PerPiece * left + (m + 2 - (step + 1))
      BY <2>1 DEF StepsLeft
    <2> HIDE DEF m
    <2> QED BY <1>1, <2>2, <2>3, <2>4 DEF PerPiece
  <1>4. ASSUME NEW answer \in BOOLEAN, Warn(answer), pc' \in Busy
        PROVE  StepsLeft' \in 0..(StepsLeft - 1)
    <2>1. pc = "warn" /\ pc' = "hash" /\ left' = length
      BY <1>4 DEF Warn, BeginPass, Drop, Busy, Reading, Asking
    <2> QED BY <1>1, <2>1 DEF StepsLeft
  <1>5. ASSUME NEW answer \in BOOLEAN, ShowHash(answer) \/ Accept(answer), pc' \in Busy
        PROVE  StepsLeft' \in 0..(StepsLeft - 1)
    BY <1>5 DEF ShowHash, Accept, Drop, StepsLeft, Busy, Reading, Asking
  <1>6. CASE WarnDisabled
    BY <1>2, <1>6 DEF WarnDisabled, Drop, Busy, Reading, Asking
  <1> QED BY <1>2, <1>3, <1>4, <1>5, <1>6 DEF UserAnswers

LEMMA HandlerCounts ==
    ASSUME SignInv, Handler
    PROVE  StepsLeft' \in 0..(StepsLeft - 1)
  <1>1. length \in Nat /\ left \in Nat /\ step \in Nat
    BY DEF SignInv, TypeOK, DataType
  <1>2. CASE EndOfChain
    BY <1>2, ReadFailsCounts DEF EndOfChain
  <1>3. CASE DryEnd
    <2>1. /\ pc = "dry" /\ pc' = "prompt" /\ left = 0 /\ left' = length
          /\ length' = length
      BY <1>3 DEF DryEnd, BeginPass
    <2> QED BY <1>1, <2>1 DEF StepsLeft, PerPiece
  <1>4. CASE PieceShown
    <2>1. /\ pc = "show" /\ pc' = "prompt" /\ step > Len(Prompts(piece))
          /\ UNCHANGED <<length, left>>
      BY <1>4 DEF PieceShown
    <2>2. Len(Prompts(piece)) \in Nat /\ step <= Len(Prompts(piece)) + 1
      BY <2>1, PromptsFew DEF SignInv, TypeOK, DataType, ShownInv
    <2> QED BY <1>1, <2>1, <2>2 DEF StepsLeft, PerPiece
  <1>5. CASE PromptEnd
    <2>1. pc = "prompt" /\ pc' = "hash" /\ left = 0 /\ left' = length
      BY <1>5 DEF PromptEnd, BeginPass
    <2> QED BY <1>1, <2>1 DEF StepsLeft, PerPiece
  <1>6. CASE HashEnd
    BY <1>1, <1>6 DEF HashEnd, StepsLeft
  <1>7. CASE ShowPanics \/ Sign \/ SignFails
    BY <1>7, EndCounts
    DEF ShowPanics, InPiece, Sign, SignFails, Drop, Busy, Reading, Asking
  <1> QED BY <1>2, <1>3, <1>4, <1>5, <1>6, <1>7 DEF Handler

\* No request goes on for ever: each of its steps, whoever takes it, leaves fewer
\* to come.  With host and user answering, it ends.
THEOREM RequestsRunOut == Spec => EveryStepCounts
  <1>1. ASSUME SignInv, SignInv', [Next]_vars, pc \in Busy, starts' = starts,
               ~UNCHANGED vars
        PROVE  StepsLeft' \in 0..(StepsLeft - 1)
    <2>1. CASE HostAnswers
      BY <1>1, <2>1, ReadLengthCounts, BlocksCount, ReadFailsCounts
      DEF HostAnswers, HostFailure, Waiting
    <2>2. CASE UserAnswers
      BY <1>1, <2>2, AnswersCount
    <2>3. CASE Handler
      BY <1>1, <2>3, HandlerCounts
    <2>4. CASE Environment
      <3>1. ~Start /\ ~ToggleSettings
        BY <1>1 DEF Start, Begin, ToggleSettings, SignInv, TypeOK, ControlType, Idle,
           Busy, Reading, Asking
      <3>2. Drop("idle")
        BY <2>4, <3>1 DEF Environment, StartWithoutParams, WrongAnswer, Stop
      <3> QED BY <1>1, <3>2, EndCounts DEF Drop, Busy, Reading, Asking
    <2> QED BY <1>1, <2>1, <2>2, <2>3, <2>4 DEF Next
  <1>2. SignInv /\ SignInv' /\ [Next]_vars =>
          [(pc \in Busy /\ starts' = starts) => StepsLeft' \in 0..(StepsLeft - 1)]_vars
    BY <1>1
  <1> QED BY <1>2, SignInvariant, PTL DEF Spec, EveryStepCounts

-----------------------------------------------------------------------------
(* The handler implements SigningPromise *)

\* No other step leads from the question to the signature.
LEMMA AcceptOnly ==
    ASSUME Next, pc = "accept", pc' = "sign"
    PROVE  UNCHANGED <<request, length, input0, known_txn, shown, hashed>>
  <1>1. ~HostAnswers
    BY DEF HostAnswers, ReadLength, ReadPath, DryPiece, PromptPiece, HashPiece,
           HostFailure, Waiting, NeedsBlock
  <1>2. ~Handler
    BY DEF Handler, EndOfChain, NeedsBlock, DryEnd, ShowPanics, InPiece, PieceShown,
           PromptEnd, HashEnd, Sign, SignFails
  <1>3. ~Environment
    BY DEF Environment, Start, Begin, StartWithoutParams, ToggleSettings, WrongAnswer,
           Stop, Drop
  <1>4. \E answer \in BOOLEAN : Accept(answer)
    BY <1>1, <1>2, <1>3 DEF Next, UserAnswers, ShowPrompt, InPiece, Warn, ShowHash,
       WarnDisabled
  <1> QED BY <1>4 DEF Accept, Drop

\* The user's last answer is the consent of the promise.
LEMMA AcceptIsConsent ==
    ASSUME SignInv, SignInv', pc = "accept", pc' = "sign", request' = request,
           UNCHANGED <<length, input0, known_txn, shown, hashed>>
    PROVE  Promise!ConsentInformed \/ Promise!ConsentBlindly
  <1>1. Stage = "open" /\ Stage' = "consented" /\ Signature' = Signature
    BY DEF Stage, Signature
  <1>2. /\ length = Head(request.tx).n /\ input0 = Tail(request.tx)
        /\ length <= Len(input0)
    BY DEF SignInv, ChainInv, PassInv, AfterLength, AfterHash, Busy, Reading, Asking
  <1>3. Promise!Complete(request)
    BY <1>2 DEF Promise!Complete
  <1>4. Promise!Signed(request) = hashed /\ Len(hashed) = length
        /\ \A k \in 1..length : hashed[k] = input0[k]
    BY HashedIsCommitted DEF Promise!Signed, Committed, AfterHash
  <1>5. CASE known_txn = TRUE
    <2>1. \A k \in 1..length : Reviewable(input0[k])
      BY <1>5 DEF SignInv, ShownInv, Reviewed, AfterHash
    <2>2. \A k \in 1..Len(Promise!Signed(request)) :
             Reviewable(Promise!Signed(request)[k])
      BY <2>1, <1>4
    <2> QED BY <1>1, <1>3, <2>2 DEF Promise!ConsentInformed
  <1>6. CASE known_txn = FALSE
    <2>1. request.settings = 1
      BY <1>6 DEF SignInv, ConsentInv, AfterHash
    <2> QED BY <1>1, <1>3, <2>1 DEF Promise!ConsentBlindly
  <1> QED BY <1>5, <1>6 DEF SignInv, TypeOK, ControlType

\* Each step of the handler is one of the promise, or none.
LEMMA StepsAreKept ==
    ASSUME SignInv, SignInv', [Next]_vars
    PROVE  [Promise!Next]_(Promise!vars)
  <1>1. CASE UNCHANGED vars
    BY <1>1 DEF vars, handlerVars, Promise!vars, Stage, Signature
  <1>2. CASE Start
    <2>1. request' \in Request
      BY <1>2 DEF Start, Begin, Request, SignInv, TypeOK, ControlType
    <2>2. Promise!Begin(request')
      BY <1>2 DEF Start, Begin, Promise!Begin, Stage, Signature
    <2> QED BY <2>1, <2>2 DEF Promise!Next
  <1>3. CASE \E how \in {"idle", "panicked"} : Drop(how)
    BY <1>3 DEF Drop, Promise!Next, Promise!Abandon, Stage, Signature
  <1>4. CASE ToggleSettings
    BY <1>4 DEF ToggleSettings, handlerVars, Promise!vars, Stage, Signature
  <1>5. CASE Sign
    <2>1. /\ pc = "sign" /\ pc' = "signed"
          /\ UNCHANGED <<request, path, hashed>>
      BY <1>5 DEF Sign, handlerVars
    <2>2. path = Head(request.path) /\ path.underPrefix
      BY <2>1 DEF SignInv, ChainInv, AfterPath, AfterLength, Busy, Reading, Asking
    <2>3. hashed = Promise!Signed(request)
      BY <2>1, HashedIsCommitted DEF Promise!Signed, Committed, AfterHash
    <2>4. Promise!Release
      BY <2>1, <2>2, <2>3 DEF Promise!Release, Stage, Signature
    <2> QED BY <2>4 DEF Promise!Next
  <1>6. CASE pc = "accept" /\ pc' = "sign" /\ Next
    <2>1. UNCHANGED <<request, length, input0, known_txn, shown, hashed>>
      BY <1>6, AcceptOnly
    <2> QED BY <1>6, <2>1, AcceptIsConsent DEF Promise!Next
  <1>7. CASE /\ Next /\ ~Start /\ ~Sign /\ ~ToggleSettings
             /\ ~\E how \in {"idle", "panicked"} : Drop(how)
             /\ ~(pc = "accept" /\ pc' = "sign")
    <2>1. /\ request' = request
          /\ pc \in Busy \ {"sign"} /\ pc' \in Busy \ {"sign"}
      BY <1>7, OpenSteps
    <2> QED BY <2>1 DEF Promise!vars, Stage, Signature, Busy, Reading, Asking
  <1> QED BY <1>1, <1>2, <1>3, <1>4, <1>5, <1>6, <1>7

\* sign_apdu keeps the promise.
THEOREM PromiseKept == Spec => KeepsPromise
  <1>1. Init => Promise!Init
    BY DEF Init, Promise!Init, Stage, Signature
  <1>2. SignInv /\ SignInv' /\ [Next]_vars => [Promise!Next]_(Promise!vars)
    BY StepsAreKept
  <1> QED BY <1>1, <1>2, SignInvariant, PTL DEF Spec, KeepsPromise, Promise!Spec
=============================================================================
