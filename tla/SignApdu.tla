------------------------------ MODULE SignApdu ------------------------------
(***************************************************************************)
(* sign_apdu of rust-app/src/implementation.rs, driven by the host through *)
(* the block protocol and by the user through the prompts.                 *)
(*                                                                         *)
(* A parameter travels as a chain of blocks, each with the hash of the     *)
(* next.  A hash is taken to be free of collisions, so the hash of a block *)
(* is modelled by all it commits to: the sequence of data from that block  *)
(* to the end of its chain; the zero hash of the last block is <<>>.       *)
(* Every block carries one datum: the length in front of the transaction,  *)
(* one piece of the transaction, or the whole derivation path.             *)
(*                                                                         *)
(* The handler reads the transaction up to three times - to recognize it,  *)
(* to show it, to hash it - and asks the host for its blocks each time.    *)
(***************************************************************************)
EXTENDS Transactions

CONSTANTS
    Transactions1,  \* what a host may chain as first parameter
    Paths2,         \* and as second
    Blocks,         \* [data, next]: the blocks it may answer with
    NoRequest,      \* no request
    MaxStarts       \* bound on the requests of a behaviour

Length == [kind : {"Length"}, n : Nat]
PathData == [kind : {"Path"}, underPrefix : BOOLEAN]

ASSUME Transactions1Assumption ==
    \A t \in Transactions1 :
        /\ t \in Seq(Length \cup Piece) /\ Len(t) > 0 /\ t[1] \in Length
        /\ Tail(t) \in Seq(Piece)
ASSUME Paths2Assumption == \A p \in Paths2 : p \in Seq(PathData) /\ Len(p) > 0
ASSUME BlocksAssumption ==
    Blocks \subseteq [data : Length \cup PathData \cup Piece,
                      next : Seq(Length \cup PathData \cup Piece)]
ASSUME MaxStartsAssumption == MaxStarts \in Nat

\* What START and the closure of app_main leave of a request with two hashes.
Request == [tx : Transactions1, path : Paths2, settings : {0, 1}]

ASSUME NoRequestAssumption == NoRequest \notin Request

VARIABLES
    pc,         \* where the handler is, see Busy below
    request,    \* the hashes of START and the copy of the settings
    cursor,     \* hash of the next block of the ByteStream in use
    length,
    path,
    input0,     \* hash the passes start from: input[0] after the length
    left,       \* what is left of length in this pass
    known_txn,
    piece,      \* the piece being shown,
    step,       \* and which of its prompts is next
    shown,      \* per piece, the prompts the user has seen
    hashed,     \* what SHA256::update got
    consent,    \* the titles of the warnings and questions answered with yes
    settings,   \* the setting itself
    starts      \* requests so far

handlerVars == <<cursor, length, path, input0, left, known_txn, piece, step,
                 shown, hashed, consent>>
vars == <<pc, request, handlerVars, settings, starts>>

NoPath == [kind |-> "Path", underPrefix |-> FALSE]
NoPiece == [kind |-> "Dropped", first |-> "absent", second |-> "absent",
            hasCoin |-> FALSE, coin |-> NoCoin]

\* Reading blocks, showing prompts, and the states without a request.
Reading == {"length", "path", "dry", "prompt", "hash"}
Asking == {"show", "warn_disabled", "warn", "show_hash", "accept"}
Idle == {"idle", "signed"}
Busy == Reading \cup Asking \cup {"sign"}

\* The stream needs a block: the datum it reads next is not here yet.
NeedsBlock ==
    \/ pc \in {"length", "path"}
    \/ pc \in {"dry", "prompt", "hash"} /\ left > 0

\* GET_CHUNK was sent, and the loop waits for the next command.
Waiting == NeedsBlock /\ cursor # <<>>

-----------------------------------------------------------------------------
(* Beginning and end of a request *)

Fresh ==
    /\ cursor' = <<>> /\ length' = 0 /\ path' = NoPath /\ input0' = <<>>
    /\ left' = 0 /\ known_txn' = FALSE /\ piece' = NoPiece /\ step' = 1
    /\ shown' = <<>> /\ hashed' = <<>> /\ consent' = {}

Init ==
    /\ pc = "idle"
    /\ request = NoRequest
    /\ cursor = <<>> /\ length = 0 /\ path = NoPath /\ input0 = <<>>
    /\ left = 0 /\ known_txn = FALSE /\ piece = NoPiece /\ step = 1
    /\ shown = <<>> /\ hashed = <<>> /\ consent = {}
    /\ settings = 0
    /\ starts = 0

\* reject(), or an error in the loop: the request is dropped.
Drop(how) ==
    /\ pc' = how
    /\ request' = NoRequest
    /\ Fresh
    /\ UNCHANGED <<settings, starts>>

\* The future of a START with two hashes.
Begin ==
    /\ starts < MaxStarts
    /\ starts' = starts + 1
    /\ \E tx \in Transactions1, p \in Paths2 :
          /\ request' = [tx |-> tx, path |-> p, settings |-> settings]
          /\ cursor' = tx
    /\ pc' = "length"
    /\ length' = 0 /\ path' = NoPath /\ input0' = <<>> /\ left' = 0
    /\ known_txn' = FALSE /\ piece' = NoPiece /\ step' = 1
    /\ shown' = <<>> /\ hashed' = <<>> /\ consent' = {}
    /\ UNCHANGED settings

\* It takes the place of whatever was pending.  The loop sees no command while
\* a prompt is on the screen.
Start == (pc \in Idle \/ Waiting) /\ Begin

\* START with fewer hashes: get_params::<2> is None.
StartWithoutParams ==
    /\ pc \in Idle \/ Waiting
    /\ Drop("idle")

\* In the idle menu (HandlerSettingsCurrent of EventLoop says why only there).
ToggleSettings ==
    /\ pc \in Idle
    /\ settings' = 1 - settings
    /\ UNCHANGED <<pc, request, handlerVars, starts>>

-----------------------------------------------------------------------------
(* Blocks *)

HashOf(block) == <<block.data>> \o block.next

\* Mutant of Genuine: the hash to sign reads blocks that only link on right.
GenuineLink(block) ==
    /\ Waiting
    /\ IF pc = "hash" THEN block.next = Tail(cursor) ELSE HashOf(block) = cursor

\* get_chunk: the block the host answers with has the hash asked for.
Genuine(block) == Waiting /\ HashOf(block) = cursor

\* Mutant of BeginPass: input[0] is not cloned, and read on.
BeginPassReadsOn(pass) ==
    /\ pc' = pass
    /\ cursor' = IF pc = "path" THEN input0' ELSE cursor
    /\ left' = length'

\* A pass reads length bytes of a clone of input[0].
BeginPass(pass) ==
    /\ pc' = pass
    /\ cursor' = input0'
    /\ left' = length'

\* Mutant of BlindPath: the setting is not looked at.
BlindPathAlways ==
    /\ known_txn' = FALSE
    /\ pc' = "warn"

\* The transaction is not recognized.
BlindPath ==
    /\ known_txn' = FALSE
    /\ pc' = IF request.settings = 0 THEN "warn_disabled" ELSE "warn"

\* Anything but the block that is due ends the request with an error.
WrongAnswer == Waiting /\ Drop("idle")

\* GET_CHUNK_RESPONSE_FAILURE, and a chain that ends too early, reject inside
\* the read.  The dry pass runs in a TryFuture, which makes None of that.
ReadFails ==
    IF pc = "dry"
    THEN /\ BlindPath
         /\ UNCHANGED <<request, cursor, length, path, input0, left, piece,
                        step, shown, hashed, consent, settings, starts>>
    ELSE Drop("idle")

HostFailure == Waiting /\ ReadFails

\* Mutant of EndOfChain: the dry pass waits for a block after the last.
EndOfChainNever == NeedsBlock /\ cursor = <<>> /\ pc # "dry" /\ ReadFails

EndOfChain == NeedsBlock /\ cursor = <<>> /\ ReadFails

-----------------------------------------------------------------------------
(* sign_apdu, in the order of the code *)

ReadLength(block) ==
    /\ pc = "length"
    /\ Genuine(block)
    /\ block.data \in Length
    /\ length' = block.data.n
    /\ input0' = block.next
    /\ cursor' = request.path
    /\ pc' = "path"
    /\ UNCHANGED <<request, path, left, known_txn, piece, step, shown, hashed,
                   consent, settings, starts>>

\* Mutant of ReadPath: the prefix is not compared.
ReadPathAny(block) ==
    /\ pc = "path"
    /\ Genuine(block)
    /\ block.data \in PathData
    /\ path' = block.data
    /\ UNCHANGED <<length, input0>>
    /\ BeginPass("dry")
    /\ UNCHANGED <<request, known_txn, piece, step, shown, hashed, consent,
                   settings, starts>>

ReadPath(block) ==
    /\ pc = "path"
    /\ Genuine(block)
    /\ block.data \in PathData
    /\ IF block.data.underPrefix
       THEN /\ path' = block.data
            /\ UNCHANGED <<length, input0>>
            /\ BeginPass("dry")
            /\ UNCHANGED <<request, known_txn, piece, step, shown, hashed,
                           consent, settings, starts>>
       ELSE Drop("idle")

\* The pass without prompts.
DryPiece(block) ==
    /\ pc = "dry"
    /\ Genuine(block)
    /\ block.data \in Piece
    /\ cursor' = block.next
    /\ IF DryAccepts(block.data)
       THEN left' = left - 1 /\ UNCHANGED <<pc, known_txn>>
       ELSE BlindPath /\ UNCHANGED left
    /\ UNCHANGED <<request, length, path, input0, piece, step, shown, hashed,
                   consent, settings, starts>>

\* Mutant of DryEnd: a chain that ends early is taken for a whole one.
DryEndEarly ==
    /\ pc = "dry" /\ (left = 0 \/ cursor = <<>>)
    /\ known_txn' = TRUE
    /\ UNCHANGED <<length, input0>>
    /\ BeginPass("prompt")
    /\ UNCHANGED <<request, path, piece, step, shown, hashed, consent,
                   settings, starts>>

DryEnd ==
    /\ pc = "dry" /\ left = 0
    /\ known_txn' = TRUE
    /\ UNCHANGED <<length, input0>>
    /\ BeginPass("prompt")
    /\ UNCHANGED <<request, path, piece, step, shown, hashed, consent,
                   settings, starts>>

\* The pass with prompts, piece by piece.
PromptPiece(block) ==
    /\ pc = "prompt"
    /\ Genuine(block)
    /\ block.data \in Piece
    /\ IF DryAccepts(block.data)
       THEN /\ cursor' = block.next
            /\ left' = left - 1
            /\ piece' = block.data
            /\ step' = 1
            /\ shown' = Append(shown, {})
            /\ pc' = "show"
            /\ UNCHANGED <<request, length, path, input0, known_txn, hashed,
                           consent, settings, starts>>
       ELSE Drop("idle")

InPiece == pc = "show" /\ step <= Len(Prompts(piece))
current == Prompts(piece)[step]

\* Mutant of ShowPrompt: a prompt that cannot be drawn is passed over.
ShowPromptPassesOver(answer) ==
    /\ InPiece
    /\ current.draws # "panic"
    /\ IF current.checked /\ current.draws = "ok" /\ ~answer
       THEN Drop("idle")
       ELSE /\ shown' = IF current.draws = "ok"
                        THEN [shown EXCEPT ![Len(shown)] = @ \cup {current}]
                        ELSE shown
            /\ step' = step + 1
            /\ UNCHANGED <<pc, request, cursor, length, path, input0, left,
                           known_txn, piece, hashed, consent, settings, starts>>

\* Mutant of ShowPrompt: a prompt that nothing depends on stays until it is
\* answered with yes.
ShowPromptInsists(answer) ==
    /\ InPiece
    /\ current.draws # "panic"
    /\ IF current.checked /\ (current.draws = "none" \/ ~answer)
       THEN Drop("idle")
       ELSE /\ shown' = IF current.draws = "ok"
                        THEN [shown EXCEPT ![Len(shown)] = @ \cup {current}]
                        ELSE shown
            /\ step' = IF answer THEN step + 1 ELSE step
            /\ UNCHANGED <<pc, request, cursor, length, path, input0, left,
                           known_txn, piece, hashed, consent, settings, starts>>

\* One prompt.  What cannot be drawn answers None, whatever the user does.
ShowPrompt(answer) ==
    /\ InPiece
    /\ current.draws # "panic"
    /\ IF current.checked /\ (current.draws = "none" \/ ~answer)
       THEN Drop("idle")
       ELSE /\ shown' = IF current.draws = "ok"
                        THEN [shown EXCEPT ![Len(shown)] = @ \cup {current}]
                        ELSE shown
            /\ step' = step + 1
            /\ UNCHANGED <<pc, request, cursor, length, path, input0, left,
                           known_txn, piece, hashed, consent, settings, starts>>

\* The empty amount (PanicOnlyOnEmpty of AmountDecimals).
ShowPanics ==
    /\ InPiece
    /\ current.draws = "panic"
    /\ Drop("panicked")

PieceShown ==
    /\ pc = "show" /\ step > Len(Prompts(piece))
    /\ pc' = "prompt"
    /\ piece' = NoPiece
    /\ step' = 1
    /\ UNCHANGED <<request, cursor, length, path, input0, left, known_txn,
                   shown, hashed, consent, settings, starts>>

PromptEnd ==
    /\ pc = "prompt" /\ left = 0
    /\ UNCHANGED <<length, input0>>
    /\ BeginPass("hash")
    /\ UNCHANGED <<request, path, known_txn, piece, step, shown, hashed,
                   consent, settings, starts>>

\* Blind signing is off: the warning, then reject().
WarnDisabled == pc = "warn_disabled" /\ Drop("idle")

\* Blind signing is on: the warning has to be confirmed.
Warn(answer) ==
    /\ pc = "warn"
    /\ IF answer
       THEN /\ consent' = consent \cup {"WARNING"}
            /\ UNCHANGED <<length, input0>>
            /\ BeginPass("hash")
            /\ UNCHANGED <<request, path, known_txn, piece, step, shown,
                           hashed, settings, starts>>
       ELSE Drop("idle")

\* The pass that hashes.
HashPiece(block) ==
    /\ pc = "hash"
    /\ Genuine(block)
    /\ block.data \in Piece
    /\ cursor' = block.next
    /\ left' = left - 1
    /\ hashed' = Append(hashed, block.data)
    /\ UNCHANGED <<pc, request, length, path, input0, known_txn, piece, step,
                   shown, consent, settings, starts>>

\* Mutant of HashEnd: the hash is shown to nobody.
HashEndSkips ==
    /\ pc = "hash" /\ left = 0
    /\ pc' = "accept"
    /\ UNCHANGED <<request, handlerVars, settings, starts>>

HashEnd ==
    /\ pc = "hash" /\ left = 0
    /\ pc' = IF known_txn THEN "accept" ELSE "show_hash"
    /\ UNCHANGED <<request, handlerVars, settings, starts>>

ShowHash(answer) ==
    /\ pc = "show_hash"
    /\ IF answer
       THEN /\ consent' = consent \cup {"TransactionHash"}
            /\ pc' = "accept"
            /\ UNCHANGED <<request, cursor, length, path, input0, left,
                           known_txn, piece, step, shown, hashed, settings,
                           starts>>
       ELSE Drop("idle")

FinalQuestion ==
    IF known_txn THEN "SignTransaction" ELSE "BlindSignTransaction"

Accept(answer) ==
    /\ pc = "accept"
    /\ IF answer
       THEN /\ consent' = consent \cup {FinalQuestion}
            /\ pc' = "sign"
            /\ UNCHANGED <<request, cursor, length, path, input0, left,
                           known_txn, piece, step, shown, hashed, settings,
                           starts>>
       ELSE Drop("idle")

\* derive_from_path, deterministic_sign and format_signature succeed, and
\* result_final carries the signature over what was hashed ...
Sign ==
    /\ pc = "sign"
    /\ pc' = "signed"
    /\ UNCHANGED <<request, handlerVars, settings, starts>>

\* ... or one of them fails.
SignFails == pc = "sign" /\ Drop("idle")

\* The supply is lost, the application quits, or a panic ends it; it starts
\* again with nothing left of the request (LoopPromise has the setting).
Stop ==
    /\ pc # "idle"
    /\ Drop("idle")

-----------------------------------------------------------------------------
(* Who takes a step *)

HostAnswers ==
    \/ \E block \in Blocks :
          \/ ReadLength(block) \/ ReadPath(block) \/ DryPiece(block)
          \/ PromptPiece(block) \/ HashPiece(block)
    \/ HostFailure

UserAnswers ==
    \/ \E answer \in BOOLEAN :
          ShowPrompt(answer) \/ Warn(answer) \/ ShowHash(answer) \/ Accept(answer)
    \/ WarnDisabled

Handler ==
    \/ EndOfChain \/ DryEnd \/ ShowPanics \/ PieceShown \/ PromptEnd \/ HashEnd
    \/ Sign \/ SignFails

Environment ==
    Start \/ StartWithoutParams \/ ToggleSettings \/ WrongAnswer \/ Stop

Next == HostAnswers \/ UserAnswers \/ Handler \/ Environment

Spec == Init /\ [][Next]_vars

\* The handler is polled when the host answers and when the user does; it
\* waits for both.
FairSpec ==
    /\ Spec
    /\ WF_vars(HostAnswers)
    /\ WF_vars(UserAnswers)
    /\ WF_vars(Handler)

-----------------------------------------------------------------------------
(* Properties *)

\* The request committed to these pieces: START fixed them, by their hash.
Committed == SubSeq(Tail(request.tx), 1, Head(request.tx).n)

ControlType ==
    /\ pc \in Idle \cup Busy \cup {"panicked"}
    /\ request \in Request \cup {NoRequest}
    /\ request = NoRequest <=> pc \in {"idle", "panicked"}
    /\ known_txn \in BOOLEAN
    /\ consent \subseteq {"WARNING", "TransactionHash", "SignTransaction",
                          "BlindSignTransaction"}
    /\ settings \in {0, 1}
    /\ starts \in 0..MaxStarts

DataType ==
    /\ cursor \in Seq(Length \cup PathData \cup Piece)
    /\ length \in Nat
    /\ path \in PathData
    /\ input0 \in Seq(Piece)
    /\ left \in Nat
    /\ piece \in Piece
    /\ step \in Nat \ {0}
    /\ shown \in Seq(SUBSET PromptKind)
    /\ hashed \in Seq(Piece)

\* Every variable keeps its type.
TypeOK == ControlType /\ DataType

\* What you see is what you sign.  The passes ask an untrusted host for the
\* blocks again, yet a transaction signed as recognized is the one START
\* committed to, the user saw every prompt of every piece of it that can be
\* drawn, and no checked prompt was missing.
ReviewedIsSigned ==
    pc = "signed" /\ known_txn =>
        /\ hashed = Committed
        /\ Len(shown) = Len(hashed)
        /\ \A k \in 1..Len(hashed) :
              shown[k] = Drawn(hashed[k]) /\ Reviewable(hashed[k])
        /\ consent = {"SignTransaction"}

\* A transaction signed unseen is the one START committed to, blind signing was
\* on, and the user confirmed the warning, the hash and the question.
BlindSignatureNeedsConsent ==
    pc = "signed" /\ ~known_txn =>
        /\ hashed = Committed
        /\ request.settings = 1
        /\ consent = {"WARNING", "TransactionHash", "BlindSignTransaction"}

\* A recognized transaction is read to its end again without surprise: what
\* the dry pass accepted, the passes after it find once more.
RecognizedStaysRecognized ==
    known_txn /\ pc \in {"prompt", "show", "hash"} =>
        /\ left <= Len(cursor)
        /\ \A k \in 1..left : cursor[k] \in Piece /\ DryAccepts(cursor[k])

\* The setting that allowed a blind signature when the request came is still
\* on when the signature is made.
BlindNeedsSetting ==
    [][pc' = "signed" /\ pc # "signed" /\ ~known_txn => settings = 1]_vars

\* How many pieces of input[0] this pass has read.
Done == length - left

AfterLength == (Busy \ {"length"}) \cup {"signed"}
AfterPath == AfterLength \ {"path"}
InPass == {"dry", "prompt", "show", "hash"}
AfterHash == {"show_hash", "accept", "sign", "signed"}

\* What has been read is what START committed to.
ChainInv ==
    /\ pc = "length" => cursor = request.tx
    /\ pc = "path" => cursor = request.path
    /\ pc \in AfterLength =>
          length = Head(request.tx).n /\ input0 = Tail(request.tx)
    /\ pc \in AfterPath =>
          path = Head(request.path) /\ path.underPrefix = TRUE

\* Where a pass is: the cursor has the pieces from Done on, those before it have
\* been accepted, shown or hashed.
PassInv ==
    /\ pc \in InPass =>
          /\ left <= length /\ Done + Len(cursor) = Len(input0)
          /\ \A k \in 1..Len(cursor) : cursor[k] = input0[Done + k]
    /\ pc \in {"prompt", "show"} => known_txn = TRUE
    /\ pc \in {"length", "path", "dry", "warn_disabled", "warn", "show_hash"} =>
          known_txn = FALSE
    /\ pc = "dry" => \A k \in 1..Done : DryAccepts(input0[k])
    /\ known_txn = TRUE =>
          /\ length <= Len(input0)
          /\ \A k \in 1..length : DryAccepts(input0[k])
    /\ pc \in AfterHash => left = 0 /\ length <= Len(input0)
    /\ pc \notin {"hash"} \cup AfterHash => hashed = <<>>
    /\ pc \in {"hash"} \cup AfterHash =>
          /\ Len(hashed) = Done
          /\ \A k \in 1..Done : hashed[k] = input0[k]

\* The pieces before this one were shown to the last prompt that can be drawn,
\* and this one up to the prompt that comes next.
Reviewed(n) ==
    \A k \in 1..n : shown[k] = Drawn(input0[k]) /\ Reviewable(input0[k])

ShownInv ==
    /\ pc \in {"length", "path", "dry"} => shown = <<>>
    /\ pc \in {"prompt", "show"} => Len(shown) = Done
    /\ pc = "prompt" => Reviewed(Done)
    /\ pc = "show" =>
          /\ Done > 0 /\ piece = input0[Done]
          /\ Reviewed(Done - 1)
          /\ step <= Len(Prompts(piece)) + 1
          /\ shown[Done] = DrawnOf(piece, step - 1)
          /\ \A k \in 1..(step - 1) :
                Prompts(piece)[k].checked => Prompts(piece)[k].draws = "ok"
    /\ pc \in {"hash"} \cup AfterHash /\ known_txn = TRUE =>
          Len(shown) = length /\ Reviewed(length)

\* What has been asked and answered with yes at each point, and what that
\* presupposes.
ConsentInv ==
    /\ known_txn = TRUE =>
          consent = IF pc \in {"sign", "signed"} THEN {"SignTransaction"} ELSE {}
    /\ known_txn = FALSE =>
          /\ pc \notin {"hash"} \cup AfterHash => consent = {}
          /\ pc \in {"hash", "show_hash"} => consent = {"WARNING"}
          /\ pc = "accept" => consent = {"WARNING", "TransactionHash"}
          /\ pc \in {"sign", "signed"} =>
                consent = {"WARNING", "TransactionHash", "BlindSignTransaction"}
    /\ pc \in Busy => request.settings = settings
    /\ pc \in {"warn", "hash"} \cup AfterHash /\ known_txn = FALSE =>
          request.settings = 1

\* Whatever the host sends, in whatever pass: what the handler has read, shown,
\* hashed and asked so far belongs to the one request START made.  The
\* conjunction that every step preserves.
SignInv == TypeOK /\ ChainInv /\ PassInv /\ ShownInv /\ ConsentInv

\* What a request may still take, at most: for each of the passes to come, a turn
\* for each block, with up to four prompts and the end of the piece while it is
\* shown; and one for each thing that is done in between.
PerPiece == 6

StepsLeft ==
    CASE pc = "length" -> 8 + (PerPiece + 2) * Head(request.tx).n
      [] pc = "path"   -> 7 + (PerPiece + 2) * length
      [] pc = "dry"    -> 6 + (PerPiece + 1) * length + left
      [] pc = "prompt" -> 5 + length + PerPiece * left
      [] pc = "show"   -> 5 + length + PerPiece * left
                            + (Len(Prompts(piece)) + 2 - step)
      [] pc = "warn"   -> 5 + length
      [] pc = "hash"   -> 4 + left
      [] pc = "show_hash" -> 3
      [] pc = "accept"    -> 2
      [] pc \in {"sign", "warn_disabled"} -> 1
      [] OTHER -> 0

\* Until another START, every step of a request brings its end nearer, whatever
\* host and user do: the passes over the same chain are three and no more, none
\* of them stands still, and no prompt comes back.
EveryStepCounts ==
    [][(pc \in Busy /\ starts' = starts) => StepsLeft' \in 0..(StepsLeft - 1)]_vars

\* Whatever the host and the user answer, a request comes to an end.
EveryRequestEnds == pc \in Busy ~> pc \notin Busy

\* The signature, and SigningPromise with what the handler makes of its
\* variables.
Signature == IF pc = "signed" THEN [path |-> path, txn |-> hashed] ELSE NoRequest

Stage ==
    IF pc = "signed" THEN "released"
    ELSE IF pc = "sign" THEN "consented"
    ELSE IF pc \in {"idle", "panicked"} THEN "idle"
    ELSE "open"

Promise == INSTANCE SigningPromise
    WITH Requests <- Request, NoSignature <- NoRequest, stage <- Stage,
         commitment <- request, signature <- Signature

\* sign_apdu keeps the promise: the detail of blocks, passes and prompts adds
\* no behaviour that a reader of SigningPromise would not expect.
KeepsPromise == Promise!Spec

\* signing-tests.ts:37 and 42 expect the "From" and "To" prompts of a send
\* transaction.  Whoever signs one has seen both.
SendShowsParties ==
    pc = "signed" /\ known_txn =>
        \A k \in 1..Len(hashed) :
            hashed[k].kind = "Send" =>
                {"From", "To"} \subseteq {p.title : p \in shown[k]}
=============================================================================
