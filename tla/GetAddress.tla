------------------------------ MODULE GetAddress ------------------------------
(***************************************************************************)
(* get_address_apdu of rust-app/src/implementation.rs, the handler of both *)
(* VERIFY_ADDRESS and GET_PUBKEY, with the derivation path read byte by    *)
(* byte.  The host cuts the bytes of its parameter into blocks as it likes *)
(* and chains them as in SignApdu: the hash of a block is modelled by the  *)
(* sequence of blocks from there on, which it commits to.                  *)
(***************************************************************************)
EXTENDS Naturals, Sequences, SequencesExt

CONSTANTS
    Radix,         \* 256, the values of a byte
    StepBytes,     \* 4, the bytes of a U32
    MaxSteps,      \* 10, the capacity of Bip32Key
    BIP32_PREFIX,  \* m/44'/505'/0'
    Params,        \* what a host may chain: blocks, each a sequence of bytes
    Blocks,        \* [data, next]: the blocks it may answer with
    NoRequest      \* no request

ASSUME SizesAssumption ==
    Radix \in Nat \ {0} /\ StepBytes \in Nat \ {0} /\ MaxSteps \in Nat

Byte == 0..(Radix - 1)

ASSUME ParamsAssumption == \A p \in Params : p \in Seq(Seq(Byte)) /\ Len(p) > 0
ASSUME AddressBlocksAssumption ==
    Blocks \subseteq [data : Seq(Byte), next : Seq(Seq(Byte))]
ASSUME PrefixAssumption == BIP32_PREFIX \in Seq(Nat) /\ Len(BIP32_PREFIX) >= 2

Request == [param : Params, prompt : BOOLEAN]

ASSUME NoAddressRequestAssumption == NoRequest \notin Request

VARIABLES
    pc,        \* where the handler is
    request,   \* the hash of START, and which of the two instructions it is
    cursor,    \* hash of the next block
    unread,    \* the bytes of the last block that are not read yet
    left,      \* the steps still to come
    word,      \* the bytes of the step being read
    path,
    shown,     \* the address the user has seen
    declined,  \* whether the user said no to anything
    result

readVars == <<cursor, unread, left, word, path>>
vars == <<pc, request, readVars, shown, declined, result>>

Reading == {"count", "steps"}
Asking == {"provide", "address", "confirm"}
Idle == {"idle", "answered"}
Busy == Reading \cup Asking \cup {"check", "derive", "result"}

\* get_pubkey and get_pkh: a key and an address for each path.
KeyOf(p) == [key |-> p]
AddressOf(p) == [pkh |-> KeyOf(p)]

NoResult == [pubkey |-> KeyOf(<<>>), address |-> AddressOf(<<>>)]

\* Mutant of LittleEndian: the first byte is the most significant one.
BigEndian(w) ==
    LET upTo[k \in 0..Len(w)] ==
            IF k = 0 THEN 0 ELSE upTo[k - 1] * Radix + w[k]
    IN  upTo[Len(w)]

\* The value of a U32, from its most significant byte on.
LittleEndian(w) ==
    LET upTo[k \in 0..Len(w)] ==
            IF k = 0 THEN 0 ELSE upTo[k - 1] * Radix + w[Len(w) + 1 - k]
    IN  upTo[Len(w)]

\* GET_CHUNK was sent, and the loop waits for the next command.
Waiting == pc \in Reading /\ unread = <<>> /\ cursor # <<>>

-----------------------------------------------------------------------------
(* Beginning and end of a request *)

Clear ==
    /\ unread' = <<>> /\ left' = 0 /\ word' = <<>>
    /\ path' = <<>> /\ shown' = NoResult.address /\ declined' = FALSE
    /\ result' = NoResult

Init ==
    /\ pc = "idle" /\ request = NoRequest /\ cursor = <<>>
    /\ unread = <<>> /\ left = 0 /\ word = <<>>
    /\ path = <<>> /\ shown = NoResult.address /\ declined = FALSE
    /\ result = NoResult

\* The future of a START with a hash ...
Begin(param, prompt) ==
    /\ pc' = "count"
    /\ request' = [param |-> param, prompt |-> prompt]
    /\ cursor' = param
    /\ Clear

\* ... takes the place of whatever was pending.
Start(param, prompt) == (pc \in Idle \/ Waiting) /\ Begin(param, prompt)

\* reject(), an error in the loop, a START for something else, a lost supply.
Drop == pc' = "idle" /\ request' = NoRequest /\ cursor' = <<>> /\ Clear

\* START without a hash: get_params::<1> is None.
StartWithoutParams == (pc \in Idle \/ Waiting) /\ Drop

-----------------------------------------------------------------------------
(* Reading BIP_PATH_PARSER from the stream *)

\* get_chunk: the block the host answers with has the hash asked for.
Fetch(block) ==
    /\ Waiting
    /\ <<block.data>> \o block.next = cursor
    /\ unread' = block.data
    /\ cursor' = block.next
    /\ UNCHANGED <<pc, request, left, word, path, shown, declined, result>>

\* Anything else, no block at all, or a chain that ends too early.
WrongAnswer == Waiting /\ Drop
HostFailure == Waiting /\ Drop
EndOfChain == pc \in Reading /\ unread = <<>> /\ cursor = <<>> /\ Drop

\* The Byte in front of the DArray.
ReadCount ==
    /\ pc = "count" /\ unread # <<>>
    /\ left' = Head(unread)
    /\ unread' = Tail(unread)
    /\ pc' = IF left' = 0 THEN "check" ELSE "steps"
    /\ UNCHANGED <<request, cursor, word, path, shown, declined, result>>

\* Mutant of LastByte: a block ends the step that it ends in.
LastByteOfBlock == Len(word) + 1 = StepBytes \/ Len(unread) = 1

\* The next byte is the last of a U32.
LastByte == Len(word) + 1 = StepBytes

\* A byte of a little-endian U32 that is not its last.
ReadByte ==
    /\ pc = "steps" /\ unread # <<>>
    /\ ~LastByte
    /\ word' = Append(word, Head(unread))
    /\ unread' = Tail(unread)
    /\ UNCHANGED <<pc, request, cursor, left, path, shown, declined, result>>

\* Mutant of Full: one step too many.
FullLate == Len(path) > MaxSteps

\* Mutant of Full: the last place of the ArrayVec is never used.
FullEarly == Len(path) + 1 = MaxSteps

\* The ArrayVec has no room for another step.
Full == Len(path) = MaxSteps

\* The last byte of a step, which goes into the ArrayVec.
ReadStep ==
    /\ pc = "steps" /\ unread # <<>>
    /\ LastByte
    /\ IF Full
       THEN Drop
       ELSE /\ path' = Append(path, LittleEndian(Append(word, Head(unread))))
            /\ unread' = Tail(unread)
            /\ word' = <<>>
            /\ left' = left - 1
            /\ pc' = IF left' = 0 THEN "check" ELSE "steps"
            /\ UNCHANGED <<request, cursor, shown, declined, result>>

-----------------------------------------------------------------------------
(* get_address_apdu after the path *)

\* Two steps of the prefix are compared, so m/44'/505' itself is accepted.
UnderPrefix(p) == IsPrefix(SubSeq(BIP32_PREFIX, 1, 2), p)

At(label) == pc' = label /\ UNCHANGED <<request, readVars, shown, declined, result>>

\* Mutant of CheckPrefix: any path will do.
CheckPrefixNot == pc = "check" /\ At("derive")

CheckPrefix ==
    /\ pc = "check"
    /\ IF UnderPrefix(path) THEN At("derive") ELSE Drop

\* The key and its hash are there, or a system call has failed.
Derive == pc = "derive" /\ At(IF request.prompt THEN "provide" ELSE "result")

DeriveFails == pc = "derive" /\ Drop

\* Three prompts, and the result of each is dropped: "Provide Public Key", ...
PromptProvide(answer) ==
    /\ pc = "provide"
    /\ declined' = (declined \/ ~answer)
    /\ pc' = "address"
    /\ UNCHANGED <<request, readVars, shown, result>>

\* ... the address, ...
PromptAddress(answer) ==
    /\ pc = "address"
    /\ shown' = AddressOf(path)
    /\ declined' = (declined \/ ~answer)
    /\ pc' = "confirm"
    /\ UNCHANGED <<request, readVars, result>>

\* Mutant of PromptConfirm: whoever declines is asked again.
PromptConfirmAgain(answer) ==
    /\ pc = "confirm"
    /\ declined' = (declined \/ ~answer)
    /\ pc' = IF answer THEN "result" ELSE "confirm"
    /\ UNCHANGED <<request, readVars, shown, result>>

\* ... and final_accept_prompt.
PromptConfirm(answer) ==
    /\ pc = "confirm"
    /\ declined' = (declined \/ ~answer)
    /\ pc' = "result"
    /\ UNCHANGED <<request, readVars, shown, result>>

\* Both go into the 128 bytes of rv, and result_final sends them.
Answer ==
    /\ pc = "result"
    /\ result' = [pubkey |-> KeyOf(path), address |-> AddressOf(path)]
    /\ pc' = "answered"
    /\ UNCHANGED <<request, readVars, shown, declined>>

\* The supply is lost, or something else panics.
Stop == pc # "idle" /\ Drop

-----------------------------------------------------------------------------
HostAnswers == (\E block \in Blocks : Fetch(block)) \/ HostFailure

UserAnswers ==
    \E answer \in BOOLEAN :
        PromptProvide(answer) \/ PromptAddress(answer) \/ PromptConfirm(answer)

Handler ==
    \/ EndOfChain \/ ReadCount \/ ReadByte \/ ReadStep \/ CheckPrefix
    \/ Derive \/ DeriveFails \/ Answer

Environment ==
    \/ \E param \in Params, prompt \in BOOLEAN : Start(param, prompt)
    \/ StartWithoutParams \/ WrongAnswer \/ Stop

Next == HostAnswers \/ UserAnswers \/ Handler \/ Environment

Spec == Init /\ [][Next]_vars

-----------------------------------------------------------------------------
(* Properties *)

\* Every variable keeps its type.
TypeOK ==
    /\ pc \in Idle \cup Busy
    /\ request \in Request \cup {NoRequest}
    /\ request = NoRequest <=> pc = "idle"
    /\ cursor \in Seq(Seq(Byte)) /\ unread \in Seq(Byte)
    /\ left \in Byte /\ word \in Seq(Byte)
    /\ path \in Seq(Nat) /\ Len(path) <= MaxSteps
    /\ shown \in {NoResult.address, AddressOf(path)}
    /\ declined \in BOOLEAN
    /\ result \in {NoResult, [pubkey |-> KeyOf(path), address |-> AddressOf(path)]}

\* The number that bytes spell by their places: the first byte counts ones, and
\* each byte Radix times what the byte before it counts.
Worth(n) ==
    LET w[k \in 0..n] == IF k = 0 THEN 1 ELSE w[k - 1] * Radix
    IN  w

Spelled(bytes) ==
    LET sum[k \in 0..Len(bytes)] ==
            IF k = 0 THEN 0
            ELSE sum[k - 1] + bytes[k] * Worth(Len(bytes))[k - 1]
    IN  sum[Len(bytes)]

\* Where the k-th step is in the bytes of a parameter, and what it is worth.
StepIn(bytes, k) ==
    Spelled(SubSeq(bytes, 2 + StepBytes * (k - 1), 1 + StepBytes * k))

PathIn(bytes) == [k \in 1..Head(bytes) |-> StepIn(bytes, k)]

Bytes == FlattenSeq(request.param)
Committed == PathIn(Bytes)

\* A U32 may start in one block and end in another, with empty blocks between.
\* However the host cuts the parameter, the path is the one its bytes spell.
CutIndependent ==
    pc \in {"check", "derive", "result", "answered"} \cup Asking =>
        path = Committed

\* How many bytes of the parameter have been taken, and what is still to come.
Taken == IF pc = "count" THEN 0 ELSE 1 + StepBytes * Len(path) + Len(word)
Rest == unread \o FlattenSeq(cursor)

\* At every byte, whatever blocks came: nothing of the parameter is lost, taken
\* twice or out of place, and each step that is complete has its own bytes.
StreamInv ==
    /\ pc \in Reading =>
          /\ Taken + Len(Rest) = Len(Bytes)
          /\ \A i \in 1..Len(Rest) : Rest[i] = Bytes[Taken + i]
    /\ pc = "count" => path = <<>> /\ word = <<>>
    /\ pc = "steps" =>
          /\ Len(path) + left = Head(Bytes)
          /\ Len(word) < StepBytes
          /\ \A j \in 1..Len(word) : word[j] = Bytes[1 + StepBytes * Len(path) + j]
          /\ \A k \in 1..Len(path) : path[k] = StepIn(Bytes, k)
    /\ CutIndependent

\* The key and address that leave the device are those of the path that was
\* read, which is one of the application's, and VERIFY_ADDRESS has put the very
\* same address on the screen, whatever the requests before it left there.  By
\* CutIndependent this is the path START committed to.
AnswerMatchesRequest ==
    pc = "answered" =>
        /\ UnderPrefix(path)
        /\ result = [pubkey |-> KeyOf(path), address |-> AddressOf(path)]
        /\ shown = IF request.prompt THEN AddressOf(path) ELSE NoResult.address

\* What is known on the way there.
AnswerInv ==
    /\ pc = "steps" => left > 0
    /\ pc \in Reading \cup {"check", "derive", "provide", "address"} =>
          shown = NoResult.address
    /\ pc \notin {"idle", "answered"} => result = NoResult
    /\ pc \in {"derive", "result"} \cup Asking => UnderPrefix(path)
    /\ pc \in Asking => request.prompt = TRUE
    /\ pc = "confirm" => shown = AddressOf(path)
    /\ pc = "result" =>
          shown = IF request.prompt THEN AddressOf(path) ELSE NoResult.address

\* The conjunction that every step preserves.
AddressInv == TypeOK /\ AnswerInv /\ AnswerMatchesRequest

\* What a request may still take, at most: a turn for each block and each byte to
\* come, and one for each thing that is done with the path.
StepsLeft ==
    CASE pc \in Reading -> 7 + Len(cursor) + Len(Rest)
      [] pc = "check"   -> 6
      [] pc = "derive"  -> 5
      [] pc = "provide" -> 4
      [] pc = "address" -> 3
      [] pc = "confirm" -> 2
      [] pc = "result"  -> 1
      [] OTHER          -> 0

Begun == pc = "count" /\ cursor = request.param

\* Until another START, every step of a request brings its end nearer, whatever
\* host and user do: no block is fetched, no byte read and no question asked
\* again.
EveryStepCounts ==
    [][(pc \in Busy /\ ~Begun') => StepsLeft' \in 0..(StepsLeft - 1)]_vars

\* AddressPromise, with what the handler makes of its variables: the address is
\* shown by the second prompt, and the last one changes nothing.
PathOf(r) == PathIn(FlattenSeq(r.param))

Stage ==
    CASE pc = "idle" -> "idle"
      [] pc = "answered" -> "answered"
      [] pc = "confirm" -> "shown"
      [] pc = "result" -> IF request.prompt THEN "shown" ELSE "open"
      [] OTHER -> "open"

Promise == INSTANCE AddressPromise
               WITH stage <- Stage, commitment <- request, display <- shown,
                    answer <- result

\* The handler implements the promise: with all its blocks, bytes, prompts and
\* failures it shows and answers nothing that a reader of AddressPromise would
\* not expect, and nothing of one request is left to the next.
KeepsPromise == Promise!Spec

\* docs/apdu.md:143: SW_ERROR when "Error has occured due to bad input or user
\* rejectected".  A user who declines gets the request refused.
DeclinedIsRefused == pc = "answered" => ~declined
=============================================================================
