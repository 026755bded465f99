--------------------------------- MODULE App ---------------------------------
(***************************************************************************)
(* The whole application: the event loop of EventLoop, in which a poll     *)
(* runs the handler that handle_apdu_async of                              *)
(* rust-app/src/implementation.rs made for the instruction, SignApdu or    *)
(* GetAddress, and ends as that handler does; behind the pages of          *)
(* PendingScreen where a build has them.                                   *)
(*                                                                         *)
(* A loop action comes first in every conjunction: it decides the setting, *)
(* which is the variable settings of SignApdu.                             *)
(***************************************************************************)
EXTENDS EventLoop, Sequences

CONSTANTS
    Transactions1, Paths2, SignBlocks, MaxStarts,            \* see SignApdu
    Radix, StepBytes, MaxSteps, BIP32_PREFIX, Params, AddressBlocks, \* GetAddress
    NoRequest,
    PendingReviewScreen                                      \* PendingScreen

ASSUME PendingAssumption == PendingReviewScreen \in BOOLEAN

VARIABLES
    sign_pc, sign_request, sign_cursor, length, sign_path, input0, sign_left,
    known_txn, piece, step, sign_shown, hashed, consent, starts,
    address_pc, address_request, address_cursor, unread, address_left, word,
    address_path, address_shown, declined, result,
    page, owed, seen

signVars == <<sign_pc, sign_request, sign_cursor, length, sign_path, input0,
              sign_left, known_txn, piece, step, sign_shown, hashed, consent,
              starts>>
addressVars == <<address_pc, address_request, address_cursor, unread,
                 address_left, word, address_path, address_shown,
                 declined, result>>
handlerVars == <<signVars, addressVars>>
reviewVars == <<page, owed, seen>>
appVars == <<vars, handlerVars, reviewVars>>

\* The handlers with what is proved of them.
SignH == INSTANCE SignApduProofs
    WITH Blocks <- SignBlocks, pc <- sign_pc, request <- sign_request,
         cursor <- sign_cursor, path <- sign_path, left <- sign_left,
         shown <- sign_shown, settings <- BlindSigning

Address == INSTANCE GetAddressProofs
    WITH Blocks <- AddressBlocks, pc <- address_pc, request <- address_request,
         cursor <- address_cursor, left <- address_left, path <- address_path,
         shown <- address_shown

Review == INSTANCE PendingScreen

\* What the modules of the handlers assume of their constants.
ASSUME SignAssumption ==
    /\ SignH!Transactions1Assumption /\ SignH!Paths2Assumption
    /\ SignH!BlocksAssumption /\ SignH!MaxStartsAssumption
    /\ SignH!NoRequestAssumption
ASSUME AddressAssumption ==
    /\ Address!SizesAssumption /\ Address!ParamsAssumption
    /\ Address!AddressBlocksAssumption /\ Address!PrefixAssumption
    /\ Address!NoAddressRequestAssumption

-----------------------------------------------------------------------------
(* handle_apdu_async: which handler an instruction gets, and how it is doing *)

ForgetSign == SignH!Drop("idle")
ForgetAddress == Address!Drop

\* The future is dropped, and all it held.
Forget == ForgetSign /\ ForgetAddress

AddressIns == {"VerifyAddress", "GetPubkey"}

\* Mutant of Dispatch: VERIFY_ADDRESS gets the future of GET_PUBKEY.
DispatchNeverPrompts(ins) ==
    \/ ins = "Sign" /\ SignH!Begin /\ ForgetAddress
    \/ /\ ins \in AddressIns
       /\ \E param \in Params : Address!Begin(param, FALSE)
       /\ ForgetSign
    \/ Forget

\* The future of a START, which takes the place of any other.  Without the
\* hashes it needs, it rejects at once.
Dispatch(ins) ==
    \/ ins = "Sign" /\ SignH!Begin /\ ForgetAddress
    \/ /\ ins \in AddressIns
       /\ \E param \in Params : Address!Begin(param, ins = "VerifyAddress")
       /\ ForgetSign
    \/ Forget

\* The answer to a GET_CHUNK reaches the future that asked.
Deliver(cmd) ==
    \/ /\ states.ins = "Sign"
       /\ IF cmd = "GetChunkResponseFailure"
          THEN SignH!HostFailure
          ELSE \E block \in SignBlocks :
                  \/ SignH!ReadLength(block) \/ SignH!ReadPath(block)
                  \/ SignH!DryPiece(block) \/ SignH!PromptPiece(block)
                  \/ SignH!HashPiece(block)
       /\ UNCHANGED addressVars
    \/ /\ states.ins \in AddressIns
       /\ IF cmd = "GetChunkResponseFailure"
          THEN Address!HostFailure
          ELSE \E block \in AddressBlocks : Address!Fetch(block)
       /\ UNCHANGED signVars

\* What the future does between two answers of the host, prompts included.
HandlerStep ==
    /\ pc = "poll"
    /\ UNCHANGED <<vars, reviewVars>>
    /\ \/ /\ states.ins = "Sign"
          /\ SignH!Handler \/ SignH!UserAnswers
          /\ UNCHANGED addressVars
       \/ /\ states.ins \in AddressIns
          /\ Address!Handler \/ Address!UserAnswers
          /\ UNCHANGED signVars

\* Mutant of HandlerWaits: a poll also returns while a prompt is open.
HandlerWaitsOrAsks ==
    \/ states.ins = "Sign" /\ (SignH!Waiting \/ sign_pc \in SignH!Asking)
    \/ states.ins \in AddressIns /\ (Address!Waiting \/ address_pc \in Address!Asking)

\* It awaits a block, ...
HandlerWaits ==
    \/ states.ins = "Sign" /\ SignH!Waiting
    \/ states.ins \in AddressIns /\ Address!Waiting

\* ... it has given its result, ...
HandlerDone ==
    \/ states.ins = "Sign" /\ sign_pc = "signed"
    \/ states.ins \in AddressIns /\ address_pc = "answered"
    \/ states.ins = "GetVersion"

\* ... or it has awaited reject().
HandlerRejected ==
    \/ states.ins = "Sign" /\ sign_pc = "idle"
    \/ states.ins \in AddressIns /\ address_pc = "idle"

-----------------------------------------------------------------------------
(* The loop with its handlers *)

AppInit == Init /\ SignH!Init /\ Address!Init /\ Review!Init

\* A command finds the loop only where no page is in its way, from a host that
\* is not waiting for something else.
Receive(header) ==
    /\ ~owed
    /\ \/ CommandBadHeader(header) /\ UNCHANGED handlerVars
       \/ CommandStart(header) /\ Dispatch(states'.ins)
       \/ \E cmd \in HostToLedger, genuine \in BOOLEAN :
             \/ CommandResponse(header, cmd, genuine) /\ Deliver(cmd)
             \/ CommandRefused(header, cmd, genuine) /\ Forget
    /\ UNCHANGED reviewVars

PollReturns ==
    /\ \/ PollPending /\ HandlerWaits /\ UNCHANGED handlerVars
       \/ PollReady /\ HandlerDone /\ UNCHANGED handlerVars
       \/ PollReadyEmpty /\ UNCHANGED handlerVars
       \/ PollReject /\ HandlerRejected /\ UNCHANGED handlerVars
    /\ UNCHANGED reviewVars

Pressed ==
    /\ \E btn \in Buttons : ButtonIdle(btn) \/ ButtonBusy(btn)
    /\ UNCHANGED <<handlerVars, reviewVars>>

\* Whatever ends the application ends its future, and the next start begins
\* with the pages.
Ends == Forget /\ Review!Restart

PollEnds == (PollExit \/ (PollPanic /\ sign_pc = "panicked")) /\ Ends

ShutsDown == (PowerLoss \/ ButtonExit \/ ButtonCancel) /\ Ends

\* sample_main follows sample_pending.
StartsUp == page = "passed" /\ Launch /\ UNCHANGED <<handlerVars, reviewVars>>

BeforeLaunch ==
    /\ (pc \in NotRunning /\ Review!Next) \/ Review!HostGivesUp
    /\ UNCHANGED <<vars, handlerVars>>

AtPoll == HandlerStep \/ PollReturns \/ PollEnds

AppNext ==
    \/ \E header \in Headers : Receive(header)
    \/ AtPoll \/ Pressed \/ ShutsDown \/ StartsUp \/ BeforeLaunch

AppSpec == AppInit /\ [][AppNext]_appVars

\* A poll runs on until it returns, and a user who is asked something presses
\* something.  No host is asked to do anything.
FairAppSpec == AppSpec /\ WF_appVars(AtPoll)

-----------------------------------------------------------------------------
(* Properties *)

\* SignApdu leaves to its environment what the loop has to guarantee: that a
\* request is replaced only while it waits for the host, that the setting is
\* changed only while there is no request, and that no answer of the host gets
\* past the hash.  The loop does, in every order of commands and presses.
ImplementsSign == SignH!Spec

\* GetAddress the same: with either instruction, and a request for a signature
\* before or after it.
ImplementsAddress == Address!Spec

\* While the application runs, the user has left both pages of the pending review
\* since it last ended, by whatever panic, exit or lost supply, each with its own
\* button and in their order; no command got anybody past a page (pending.rs:14).
EachStartReviewed == pc \notin NotRunning => Review!Reviewed

\* The loop and the future agree: a request is pending between two events only
\* if its handler waits for a block, with the copy of the settings the loop
\* gave it and the prompts its instruction calls for; the other handler, and
\* both without a request, hold nothing.
HandlerMatchesLoop ==
    /\ pc = "next_event" /\ states # NoHandler => HandlerWaits
    /\ pc = "next_event" /\ states = NoHandler =>
          sign_pc \in SignH!Idle /\ address_pc \in Address!Idle
    /\ sign_pc \notin SignH!Idle =>
          states # NoHandler /\ states.ins = "Sign" /\ address_pc = "idle"
    /\ address_pc \notin Address!Idle =>
          states # NoHandler /\ states.ins \in AddressIns /\ sign_pc = "idle"
    /\ states # NoHandler =>
          /\ states.ins = "Sign" /\ sign_pc \in SignH!Busy \cup {"signed"} =>
                sign_request.settings = SettingsGet(states.settings)
          /\ states.ins \in AddressIns /\ address_pc # "idle" =>
                (address_request.prompt <=> states.ins = "VerifyAddress")
    /\ pc \in NotRunning => sign_pc = "idle" /\ address_pc = "idle"

\* What a signature that leaves the device is over, and what was asked before
\* it: the setting is that of the moment it leaves.
SignatureEarned ==
    /\ sign_pc = "signed" /\ hashed = SignH!Committed
    /\ IF known_txn
       THEN /\ consent = {"SignTransaction"}
            /\ Len(sign_shown) = Len(hashed)
            /\ \A k \in 1..Len(hashed) : sign_shown[k] = SignH!Drawn(hashed[k])
       ELSE /\ consent = {"WARNING", "TransactionHash", "BlindSignTransaction"}
            /\ BlindSigning = 1

\* The same for a key and its address; only one of the two instructions shows.
AddressEarned(ins) ==
    /\ address_pc = "answered"
    /\ Address!UnderPrefix(Address!Committed)
    /\ result.pubkey = Address!KeyOf(Address!Committed)
    /\ result.address = Address!AddressOf(Address!Committed)
    /\ ins = "VerifyAddress" => address_shown = result.address

\* No result leaves the device but for the request it answers.  In whatever
\* order requests, answers, presses and restarts came before, RESULT_FINAL in
\* reply to SIGN carries a signature over the transaction START committed to,
\* reviewed or confirmed blindly with blind signing on; in reply to an address
\* instruction, the key of the path START committed to, which VERIFY_ADDRESS
\* has shown.
ResultIsEarned ==
    [][pc = "poll" /\ pc' = "next_event" /\ reply'.cmd = "ResultFinal" =>
          /\ reply'.ins = "Sign" => SignatureEarned
          /\ reply'.ins \in AddressIns => AddressEarned(reply'.ins)]_appVars

\* What a future does between two answers of the host is bounded: every step of
\* it, prompts included, leaves fewer to come, and nothing it does gives steps
\* to the other handler.  A poll that does not return has stopped.
PollsRunOut ==
    [][HandlerStep =>
          SignH!StepsLeft' + Address!StepsLeft'
             \in 0..(SignH!StepsLeft + Address!StepsLeft - 1)]_appVars

\* Every command that enters a poll gets its reply or ends the application,
\* whatever handler it started or continued.
CommandAnswered == pc = "poll" ~> pc # "poll"
=============================================================================
