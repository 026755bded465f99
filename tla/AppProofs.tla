------------------------------ MODULE AppProofs ------------------------------
(***************************************************************************)
(* The composition is sound: the loop is that of EventLoop, the loop and   *)
(* the handlers agree at every moment, and a handler inside the loop meets *)
(* only what SignApdu and GetAddress let their environments do.  So what   *)
(* is proved about each of the three holds of the application, and three   *)
(* things follow that none of them can say: no result leaves the device    *)
(* but for its request, no poll spins, and both promises are kept.         *)
(***************************************************************************)
EXTENDS App, EventLoopProofs

-----------------------------------------------------------------------------
(* The loop *)

LEMMA LoopSteps ==
    ASSUME AppNext
    PROVE  [Next]_vars
  <1>1. ASSUME NEW header \in Headers, Receive(header)
        PROVE  Next
    BY <1>1 DEF Receive, Next, Command
  <1>2. HandlerStep => UNCHANGED vars
    BY DEF HandlerStep
  <1>3. PollReturns \/ PollEnds => Next
    BY DEF PollReturns, PollEnds, Next, Poll
  <1>4. Pressed => Next
    BY DEF Pressed, Next, Button
  <1>5. ShutsDown \/ StartsUp => Next
    BY DEF ShutsDown, StartsUp, Next, Button
  <1>6. BeforeLaunch => UNCHANGED vars
    BY DEF BeforeLaunch
  <1> QED BY <1>1, <1>2, <1>3, <1>4, <1>5, <1>6 DEF AppNext, AtPoll

\* Whatever the handlers do, app_main is the loop of EventLoop, so all that
\* EventLoopProofs proves of it holds of the application.
THEOREM ImplementsLoop == AppSpec => Spec
  <1>1. AppInit => Init
    BY DEF AppInit
  <1>2. [AppNext]_appVars => [Next]_vars
    BY LoopSteps DEF appVars
  <1> QED BY <1>1, <1>2, PTL DEF AppSpec, Spec

-----------------------------------------------------------------------------
(* The steps of the handlers, as far as the loop can tell *)

LEMMA ForgetEnds ==
    /\ ForgetSign => sign_pc' = "idle"
    /\ ForgetAddress => address_pc' = "idle"
  BY DEF ForgetSign, ForgetAddress, SignH!Drop, Address!Drop

\* A step of sign_apdu leaves nothing of the request, or the request.
SignMoves ==
    /\ sign_pc \in SignH!Busy
    /\ \/ sign_pc' \in {"idle", "panicked"}
       \/ sign_request' = sign_request

LEMMA SignDelivered ==
    ASSUME states.ins = "Sign", NEW cmd, Deliver(cmd)
    PROVE  SignMoves /\ UNCHANGED addressVars
  <1>1. UNCHANGED addressVars
    BY DEF Deliver, AddressIns
  <1>2. SignH!HostFailure => SignMoves
    BY DEF SignMoves, SignH!HostFailure, SignH!Waiting, SignH!NeedsBlock,
         SignH!Busy, SignH!Reading, SignH!Asking, SignH!ReadFails, SignH!Drop
  <1>3. ASSUME NEW block \in SignBlocks,
               \/ SignH!ReadLength(block) \/ SignH!ReadPath(block)
               \/ SignH!DryPiece(block) \/ SignH!PromptPiece(block)
               \/ SignH!HashPiece(block)
        PROVE  SignMoves
    BY <1>3 DEF SignMoves, SignH!Busy, SignH!Reading, SignH!Asking, SignH!Drop,
         SignH!ReadLength, SignH!ReadPath, SignH!DryPiece, SignH!PromptPiece, SignH!HashPiece
  <1> QED BY <1>1, <1>2, <1>3 DEF Deliver, AddressIns

LEMMA SignRuns ==
    ASSUME SignH!Handler \/ SignH!UserAnswers
    PROVE  SignMoves
  <1>1. CASE SignH!Handler
    BY <1>1 DEF SignMoves, SignH!Busy, SignH!Reading, SignH!Asking, SignH!Handler,
         SignH!EndOfChain,
         SignH!NeedsBlock, SignH!ReadFails, SignH!Drop, SignH!DryEnd,
         SignH!ShowPanics, SignH!InPiece, SignH!PieceShown, SignH!PromptEnd,
         SignH!HashEnd, SignH!Sign, SignH!SignFails
  <1>2. CASE SignH!WarnDisabled
    BY <1>2 DEF SignMoves, SignH!Busy, SignH!Reading, SignH!Asking,
         SignH!WarnDisabled, SignH!Drop
  <1>3. ASSUME NEW answer \in BOOLEAN,
               \/ SignH!ShowPrompt(answer) \/ SignH!Warn(answer)
               \/ SignH!ShowHash(answer) \/ SignH!Accept(answer)
        PROVE  SignMoves
    BY <1>3 DEF SignMoves, SignH!Busy, SignH!Reading, SignH!Asking, SignH!Drop,
         SignH!ShowPrompt, SignH!InPiece, SignH!Warn, SignH!ShowHash, SignH!Accept
  <1> QED BY <1>1, <1>2, <1>3 DEF SignH!UserAnswers

\* A step of get_address_apdu likewise.
AddressMoves ==
    /\ address_pc \notin Address!Idle
    /\ address_pc' = "idle" \/ address_request' = address_request

LEMMA AddressRuns ==
    ASSUME \/ Address!Handler \/ Address!UserAnswers \/ Address!HostFailure
           \/ \E block \in AddressBlocks : Address!Fetch(block)
    PROVE  AddressMoves
  <1> USE DEF AddressMoves, Address!Idle, Address!Reading, Address!Drop, Address!At,
              Address!readVars
  <1>1. CASE Address!Handler
    BY <1>1 DEF Address!Handler, Address!EndOfChain, Address!ReadCount,
       Address!ReadByte, Address!ReadStep, Address!CheckPrefix, Address!Derive,
       Address!DeriveFails, Address!Answer
  <1>2. CASE Address!UserAnswers
    BY <1>2 DEF Address!UserAnswers, Address!PromptProvide, Address!PromptAddress,
       Address!PromptConfirm
  <1>3. CASE Address!HostFailure \/ \E block \in AddressBlocks : Address!Fetch(block)
    BY <1>3 DEF Address!HostFailure, Address!Fetch, Address!Waiting
  <1> QED BY <1>1, <1>2, <1>3

LEMMA AddressDelivered ==
    ASSUME states.ins \in AddressIns, NEW cmd, Deliver(cmd)
    PROVE  AddressMoves /\ UNCHANGED signVars
  BY AddressRuns DEF Deliver, AddressIns

LEMMA WaitingIsBusy ==
    ASSUME HandlerWaits
    PROVE  /\ states.ins = "Sign" => sign_pc \notin SignH!Idle
           /\ states.ins \in AddressIns => address_pc \notin Address!Idle
           /\ states.ins \in {"Sign"} \cup AddressIns
  BY DEF HandlerWaits, AddressIns, SignH!Waiting, SignH!NeedsBlock, SignH!Idle,
     Address!Waiting, Address!Reading, Address!Idle

-----------------------------------------------------------------------------
(* The loop and the handlers agree *)

AppInv == LoopInv /\ HandlerMatchesLoop

LEMMA CommandsAgree ==
    ASSUME AppInv, NEW header \in Headers, Receive(header)
    PROVE  HandlerMatchesLoop'
  <1> USE DEF HandlerMatchesLoop, NotRunning
  <1>1. CASE CommandBadHeader(header) /\ UNCHANGED handlerVars
    BY <1>1 DEF AppInv, CommandBadHeader, handlerVars, signVars, addressVars,
         HandlerWaits, SignH!Waiting, SignH!NeedsBlock, Address!Waiting, SettingsGet
  <1>2. CASE CommandStart(header) /\ Dispatch(states'.ins)
    <2>1. pc' = "poll" /\ UNCHANGED <<settings, nvm>>
      BY <1>2 DEF CommandStart
    <2>2. PICK i \in Ins : states' = [ins |-> i, settings |-> settings]
      BY <1>2 DEF CommandStart, InsTryFrom
    <2>3. states' # NoHandler
      BY <2>2, NoHandlerAssumption DEF AppInv, LoopInv, TypeOK, Handler
    <2>4. CASE states'.ins = "Sign" /\ SignH!Begin /\ ForgetAddress
      <3>1. sign_request'.settings = BlindSigning
        BY <2>4 DEF SignH!Begin
      <3>2. SettingsGet(states.settings)' = BlindSigning
        BY <2>1, <2>2 DEF SettingsGet, BlindSigning
      <3> QED BY <2>1, <2>3, <2>4, <3>1, <3>2, ForgetEnds DEF Address!Idle
    <2>5. CASE /\ states'.ins \in AddressIns
               /\ \E param \in Params :
                     Address!Begin(param, states'.ins = "VerifyAddress")
               /\ ForgetSign
      <3>1. sign_pc' = "idle" /\ states'.ins \in AddressIns
        BY <2>5, ForgetEnds
      <3>2. address_request'.prompt <=> states'.ins = "VerifyAddress"
        <4> DEFINE prompt == states'.ins = "VerifyAddress"
        <4>1. PICK param \in Params :
                 address_request' = [param |-> param, prompt |-> prompt]
          BY <2>5 DEF Address!Begin
        <4> HIDE DEF prompt
        <4>2. address_request'.prompt = prompt
          BY <4>1
        <4> QED BY Zenon, <4>2 DEF prompt
      <3> HIDE <2>5
      <3> QED BY <2>1, <2>3, <3>1, <3>2
              DEF SignH!Idle, SignH!Busy, SignH!Reading, SignH!Asking, AddressIns
    <2>6. CASE Forget
      BY <2>1, <2>6, ForgetEnds
         DEF Forget, SignH!Idle, SignH!Busy, SignH!Reading, SignH!Asking, Address!Idle
    <2> QED BY <1>2, <2>4, <2>5, <2>6 DEF Dispatch
  <1>3. ASSUME NEW cmd, NEW genuine,
               CommandResponse(header, cmd, genuine), Deliver(cmd)
        PROVE  HandlerMatchesLoop'
    <2>1. /\ pc' = "poll" /\ states # NoHandler
          /\ UNCHANGED <<states, settings, nvm>>
      BY <1>3 DEF CommandResponse, Continues
    <2>2. CASE states.ins = "Sign"
      BY <2>1, <2>2, <1>3, SignDelivered DEF AppInv, SignMoves, addressVars, SettingsGet,
         SignH!Idle, SignH!Busy, SignH!Reading, SignH!Asking, Address!Idle, AddressIns
    <2>3. CASE states.ins \in AddressIns
      BY <2>1, <2>3, <1>3, AddressDelivered DEF AppInv, AddressMoves, signVars,
         SettingsGet, SignH!Idle, SignH!Busy, SignH!Reading, SignH!Asking,
         Address!Idle, AddressIns
    <2> QED BY <1>3, <2>2, <2>3 DEF Deliver
  <1>4. ASSUME NEW cmd, NEW genuine, CommandRefused(header, cmd, genuine), Forget
        PROVE  HandlerMatchesLoop'
    <2>1. pc' = "next_event" /\ states' = NoHandler
      BY <1>4 DEF CommandRefused, ErrorReply, EndCommand
    <2>2. sign_pc' = "idle" /\ address_pc' = "idle"
      BY <1>4, ForgetEnds DEF Forget
    <2> QED BY <2>1, <2>2
            DEF SignH!Idle, SignH!Busy, SignH!Reading, SignH!Asking, Address!Idle
  <1> QED BY <1>1, <1>2, <1>3, <1>4 DEF Receive

LEMMA HandlersAgree ==
    ASSUME AppInv, HandlerStep
    PROVE  HandlerMatchesLoop'
  <1> USE DEF HandlerMatchesLoop, NotRunning
  <1>1. pc = "poll" /\ UNCHANGED <<pc, states, settings, nvm>>
    BY DEF HandlerStep, vars
  <1>2. states # NoHandler
    BY <1>1 DEF AppInv, LoopInv, TypeOK
  <1>3. CASE states.ins = "Sign"
    BY <1>1, <1>2, <1>3, SignRuns DEF HandlerStep, AppInv, SignMoves, addressVars,
       SettingsGet, SignH!Idle, SignH!Busy, SignH!Reading, SignH!Asking, Address!Idle,
       AddressIns
  <1>4. CASE states.ins \in AddressIns
    BY <1>1, <1>2, <1>4, AddressRuns DEF HandlerStep, AppInv, AddressMoves,
       signVars, SettingsGet, SignH!Idle, SignH!Busy, SignH!Reading, SignH!Asking,
       Address!Idle, AddressIns
  <1> QED BY <1>3, <1>4 DEF HandlerStep

LEMMA ReturnsAgree ==
    ASSUME AppInv, PollReturns
    PROVE  HandlerMatchesLoop'
  <1> USE DEF HandlerMatchesLoop, NotRunning, EndCommand, loopVars
  <1>1. CASE PollPending /\ HandlerWaits /\ UNCHANGED handlerVars
    BY <1>1 DEF AppInv, PollPending, handlerVars, signVars, addressVars, LoopInv, TypeOK,
       HandlerWaits, SignH!Waiting, SignH!NeedsBlock, Address!Waiting, SettingsGet
  <1>2. CASE PollReady /\ HandlerDone /\ UNCHANGED handlerVars
    BY <1>2 DEF AppInv, PollReady, handlerVars, signVars, addressVars, HandlerDone,
       AddressIns, SignH!Idle, SignH!Busy, SignH!Reading, SignH!Asking, Address!Idle
  <1>3. CASE PollReadyEmpty /\ UNCHANGED handlerVars
    BY <1>3 DEF AppInv, PollReadyEmpty, handlerVars, signVars, addressVars,
       AddressIns, SignH!Idle, SignH!Busy, SignH!Reading, SignH!Asking
  <1>4. CASE PollReject /\ HandlerRejected /\ UNCHANGED handlerVars
    BY <1>4 DEF AppInv, PollReject, ErrorReply, handlerVars, signVars, addressVars,
       HandlerRejected, AddressIns, SignH!Idle, SignH!Busy, SignH!Reading,
       SignH!Asking, Address!Idle
  <1> QED BY <1>1, <1>2, <1>3, <1>4 DEF PollReturns

LEMMA PressesAgree ==
    ASSUME AppInv, Pressed
    PROVE  HandlerMatchesLoop'
  <1> USE DEF HandlerMatchesLoop, NotRunning
  <1>1. /\ pc = "next_event" /\ UNCHANGED <<pc, states, handlerVars>>
        /\ states = NoHandler \/ UNCHANGED <<settings, nvm>>
    BY DEF Pressed, ButtonIdle, ButtonBusy
  <1>2. HandlerWaits' = HandlerWaits
    BY <1>1 DEF handlerVars, signVars, addressVars, HandlerWaits, SignH!Waiting,
       SignH!NeedsBlock, Address!Waiting
  <1>3. CASE states = NoHandler
    BY <1>1, <1>2, <1>3 DEF AppInv, handlerVars, signVars, addressVars,
       SignH!Idle, SignH!Busy, SignH!Reading, SignH!Asking
  <1>4. CASE UNCHANGED <<settings, nvm>>
    BY <1>1, <1>2, <1>4 DEF AppInv, handlerVars, signVars, addressVars, SettingsGet
  <1> QED BY <1>1, <1>3, <1>4

LEMMA EndsAgree ==
    ASSUME AppInv, PollEnds \/ ShutsDown \/ StartsUp \/ BeforeLaunch
    PROVE  HandlerMatchesLoop'
  <1> USE DEF HandlerMatchesLoop, NotRunning, SignH!Idle, SignH!Busy, SignH!Reading,
              SignH!Asking, Address!Idle
  <1>1. CASE PollEnds \/ ShutsDown
    BY <1>1, ForgetEnds DEF PollEnds, ShutsDown, Ends, Forget, PollExit, PollPanic,
       PowerLoss, ButtonExit, ButtonCancel, Stop
  <1>2. CASE StartsUp
    BY <1>2 DEF AppInv, StartsUp, Launch, handlerVars, signVars, addressVars
  <1>3. CASE BeforeLaunch
    BY <1>3 DEF AppInv, BeforeLaunch, vars, handlerVars, signVars, addressVars,
       HandlerWaits, SignH!Waiting, SignH!NeedsBlock, Address!Waiting, SettingsGet
  <1> QED BY <1>1, <1>2, <1>3

LEMMA Agree ==
    ASSUME AppInv, [AppNext]_appVars
    PROVE  HandlerMatchesLoop'
  <1>1. CASE UNCHANGED appVars
    BY <1>1 DEF AppInv, HandlerMatchesLoop, appVars, vars, handlerVars, signVars,
       addressVars, HandlerWaits, SignH!Waiting, SignH!NeedsBlock, Address!Waiting,
       SettingsGet
  <1> QED BY <1>1, CommandsAgree, HandlersAgree, ReturnsAgree, PressesAgree, EndsAgree
          DEF AppNext, AtPoll

\* The loop and the futures agree: no command or press finds a handler that does
\* not wait for it.
THEOREM Agreement == AppSpec => []HandlerMatchesLoop
  <1>1. AppInit => HandlerMatchesLoop
    BY DEF AppInit, Init, SignH!Init, Address!Init, HandlerMatchesLoop, NotRunning,
       SignH!Idle, SignH!Busy, SignH!Reading, SignH!Asking, Address!Idle
  <1>2. LoopInv /\ HandlerMatchesLoop /\ [AppNext]_appVars => HandlerMatchesLoop'
    BY Agree DEF AppInv
  <1> QED BY <1>1, <1>2, ImplementsLoop, LoopInvariant, PTL DEF AppSpec

-----------------------------------------------------------------------------
(* What the loop lets happen to a handler *)

LEMMA BlindSigningIsBit ==
    ASSUME LoopInv
    PROVE  BlindSigning \in {0, 1}
  BY DEF LoopInv, TypeOK, BlindSigning, SettingsGet

\* A request for a signature that is dropped had been made, or was not there.
LEMMA ForgottenSign ==
    ASSUME ForgetSign
    PROVE  SignH!Next
  <1>1. CASE sign_pc = "idle"
    BY <1>1 DEF ForgetSign, SignH!Next, SignH!Environment, SignH!StartWithoutParams,
       SignH!Idle
  <1>2. CASE sign_pc # "idle"
    BY <1>2 DEF ForgetSign, SignH!Next, SignH!Environment, SignH!Stop
  <1> QED BY <1>1, <1>2

LEMMA ForgottenAddress ==
    ASSUME ForgetAddress
    PROVE  Address!Next
  <1>1. CASE address_pc = "idle"
    BY <1>1 DEF ForgetAddress, Address!Next, Address!Environment,
       Address!StartWithoutParams, Address!Idle
  <1>2. CASE address_pc # "idle"
    BY <1>2 DEF ForgetAddress, Address!Next, Address!Environment, Address!Stop
  <1> QED BY <1>1, <1>2

\* A step of the loop that leaves a handler alone and the setting as it was.
LEMMA SignUntouched ==
    ASSUME UNCHANGED signVars, UNCHANGED BlindSigning
    PROVE  UNCHANGED SignH!vars
  BY DEF signVars, SignH!vars, SignH!handlerVars

LEMMA AddressUntouched ==
    ASSUME UNCHANGED addressVars
    PROVE  UNCHANGED Address!vars
  BY DEF addressVars, Address!vars, Address!readVars

\* The setting changes only where sign_apdu has nothing to lose by it.
LEMMA SettingChanges ==
    ASSUME LoopInv, LoopInv', UNCHANGED signVars, sign_pc \in SignH!Idle
    PROVE  [SignH!Next]_(SignH!vars)
  <1>1. CASE BlindSigning' = BlindSigning
    BY <1>1, SignUntouched
  <1>2. CASE BlindSigning' = 1 - BlindSigning
    BY <1>2 DEF SignH!Next, SignH!Environment, SignH!ToggleSettings, signVars,
       SignH!handlerVars
  <1>3. BlindSigning' \in {0, 1}
    BY DEF LoopInv, TypeOK, BlindSigning, SettingsGet
  <1> QED BY <1>1, <1>2, <1>3, BlindSigningIsBit

\* Where a command can start a request, the handlers wait or have none.
LEMMA StartFindsWaiting ==
    ASSUME HandlerMatchesLoop, pc = "next_event"
    PROVE  /\ sign_pc \in SignH!Idle \/ SignH!Waiting
           /\ address_pc \in Address!Idle \/ Address!Waiting
  BY DEF HandlerMatchesLoop, HandlerWaits, AddressIns, SignH!Idle, Address!Idle

-----------------------------------------------------------------------------
(* sign_apdu in the loop *)

LEMMA CommandsKeepSign ==
    ASSUME AppInv, NEW header \in Headers, Receive(header)
    PROVE  [SignH!Next]_(SignH!vars)
  <1>0. UNCHANGED BlindSigning
    BY DEF Receive, CommandBadHeader, CommandStart, CommandResponse, CommandRefused,
       ErrorReply, EndCommand, loopVars, BlindSigning, SettingsGet
  <1>1. CASE CommandBadHeader(header) /\ UNCHANGED handlerVars
    BY <1>0, <1>1, SignUntouched DEF handlerVars
  <1>2. CASE CommandStart(header) /\ Dispatch(states'.ins)
    <2>1. SignH!Begin => SignH!Next
      BY <1>2, StartFindsWaiting
         DEF CommandStart, AppInv, SignH!Next, SignH!Environment, SignH!Start
    <2> QED BY <1>2, <2>1, ForgottenSign DEF Dispatch, Forget
  <1>3. ASSUME NEW cmd, NEW genuine,
               CommandResponse(header, cmd, genuine), Deliver(cmd)
        PROVE  [SignH!Next]_(SignH!vars)
    BY <1>0, <1>3, SignUntouched DEF Deliver, SignH!Next, SignH!HostAnswers
  <1>4. ASSUME NEW cmd, NEW genuine, CommandRefused(header, cmd, genuine), Forget
        PROVE  [SignH!Next]_(SignH!vars)
    BY <1>4, ForgottenSign DEF Forget
  <1> QED BY <1>1, <1>2, <1>3, <1>4 DEF Receive

LEMMA StepsKeepSign ==
    ASSUME AppInv, LoopInv', [AppNext]_appVars
    PROVE  [SignH!Next]_(SignH!vars)
  <1>1. ASSUME UNCHANGED <<vars, signVars>>
        PROVE  [SignH!Next]_(SignH!vars)
    BY <1>1, SignUntouched DEF vars, BlindSigning, SettingsGet
  <1>2. CASE UNCHANGED appVars
    BY <1>1, <1>2 DEF appVars, handlerVars
  <1>3. CASE \E header \in Headers : Receive(header)
    BY <1>3, CommandsKeepSign
  <1>4. CASE HandlerStep
    BY <1>1, <1>4 DEF HandlerStep, SignH!Next
  <1>5. CASE PollReturns
    <2>1. UNCHANGED signVars /\ UNCHANGED BlindSigning
      BY <1>5 DEF PollReturns, PollPending, PollReady, PollReadyEmpty, PollReject,
         ErrorReply, EndCommand, loopVars, BlindSigning, SettingsGet, handlerVars
    <2> QED BY <2>1, SignUntouched
  <1>6. CASE PollEnds \/ ShutsDown
    BY <1>6, ForgottenSign DEF PollEnds, ShutsDown, Ends, Forget
  <1>7. CASE Pressed
    <2>1. UNCHANGED signVars /\ pc = "next_event"
      BY <1>7 DEF Pressed, handlerVars, ButtonIdle, ButtonBusy
    <2>2. CASE states = NoHandler
      BY <2>1, <2>2, SettingChanges DEF AppInv, HandlerMatchesLoop
    <2>3. CASE states # NoHandler
      BY <1>7, <2>1, <2>3, SignUntouched
         DEF Pressed, ButtonIdle, ButtonBusy, BlindSigning, SettingsGet
    <2> QED BY <2>2, <2>3
  <1>8. CASE StartsUp
    <2>1. UNCHANGED signVars /\ sign_pc = "idle"
      BY <1>8 DEF StartsUp, Launch, handlerVars, AppInv, HandlerMatchesLoop
    <2> QED BY <2>1, SettingChanges DEF AppInv, SignH!Idle
  <1>9. CASE BeforeLaunch
    BY <1>1, <1>9 DEF BeforeLaunch, handlerVars
  <1> QED BY <1>2, <1>3, <1>4, <1>5, <1>6, <1>7, <1>8, <1>9 DEF AppNext, AtPoll

\* Inside the loop sign_apdu meets only what SignApdu provides for, so what is
\* proved there holds of the application, whatever else it is asked to do.
THEOREM SignInLoop == AppSpec => ImplementsSign
  <1>1. AppInit => SignH!Init
    BY DEF AppInit
  <1>2. LoopInv /\ LoopInv' /\ HandlerMatchesLoop /\ [AppNext]_appVars =>
          [SignH!Next]_(SignH!vars)
    BY StepsKeepSign DEF AppInv
  <1> QED BY <1>1, <1>2, ImplementsLoop, LoopInvariant, Agreement, PTL
          DEF AppSpec, ImplementsSign, SignH!Spec

-----------------------------------------------------------------------------
(* get_address_apdu in the loop *)

LEMMA StepsKeepAddress ==
    ASSUME AppInv, [AppNext]_appVars
    PROVE  [Address!Next]_(Address!vars)
  <1>1. CASE UNCHANGED addressVars
    BY <1>1, AddressUntouched
  <1>2. CASE ForgetAddress
    BY <1>2, ForgottenAddress
  <1>3. CASE Address!Handler \/ Address!UserAnswers \/ Address!HostAnswers
    BY <1>3 DEF Address!Next
  <1>4. ASSUME NEW header \in Headers, Receive(header)
        PROVE  [Address!Next]_(Address!vars)
    <2>1. CASE CommandBadHeader(header) /\ UNCHANGED handlerVars
      BY <1>1, <2>1 DEF handlerVars
    <2>2. CASE CommandStart(header) /\ Dispatch(states'.ins)
      <3>1. ASSUME NEW param \in Params,
                   Address!Begin(param, states'.ins = "VerifyAddress")
            PROVE  Address!Next
        <4> DEFINE prompt == states'.ins = "VerifyAddress"
        <4>1. Address!Start(param, prompt)
          BY <2>2, <3>1, StartFindsWaiting DEF CommandStart, AppInv, Address!Start
        <4>2. prompt \in BOOLEAN
          OBVIOUS
        <4> QED BY <4>1, <4>2 DEF Address!Next, Address!Environment
      <3> QED BY <1>2, <2>2, <3>1 DEF Dispatch, Forget
    <2>3. ASSUME NEW cmd, Deliver(cmd)
          PROVE  [Address!Next]_(Address!vars)
      BY <1>1, <1>3, <2>3 DEF Deliver, Address!HostAnswers
    <2>4. CASE Forget
      BY <1>2, <2>4 DEF Forget
    <2> QED BY <1>4, <2>1, <2>2, <2>3, <2>4 DEF Receive
  <1> QED BY <1>1, <1>2, <1>3, <1>4
          DEF AppNext, AtPoll, appVars, handlerVars, HandlerStep, PollReturns, PollEnds,
              Pressed, ShutsDown, Ends, Forget, StartsUp, BeforeLaunch

\* Inside the loop get_address_apdu meets only what GetAddress provides for.
THEOREM AddressInLoop == AppSpec => ImplementsAddress
  <1>1. AppInit => Address!Init
    BY DEF AppInit
  <1>2. LoopInv /\ HandlerMatchesLoop /\ [AppNext]_appVars =>
          [Address!Next]_(Address!vars)
    BY StepsKeepAddress DEF AppInv
  <1> QED BY <1>1, <1>2, ImplementsLoop, LoopInvariant, Agreement, PTL
          DEF AppSpec, ImplementsAddress, Address!Spec

-----------------------------------------------------------------------------
(* What the handlers promise, in the application *)

\* Within the loop too, what you see is what you sign ...
THEOREM ReviewedInApp == AppSpec => []SignH!ReviewedIsSigned
  <1>1. /\ SignH!Transactions1Assumption /\ SignH!Paths2Assumption
        /\ SignH!BlocksAssumption /\ SignH!MaxStartsAssumption
        /\ SignH!NoRequestAssumption
    BY SignAssumption
  <1> QED BY <1>1, SignInLoop, SignH!WhatYouSee, PTL DEF ImplementsSign

\* ... and what you do not see is signed only with every consent.
THEOREM BlindInApp == AppSpec => []SignH!BlindSignatureNeedsConsent
  <1>1. /\ SignH!Transactions1Assumption /\ SignH!Paths2Assumption
        /\ SignH!BlocksAssumption /\ SignH!MaxStartsAssumption
        /\ SignH!NoRequestAssumption
    BY SignAssumption
  <1> QED BY <1>1, SignInLoop, SignH!BlindNeedsConsent, PTL DEF ImplementsSign

\* The path is the one the host committed to, and the answer is that of the path.
THEOREM AddressInApp ==
    AppSpec => [](Address!CutIndependent /\ Address!AnswerMatchesRequest)
  <1>1. /\ Address!SizesAssumption /\ Address!ParamsAssumption
        /\ Address!AddressBlocksAssumption /\ Address!PrefixAssumption
        /\ Address!NoAddressRequestAssumption
    BY AddressAssumption
  <1>2. AppSpec => []Address!CutIndependent
    BY <1>1, AddressInLoop, Address!CutsDoNotMatter, PTL DEF ImplementsAddress
  <1>3. AppSpec => []Address!AnswerMatchesRequest
    BY <1>1, AddressInLoop, Address!SameAddress, PTL DEF ImplementsAddress
  <1> QED BY <1>2, <1>3, PTL

\* The three promises hold of the application: LoopPromise of every request and
\* reply, SigningPromise and AddressPromise, which know nothing of a loop, of
\* buttons, menus or restarts, of what is signed, shown and answered.
THEOREM PromisesInApp ==
    AppSpec => KeepsPromise /\ SignH!KeepsPromise /\ Address!KeepsPromise
  <1>1. /\ SignH!Transactions1Assumption /\ SignH!Paths2Assumption
        /\ SignH!BlocksAssumption /\ SignH!MaxStartsAssumption
        /\ SignH!NoRequestAssumption
    BY SignAssumption
  <1>2. /\ Address!SizesAssumption /\ Address!ParamsAssumption
        /\ Address!AddressBlocksAssumption /\ Address!PrefixAssumption
        /\ Address!NoAddressRequestAssumption
    BY AddressAssumption
  <1>3. AppSpec => SignH!KeepsPromise
    BY <1>1, SignInLoop, SignH!PromiseKept, PTL DEF ImplementsSign
  <1>4. AppSpec => Address!KeepsPromise
    BY <1>2, AddressInLoop, Address!PromiseKept, PTL DEF ImplementsAddress
  <1>5. AppSpec => KeepsPromise
    BY ImplementsLoop, PromiseKept, PTL
  <1> QED BY <1>3, <1>4, <1>5, PTL

-----------------------------------------------------------------------------
(* No poll goes on for ever *)

LEMMA FewerOfTwo ==
    ASSUME NEW m \in Nat, NEW n \in Nat, NEW k \in 0..(m - 1)
    PROVE  k + n \in 0..(m + n - 1) /\ n + k \in 0..(n + m - 1)
  OBVIOUS

LEMMA SignStepsCount ==
    ASSUME SignH!SignInv, Address!AddressInv, SignH!Handler \/ SignH!UserAnswers,
           UNCHANGED addressVars
    PROVE  SignH!StepsLeft' + Address!StepsLeft'
              \in 0..(SignH!StepsLeft + Address!StepsLeft - 1)
  <1> DEFINE s == SignH!StepsLeft
             a == Address!StepsLeft
  <1>1. s' \in 0..(s - 1)
    BY SignAssumption, SignH!HandlerCounts, SignH!AnswersCount
  <1>2. s \in Nat
    BY SignAssumption, SignH!StepsLeftType
  <1>3. a \in Nat
    BY AddressAssumption, Address!StepsLeftType DEF Address!AddressInv
  <1>4. a' = a
    BY DEF addressVars, Address!StepsLeft, Address!Rest, Address!Reading
  <1> QED BY <1>1, <1>2, <1>3, <1>4, FewerOfTwo

LEMMA AddressStepsCount ==
    ASSUME SignH!SignInv, Address!AddressInv, Address!Handler \/ Address!UserAnswers,
           UNCHANGED signVars
    PROVE  SignH!StepsLeft' + Address!StepsLeft'
              \in 0..(SignH!StepsLeft + Address!StepsLeft - 1)
  <1> DEFINE s == SignH!StepsLeft
             a == Address!StepsLeft
  <1>1. a' \in 0..(a - 1)
    BY AddressAssumption, Address!HandlerCounts DEF Address!AddressInv
  <1>2. a \in Nat
    BY AddressAssumption, Address!StepsLeftType DEF Address!AddressInv
  <1>3. s \in Nat
    BY SignAssumption, SignH!StepsLeftType
  <1>4. s' = s
    BY DEF signVars, SignH!StepsLeft
  <1> QED BY <1>1, <1>2, <1>3, <1>4, FewerOfTwo

\* A poll cannot spin: whatever constants, blocks, prompts and earlier requests,
\* the future has a bounded number of steps until it awaits the host, has
\* rejected, or has its result.
THEOREM PollsAreBounded == AppSpec => PollsRunOut
  <1> DEFINE Types == SignH!SignInv /\ Address!AddressInv
             Runs == HandlerStep =>
                        SignH!StepsLeft' + Address!StepsLeft'
                           \in 0..(SignH!StepsLeft + Address!StepsLeft - 1)
  <1>1. AppSpec => []SignH!SignInv
    <2>1. /\ SignH!Transactions1Assumption /\ SignH!Paths2Assumption
          /\ SignH!BlocksAssumption /\ SignH!MaxStartsAssumption
          /\ SignH!NoRequestAssumption
      BY SignAssumption
    <2> QED BY <2>1, SignInLoop, SignH!SignInvariant, PTL DEF ImplementsSign
  <1>2. AppSpec => []Address!AddressInv
    <2>1. /\ Address!SizesAssumption /\ Address!ParamsAssumption
          /\ Address!AddressBlocksAssumption /\ Address!PrefixAssumption
          /\ Address!NoAddressRequestAssumption
      BY AddressAssumption
    <2> QED BY <2>1, AddressInLoop, Address!AddressInvariant, PTL
            DEF ImplementsAddress
  <1>3. Types /\ [AppNext]_appVars => [Runs]_appVars
    BY SignStepsCount, AddressStepsCount DEF HandlerStep
  <1> QED BY <1>1, <1>2, <1>3, PTL DEF AppSpec, PollsRunOut

-----------------------------------------------------------------------------
(* No result without a request *)

\* A result leaves the device in one way.
LEMMA ResultsAreReady ==
    ASSUME [AppNext]_appVars,
           pc = "poll", pc' = "next_event", reply'.cmd = "ResultFinal"
    PROVE  /\ HandlerDone /\ UNCHANGED handlerVars
           /\ reply'.ins = states.ins
           /\ UNCHANGED BlindSigning
  <1>1. PollReturns
    <2>1. ~(\E header \in Headers : Receive(header))
      BY DEF Receive, CommandBadHeader, CommandStart, CommandResponse, CommandRefused
    <2>2. ~HandlerStep /\ ~BeforeLaunch /\ ~UNCHANGED appVars
      BY DEF HandlerStep, BeforeLaunch, vars, appVars
    <2>3. ~PollEnds /\ ~ShutsDown
      BY DEF PollEnds, PollExit, PollPanic, ShutsDown, PowerLoss, ButtonExit,
         ButtonCancel, Stop
    <2>4. ~Pressed /\ ~StartsUp
      BY DEF Pressed, ButtonIdle, ButtonBusy, StartsUp, Launch, NotRunning
    <2> QED BY <2>1, <2>2, <2>3, <2>4 DEF AppNext, AtPoll
  <1>2. PollReady /\ HandlerDone /\ UNCHANGED handlerVars
    BY <1>1 DEF PollReturns, PollPending, PollReadyEmpty, PollReject, ErrorReply, Answer
  <1> QED BY <1>2 DEF PollReady, Answer, EndCommand, loopVars, BlindSigning, SettingsGet

LEMMA SignaturesAreEarned ==
    ASSUME AppInv, SignH!ReviewedIsSigned, SignH!BlindSignatureNeedsConsent,
           pc = "poll", HandlerDone, states.ins = "Sign"
    PROVE  SignatureEarned
  <1>1. sign_pc = "signed" /\ states # NoHandler
    BY DEF HandlerDone, AddressIns, AppInv, LoopInv, TypeOK
  <1>2. SettingsGet(states.settings) = BlindSigning
    BY <1>1 DEF AppInv, LoopInv, HandlerSettingsCurrent, NotRunning
  <1>3. sign_request.settings = BlindSigning
    BY <1>1, <1>2 DEF AppInv, HandlerMatchesLoop
  <1>4. CASE known_txn
    BY <1>1, <1>4 DEF SignatureEarned, SignH!ReviewedIsSigned
  <1>5. CASE ~known_txn
    BY <1>1, <1>3, <1>5 DEF SignatureEarned, SignH!BlindSignatureNeedsConsent
  <1> QED BY <1>4, <1>5

LEMMA AddressesAreEarned ==
    ASSUME AppInv, Address!CutIndependent, Address!AnswerMatchesRequest,
           pc = "poll", HandlerDone, states.ins \in AddressIns
    PROVE  AddressEarned(states.ins)
  <1>1. address_pc = "answered" /\ states # NoHandler
    BY DEF HandlerDone, AddressIns, AppInv, LoopInv, TypeOK
  <1>2. address_request.prompt <=> states.ins = "VerifyAddress"
    BY <1>1 DEF AppInv, HandlerMatchesLoop
  <1>3. address_path = Address!Committed
    BY <1>1 DEF Address!CutIndependent
  <1>4. /\ Address!UnderPrefix(Address!Committed)
        /\ result = [pubkey |-> Address!KeyOf(Address!Committed),
                     address |-> Address!AddressOf(Address!Committed)]
    BY <1>1, <1>3 DEF Address!AnswerMatchesRequest
  <1>5. ASSUME states.ins = "VerifyAddress"
        PROVE  address_shown = Address!AddressOf(Address!Committed)
    BY <1>1, <1>2, <1>3, <1>5 DEF Address!AnswerMatchesRequest
  <1> QED BY <1>1, <1>4, <1>5 DEF AddressEarned

\* Loop and handlers together: no order of requests, answers, presses and
\* restarts makes the device send a signature, a key or an address but for the
\* request it answers, with all that was to be shown and asked.
THEOREM EveryResultEarned == AppSpec => ResultIsEarned
  <1> DEFINE Inv == /\ LoopInv /\ HandlerMatchesLoop
                    /\ SignH!ReviewedIsSigned /\ SignH!BlindSignatureNeedsConsent
                    /\ Address!CutIndependent /\ Address!AnswerMatchesRequest
             Earned == pc = "poll" /\ pc' = "next_event" /\ reply'.cmd = "ResultFinal" =>
                          /\ reply'.ins = "Sign" => SignatureEarned
                          /\ reply'.ins \in AddressIns => AddressEarned(reply'.ins)
  <1>1. Inv /\ [AppNext]_appVars => [Earned]_appVars
    BY ResultsAreReady, SignaturesAreEarned, AddressesAreEarned DEF AppInv
  <1> QED BY <1>1, ImplementsLoop, LoopInvariant, Agreement, ReviewedInApp, BlindInApp,
             AddressInApp, PTL DEF AppSpec, ResultIsEarned

\* What is proved of the loop alone, for the build with either storage, with
\* both handlers in it: no part of it looks at a handler.
THEOREM LoopInApp ==
    AppSpec => []LoopInv /\ []HandlerSettingsCurrent
  BY ImplementsLoop, LoopInvariant, HandlerSettings, PTL

-----------------------------------------------------------------------------
(* The pages in front of the loop *)

\* What is on the screen tells which pages have been left, and the application
\* runs behind both.
PagesInv ==
    /\ page \in {"Pending", "LedgerReview", "passed"}
    /\ page = "Pending" => seen = <<>>
    /\ page = "LedgerReview" => seen = <<"Pending">>
    /\ page = "passed" => Review!Reviewed
    /\ pc \notin NotRunning => page = "passed"

\* A start begins with the first page, or with none to read.
LEMMA StartHasPages ==
    /\ page = Review!FirstPage /\ seen = <<>> /\ pc \in NotRunning => PagesInv
    /\ page' = Review!FirstPage /\ seen' = <<>> /\ pc' \in NotRunning => PagesInv'
  BY PendingAssumption DEF Review!FirstPage, PagesInv, Review!Reviewed

\* An element after a sequence of one makes a pair.
LEMMA AppendToOne ==
    ASSUME NEW S, NEW s \in Seq(S), NEW b \in S
    PROVE  \A t \in Seq(S) :
              Len(s) = 1 /\ Len(t) = 2 /\ t[1] = s[1] /\ t[2] = b => Append(s, b) = t
  <1> DEFINE u == Append(s, b)
  <1>1. /\ u \in Seq(S) /\ Len(u) = Len(s) + 1 /\ u[Len(s) + 1] = b
        /\ \A i \in 1..Len(s) : u[i] = s[i]
    OBVIOUS
  <1> HIDE DEF u
  <1>2. ASSUME NEW t \in Seq(S), Len(s) = 1, Len(t) = 2, t[1] = s[1], t[2] = b
        PROVE  u = t
    BY <1>1, <1>2
  <1> QED BY <1>2 DEF u

\* The same of the elements.
LEMMA AppendSecond ==
    ASSUME NEW S, NEW a \in S, NEW b \in S
    PROVE  Append(<<a>>, b) = <<a, b>>
  <1>1. <<a>> \in Seq(S) /\ Len(<<a>>) = 1 /\ <<a>>[1] = a
    OBVIOUS
  <1>2. <<a, b>> \in Seq(S) /\ Len(<<a, b>>) = 2 /\ <<a, b>>[1] = a /\ <<a, b>>[2] = b
    OBVIOUS
  <1> QED BY <1>1, <1>2, AppendToOne

\* A page is left by its own button.
LEMMA PressesTurnPages ==
    ASSUME PagesInv, pc \in NotRunning, pc' = pc, NEW btn, Review!Press(btn)
    PROVE  PagesInv'
  <1> USE DEF PagesInv, Review!Press, Review!NextPage, Review!Leaves, Review!Reviewed
  <1>1. CASE btn # Review!Leaves[page]
    BY <1>1
  <1>2. CASE page = "Pending" /\ btn = Review!Leaves[page]
    <2>1. page' = "LedgerReview" /\ seen' = <<"Pending">>
      BY <1>2
    <2> QED BY <2>1
  <1>3. CASE page = "LedgerReview" /\ btn = Review!Leaves[page]
    <2>1. page' = "passed" /\ seen' = Append(<<"Pending">>, "LedgerReview")
      BY <1>3
    <2>2. Append(<<"Pending">>, "LedgerReview") = <<"Pending", "LedgerReview">>
      <3> DEFINE P == {"Pending", "LedgerReview"}
      <3>1. "Pending" \in P /\ "LedgerReview" \in P
        OBVIOUS
      <3> HIDE DEF P
      <3> QED BY <3>1, AppendSecond, Zenon
    <2>3. seen' = <<"Pending", "LedgerReview">>
      BY <2>1, <2>2, Zenon
    <2> QED BY <2>1, <2>3
  <1> QED BY <1>1, <1>2, <1>3

LEMMA PagesKept ==
    ASSUME PagesInv, UNCHANGED <<page, seen>>, pc' \notin NotRunning => page = "passed"
    PROVE  PagesInv'
  BY DEF PagesInv, Review!Reviewed

\* Whatever ended the application, and whatever the host sends meanwhile: the
\* next start is behind both pages, each read and left anew.
THEOREM EachStart == AppSpec => []EachStartReviewed
  <1>1. AppInit => PagesInv
    BY StartHasPages DEF AppInit, Init, Review!Init, NotRunning
  <1>2. PagesInv /\ [AppNext]_appVars => PagesInv'
    <2> SUFFICES ASSUME PagesInv, [AppNext]_appVars
                 PROVE  PagesInv'
      OBVIOUS
    <2>1. CASE UNCHANGED reviewVars /\ (pc' \in NotRunning \/ pc \notin NotRunning)
      BY <2>1, PagesKept DEF PagesInv, reviewVars
    <2>2. CASE StartsUp
      BY <2>2, PagesKept DEF StartsUp, reviewVars
    <2>3. ASSUME NEW header \in Headers, Receive(header)
          PROVE  PagesInv'
      BY <2>1, <2>3 DEF Receive, CommandBadHeader, CommandStart, CommandResponse,
         CommandRefused, NotRunning
    <2>4. CASE HandlerStep \/ PollReturns \/ Pressed \/ UNCHANGED appVars
      BY <2>1, <2>4 DEF HandlerStep, PollReturns, PollPending, PollReady,
         PollReadyEmpty, PollReject, Pressed, ButtonIdle, ButtonBusy, appVars, vars,
         NotRunning
    <2>5. CASE PollEnds \/ ShutsDown
      BY <2>5, StartHasPages DEF PollEnds, PollExit, PollPanic, ShutsDown, PowerLoss,
         ButtonExit, ButtonCancel, Stop, NotRunning, Ends, Review!Restart
    <2>6. CASE BeforeLaunch
      <3>1. pc' = pc
        BY <2>6 DEF BeforeLaunch, vars
      <3>2. CASE Review!HostGivesUp \/ \E header \in Headers : Review!Command(header)
        BY <3>1, <3>2, PagesKept DEF PagesInv, Review!HostGivesUp, Review!Command
      <3>3. ASSUME pc \in NotRunning, NEW btn, Review!Press(btn)
            PROVE  PagesInv'
        BY <3>1, <3>3, PressesTurnPages
      <3>4. CASE pc \in NotRunning /\ Review!Restart
        BY <3>1, <3>4, StartHasPages DEF Review!Restart
      <3> QED BY <2>6, <3>2, <3>3, <3>4 DEF BeforeLaunch, Review!Next
    <2> QED BY <2>2, <2>3, <2>4, <2>5, <2>6 DEF AppNext, AtPoll
  <1>3. PagesInv => EachStartReviewed
    BY DEF PagesInv, EachStartReviewed
  <1> QED BY <1>1, <1>2, <1>3, PTL DEF AppSpec

\* sample_pending in front of the loop is that of PendingScreen: each end of the
\* application, whatever ends it, puts both pages in front of the next start.
THEOREM ReviewInApp == AppSpec => Review!Spec
  <1>1. AppInit => Review!Init
    BY DEF AppInit
  <1>2. [AppNext]_appVars => [Review!Next]_(Review!vars)
    <2> SUFFICES ASSUME [AppNext]_appVars, ~UNCHANGED reviewVars
                 PROVE  Review!Next
      BY DEF reviewVars, Review!vars
    <2>1. PollEnds \/ ShutsDown \/ BeforeLaunch
      BY DEF AppNext, AtPoll, Receive, HandlerStep, PollReturns, Pressed, StartsUp,
         appVars
    <2> QED BY <2>1 DEF PollEnds, ShutsDown, Ends, BeforeLaunch, Review!Next
  <1> QED BY <1>1, <1>2, PTL DEF AppSpec, Review!Spec
=============================================================================
