--------------------------- MODULE EventLoopProofs ---------------------------
(***************************************************************************)
(* What EventLoop promises for both kinds of build and every set of        *)
(* headers: LoopInv is inductive, and the properties of one state and of   *)
(* one step follow from it.                                                *)
(***************************************************************************)
EXTENDS EventLoop, TLAPS

\* Ins::try_from yields instructions only.
LEMMA DecodedIsIns ==
    ASSUME NEW header, NEW i \in InsTryFrom(header)
    PROVE  i \in Ins
  BY DEF InsTryFrom

\* The menu operators stay within the menu, and a press on the submenu leaves
\* the entry that agrees with the setting it leaves.
LEMMA IdleMoves ==
    ASSUME NEW menu \in IdleMenu, NEW setting \in {0, 1}
    PROVE  /\ IdleLeft(menu, setting) \in IdleMenu
           /\ IdleRight(menu, setting) \in IdleMenu
           /\ IdleBoth(menu, setting) \in IdleMenu
           /\ SettingAfterBoth(menu, setting) \in {0, 1}
  BY DEF IdleMenu, SettingsSubMenu, IdleLeft, IdleRight, IdleBoth,
         SettingAfterBoth, SettingsEntry

\* What move_left, move_right and handle_both leave selected agrees with the
\* setting they leave.
LEMMA IdleMovesAgree ==
    ASSUME NEW menu \in IdleMenu, NEW setting \in {0, 1}
    PROVE  /\ IdleLeft(menu, setting) = "EnableBlindSigning" => setting = 0
           /\ IdleLeft(menu, setting) = "DisableBlindSigning" => setting = 1
           /\ IdleRight(menu, setting) = "EnableBlindSigning" => setting = 0
           /\ IdleRight(menu, setting) = "DisableBlindSigning" => setting = 1
           /\ IdleBoth(menu, setting) = "EnableBlindSigning"
                 => SettingAfterBoth(menu, setting) = 0
           /\ IdleBoth(menu, setting) = "DisableBlindSigning"
                 => SettingAfterBoth(menu, setting) = 1
  BY DEF IdleMenu, SettingsSubMenu, IdleLeft, IdleRight, IdleBoth,
         SettingAfterBoth, SettingsEntry

\* A label says what blind signing is only on the entry that implies it.
LEMMA LabelsTell ==
    ASSUME NEW menu \in IdleMenu
    PROVE  /\ IdleLabel(menu) = "BlindSigningEnabled"
                 => menu = "DisableBlindSigning"
           /\ IdleLabel(menu) = "BlindSigningDisabled"
                 => menu = "EnableBlindSigning"
  BY DEF IdleMenu, SettingsSubMenu, IdleLabel

LEMMA BusyLabelsTell ==
    ASSUME NEW busy \in BusyMenu
    PROVE  /\ BusyLabel(busy) # "BlindSigningEnabled"
           /\ BusyLabel(busy) # "BlindSigningDisabled"
  BY DEF BusyMenu, BusyLabel

-----------------------------------------------------------------------------
LEMMA InitEstablishes == Init => LoopInv
  <1> USE DEF Init
  <1>1. Init => TypeOK
    BY DEF TypeOK, NotRunning, IdleMenu, BusyMenu, LedgerToHost, Replies
  <1>2. Init => MenuEntryCurrent /\ HandlerSettingsCurrent
    BY DEF MenuEntryCurrent, HandlerSettingsCurrent
  <1>3. Init => PressActsOnMenuShown /\ BusyOnlyWhileHostOwes
                  /\ BusyMenuResetWhenDone
    BY DEF PressActsOnMenuShown, BusyOnlyWhileHostOwes, BusyMenuResetWhenDone
  <1> QED BY <1>1, <1>2, <1>3 DEF LoopInv

\* The end of a command keeps the invariant, whether it leaves the request
\* waiting for a block or drops it.
LEMMA EndOfCommand ==
    ASSUME LoopInv, pc \in {"poll", "next_event"}, EndCommand,
           reply' \in Replies, sent_command' \in LedgerToHost,
           \/ states' = NoHandler
           \/ states' = states /\ states # NoHandler /\ sent_command' = "GetChunk"
    PROVE  LoopInv'
  <1> USE DEF LoopInv, EndCommand, loopVars, NotRunning
  <1>1. TypeOK'
    BY DEF TypeOK, Redraw, BusyMenu
  <1>2. MenuEntryCurrent'
    BY DEF MenuEntryCurrent, BlindSigning, SettingsGet
  <1>3. HandlerSettingsCurrent'
    BY DEF HandlerSettingsCurrent, BlindSigning, SettingsGet
  <1>4. PressActsOnMenuShown' /\ BusyOnlyWhileHostOwes' /\ BusyMenuResetWhenDone'
    BY DEF PressActsOnMenuShown, BusyOnlyWhileHostOwes, BusyMenuResetWhenDone,
           Redraw
  <1> QED BY <1>1, <1>2, <1>3, <1>4

\* Stopping changes nothing a later launch reads but nvm, which it keeps.
LEMMA Stops ==
    ASSUME LoopInv, NEW how \in NotRunning, Stop(how)
    PROVE  LoopInv'
  BY DEF LoopInv, Stop, NotRunning, TypeOK, MenuEntryCurrent,
         HandlerSettingsCurrent, PressActsOnMenuShown, BusyOnlyWhileHostOwes,
         BusyMenuResetWhenDone, BlindSigning, SettingsGet

LEMMA Launches == LoopInv /\ Launch => LoopInv'
  <1> SUFFICES ASSUME LoopInv, Launch PROVE LoopInv'
    OBVIOUS
  <1> USE DEF LoopInv, Launch, NotRunning
  <1>1. TypeOK'
    BY DEF TypeOK, Redraw, Answer, Replies, IdleMenu, BusyMenu, LedgerToHost
  <1>2. MenuEntryCurrent' /\ HandlerSettingsCurrent'
    BY DEF MenuEntryCurrent, HandlerSettingsCurrent
  <1>3. PressActsOnMenuShown' /\ BusyOnlyWhileHostOwes' /\ BusyMenuResetWhenDone'
    BY DEF PressActsOnMenuShown, BusyOnlyWhileHostOwes, BusyMenuResetWhenDone,
           Redraw
  <1> QED BY <1>1, <1>2, <1>3

LEMMA Commands == LoopInv /\ Command => LoopInv'
  <1> SUFFICES ASSUME LoopInv, NEW header \in Headers,
                      NEW cmd \in HostToLedger, NEW genuine \in BOOLEAN,
                      \/ CommandBadHeader(header)
                      \/ CommandStart(header)
                      \/ CommandResponse(header, cmd, genuine)
                      \/ CommandRefused(header, cmd, genuine)
               PROVE  LoopInv'
    BY DEF Command, HostToLedger
  <1>1. CASE CommandBadHeader(header)
    BY <1>1 DEF CommandBadHeader, LoopInv, TypeOK, Answer, Replies, NotRunning,
           LedgerToHost, MenuEntryCurrent, HandlerSettingsCurrent,
           PressActsOnMenuShown, BusyOnlyWhileHostOwes, BusyMenuResetWhenDone,
           BlindSigning, SettingsGet
  <1>2. CASE CommandStart(header)
    <2> PICK i \in InsTryFrom(header) :
            states' = [ins |-> i, settings |-> settings]
      BY <1>2 DEF CommandStart
    <2>1. i \in Ins
      BY DecodedIsIns
    <2>2. states' \in Handler /\ states' # NoHandler
      BY <2>1, NoHandlerAssumption DEF Handler, LoopInv, TypeOK
    <2>3. TypeOK'
      BY <1>2, <2>2 DEF CommandStart, LoopInv, TypeOK, LedgerToHost, NotRunning
    <2>4. MenuEntryCurrent' /\ HandlerSettingsCurrent'
      BY <1>2 DEF CommandStart, LoopInv, MenuEntryCurrent, NotRunning,
             HandlerSettingsCurrent, BlindSigning, SettingsGet
    <2>5. PressActsOnMenuShown' /\ BusyOnlyWhileHostOwes'
            /\ BusyMenuResetWhenDone'
      BY <1>2 DEF CommandStart, PressActsOnMenuShown, BusyOnlyWhileHostOwes,
             BusyMenuResetWhenDone
    <2> QED BY <2>3, <2>4, <2>5 DEF LoopInv
  <1>3. CASE CommandResponse(header, cmd, genuine)
    BY <1>3 DEF CommandResponse, Continues, LoopInv, TypeOK, NotRunning,
           LedgerToHost, MenuEntryCurrent, HandlerSettingsCurrent,
           PressActsOnMenuShown, BusyOnlyWhileHostOwes, BusyMenuResetWhenDone,
           BlindSigning, SettingsGet
  <1>4. CASE CommandRefused(header, cmd, genuine)
    <2> PICK i \in InsTryFrom(header) : ErrorReply(i)
      BY <1>4 DEF CommandRefused
    <2>1. i \in Ins
      BY DecodedIsIns
    <2>2. reply' \in Replies /\ sent_command' \in LedgerToHost
      BY <1>4, <2>1 DEF CommandRefused, ErrorReply, Answer, Replies,
             LedgerToHost, LoopInv, TypeOK
    <2> QED BY <1>4, <2>2, EndOfCommand DEF CommandRefused, ErrorReply
  <1> QED BY <1>1, <1>2, <1>3, <1>4

LEMMA Polls == LoopInv /\ Poll => LoopInv'
  <1> SUFFICES ASSUME LoopInv, Poll PROVE LoopInv'
    OBVIOUS
  <1>1. pc = "poll" => states \in Handler /\ states.ins \in Ins
    BY DEF LoopInv, TypeOK, Handler
  <1>2. CASE PollPending
    <2>1. reply' \in Replies /\ sent_command' = "GetChunk"
      BY <1>1, <1>2 DEF PollPending, Answer, Replies, LedgerToHost
    <2>2. states' = states /\ states # NoHandler
      BY <1>2 DEF PollPending, LoopInv, TypeOK
    <2> QED BY <1>2, <2>1, <2>2, EndOfCommand DEF PollPending, LedgerToHost
  <1>3. CASE PollReady
    <2>1. reply' \in Replies
      BY <1>1, <1>3 DEF PollReady, Answer, Replies, LedgerToHost
    <2> QED BY <1>3, <2>1, EndOfCommand DEF PollReady, LedgerToHost
  <1>4. CASE PollReadyEmpty
    <2>1. reply' \in Replies
      BY <1>1, <1>4 DEF PollReadyEmpty, Answer, Replies, LedgerToHost, Ins
    <2> QED BY <1>4, <2>1, EndOfCommand DEF PollReadyEmpty, LoopInv, TypeOK
  <1>5. CASE PollReject
    <2>1. reply' \in Replies
      BY <1>1, <1>5 DEF PollReject, ErrorReply, Answer, Replies, LedgerToHost
    <2> QED BY <1>5, <2>1, EndOfCommand
            DEF PollReject, ErrorReply, LoopInv, TypeOK
  <1>6. CASE PollExit
    BY <1>6, Stops DEF PollExit, NotRunning
  <1>7. CASE PollPanic
    BY <1>7, Stops DEF PollPanic, NotRunning
  <1> QED BY <1>2, <1>3, <1>4, <1>5, <1>6, <1>7 DEF Poll

\* SettingsSet makes the setting the value given to it.
LEMMA SettingsSetSets ==
    ASSUME NEW v, SettingsSet(v)
    PROVE  BlindSigning' = v
  BY DEF SettingsSet, BlindSigning, SettingsGet

LEMMA IdlePresses ==
    ASSUME LoopInv, NEW btn \in Buttons, ButtonIdle(btn)
    PROVE  LoopInv'
  <1> DEFINE setting == BlindSigning
  <1>1. setting \in {0, 1} /\ idle_menu \in IdleMenu
    BY DEF LoopInv, TypeOK, BlindSigning, SettingsGet
  <1>2. /\ idle_menu' \in IdleMenu
        /\ idle_menu' = "EnableBlindSigning"  => BlindSigning' = 0
        /\ idle_menu' = "DisableBlindSigning" => BlindSigning' = 1
        /\ settings' \in {0, 1} /\ nvm' \in {0, 1}
    <2>1. CASE btn = "Both"
      <3>1. /\ idle_menu' = IdleBoth(idle_menu, setting)
            /\ SettingsSet(SettingAfterBoth(idle_menu, setting))
        BY <2>1 DEF ButtonIdle
      <3>2. BlindSigning' = SettingAfterBoth(idle_menu, setting)
        BY <3>1, SettingsSetSets
      <3>3. settings' \in {0, 1} /\ nvm' \in {0, 1}
        BY <1>1, <3>1, IdleMoves DEF SettingsSet, LoopInv, TypeOK
      <3> QED BY <1>1, <3>1, <3>2, <3>3, IdleMoves, IdleMovesAgree
    <2>2. CASE btn # "Both"
      <3>1. idle_menu' \in {IdleLeft(idle_menu, setting),
                            IdleRight(idle_menu, setting)}
        BY <2>2 DEF ButtonIdle, Buttons
      <3>2. UNCHANGED <<settings, nvm>> /\ BlindSigning' = setting
        BY <2>2 DEF ButtonIdle, BlindSigning, SettingsGet
      <3> HIDE DEF setting
      <3> QED BY <1>1, <3>1, <3>2, IdleMoves, IdleMovesAgree
              DEF LoopInv, TypeOK
    <2> QED BY <2>1, <2>2
  <1>3. TypeOK'
    BY <1>2 DEF LoopInv, TypeOK, ButtonIdle, Redraw
  <1>4. MenuEntryCurrent'
    BY <1>2 DEF MenuEntryCurrent
  <1>5. HandlerSettingsCurrent' /\ PressActsOnMenuShown'
          /\ BusyOnlyWhileHostOwes' /\ BusyMenuResetWhenDone'
    BY DEF ButtonIdle, Redraw, LoopInv, HandlerSettingsCurrent,
           PressActsOnMenuShown, BusyOnlyWhileHostOwes, BusyMenuResetWhenDone
  <1> QED BY <1>3, <1>4, <1>5 DEF LoopInv

LEMMA BusyPresses ==
    ASSUME LoopInv, NEW btn \in Buttons, ButtonBusy(btn)
    PROVE  LoopInv'
  <1> USE DEF LoopInv, ButtonBusy
  <1>1. TypeOK'
    BY DEF TypeOK, Redraw, BusyMenu, BusyLeft, BusyRight
  <1>2. MenuEntryCurrent' /\ HandlerSettingsCurrent'
    BY DEF MenuEntryCurrent, HandlerSettingsCurrent, BlindSigning, SettingsGet
  <1>3. PressActsOnMenuShown' /\ BusyOnlyWhileHostOwes' /\ BusyMenuResetWhenDone'
    BY DEF PressActsOnMenuShown, BusyOnlyWhileHostOwes, BusyMenuResetWhenDone,
           Redraw
  <1> QED BY <1>1, <1>2, <1>3

\* Every step of the loop preserves the invariant.
LEMMA LoopInvInductive == LoopInv /\ [Next]_vars => LoopInv'
  <1> SUFFICES ASSUME LoopInv, [Next]_vars PROVE LoopInv'
    OBVIOUS
  <1>1. CASE Launch
    BY <1>1, Launches
  <1>2. CASE PowerLoss
    BY <1>2, Stops DEF PowerLoss, NotRunning
  <1>3. CASE Command
    BY <1>3, Commands
  <1>4. CASE Poll
    BY <1>4, Polls
  <1>5. CASE Button
    <2>1. ASSUME NEW btn \in Buttons, ButtonIdle(btn) \/ ButtonBusy(btn)
          PROVE  LoopInv'
      BY <2>1, IdlePresses, BusyPresses
    <2>2. CASE ButtonExit
      BY <2>2, Stops DEF ButtonExit, NotRunning
    <2>3. CASE ButtonCancel
      BY <2>3, Stops DEF ButtonCancel, NotRunning
    <2> QED BY <1>5, <2>1, <2>2, <2>3 DEF Button
  <1>6. CASE UNCHANGED vars
    BY <1>6 DEF vars, LoopInv, TypeOK, MenuEntryCurrent,
           HandlerSettingsCurrent, PressActsOnMenuShown, BusyOnlyWhileHostOwes,
           BusyMenuResetWhenDone, BlindSigning, SettingsGet
  <1> QED BY <1>1, <1>2, <1>3, <1>4, <1>5, <1>6 DEF Next

-----------------------------------------------------------------------------
(* The theorems *)

\* The loop of app_main keeps LoopInv, for both kinds of build.
THEOREM LoopInvariant == Spec => []LoopInv
  BY InitEstablishes, LoopInvInductive, PTL DEF Spec

\* Every variable keeps its type.
THEOREM TypeCorrect == Spec => []TypeOK
  <1>1. LoopInv => TypeOK
    BY DEF LoopInv
  <1> QED BY <1>1, LoopInvariant, PTL

\* A request never works with a copy of the settings that differs from what
\* the idle menu would show (implementation.rs:461 reads that copy).
THEOREM HandlerSettings == Spec => []HandlerSettingsCurrent
  <1>1. LoopInv => HandlerSettingsCurrent
    BY DEF LoopInv
  <1> QED BY <1>1, LoopInvariant, PTL

\* A press acts on the menu the user is looking at.
THEOREM PressesAreMeant == Spec => []PressActsOnMenuShown
  <1>1. LoopInv => PressActsOnMenuShown
    BY DEF LoopInv
  <1> QED BY <1>1, LoopInvariant, PTL

\* However a request ended, the next one starts with the first page of the busy
\* menu.
THEOREM BusyMenuReset == Spec => []BusyMenuResetWhenDone
  <1>1. LoopInv => BusyMenuResetWhenDone
    BY DEF LoopInv
  <1> QED BY <1>1, LoopInvariant, PTL

\* What the submenu prints about blind signing is what Settings::get answers.
THEOREM ScreenTruthful == Spec => []BlindSigningScreenTruthful
  <1>1. LoopInv => BlindSigningScreenTruthful
    <2> SUFFICES ASSUME LoopInv, pc = "next_event"
                 PROVE  /\ screen = "BlindSigningEnabled"  => BlindSigning = 1
                        /\ screen = "BlindSigningDisabled" => BlindSigning = 0
      BY DEF BlindSigningScreenTruthful
    <2>1. idle_menu \in IdleMenu /\ busy_menu \in BusyMenu
      BY DEF LoopInv, TypeOK
    <2>2. screen \in {"BlindSigningEnabled", "BlindSigningDisabled"} =>
             screen = IdleLabel(idle_menu)
      BY <2>1, BusyLabelsTell DEF LoopInv, PressActsOnMenuShown
    <2> QED BY <2>1, <2>2, LabelsTell DEF LoopInv, MenuEntryCurrent, NotRunning
  <1> QED BY <1>1, LoopInvariant, PTL

\* A request no command can continue is never left pending behind the busy
\* menu.
THEOREM NoStrandedRequest == Spec => []BusyOnlyWhileHostOwes
  <1>1. LoopInv => BusyOnlyWhileHostOwes
    BY DEF LoopInv
  <1> QED BY <1>1, LoopInvariant, PTL

\* Blind signing is switched on by a press on the screen that says it is off,
\* and by nothing else: not by a command, a restart or a stop.
THEOREM Consent == Spec => ConsentToBlindSigning
  <1> DEFINE A == BlindSigning = 0 /\ BlindSigning' = 1 =>
                    pc = "next_event" /\ screen = "BlindSigningDisabled"
  <1>1. LoopInv /\ [Next]_vars => [A]_vars
    <2> SUFFICES ASSUME LoopInv, Next, BlindSigning = 0, BlindSigning' = 1
                 PROVE  pc = "next_event" /\ screen = "BlindSigningDisabled"
      BY DEF vars
    <2>1. UNCHANGED <<settings, nvm>> => FALSE
      BY DEF BlindSigning, SettingsGet
    <2>2. ~Launch
      BY DEF Launch, BlindSigning, SettingsGet
    <2>3. ~PowerLoss /\ ~Command /\ ~Poll
      BY <2>1 DEF PowerLoss, Stop, Command, CommandBadHeader, CommandStart,
             CommandResponse, CommandRefused, ErrorReply, EndCommand, loopVars,
             Poll, PollPending, PollReady, PollReadyEmpty, PollReject,
             PollExit, PollPanic
    <2>4. ~ButtonExit /\ ~ButtonCancel
      BY <2>1 DEF ButtonExit, ButtonCancel, Stop
    <2>5. PICK btn \in Buttons : ButtonIdle(btn)
      BY <2>1, <2>2, <2>3, <2>4 DEF Next, Button, ButtonBusy
    <2>6. btn = "Both" /\ SettingsSet(SettingAfterBoth(idle_menu, BlindSigning))
      BY <2>1, <2>5 DEF ButtonIdle
    <2>7. SettingAfterBoth(idle_menu, BlindSigning) = 1
      BY <2>6, SettingsSetSets
    <2>8. idle_menu = "EnableBlindSigning"
      BY <2>7 DEF SettingAfterBoth
    <2> QED BY <2>5, <2>8 DEF ButtonIdle, LoopInv, PressActsOnMenuShown, IdleLabel
  <1> QED BY <1>1, LoopInvariant, PTL DEF Spec, ConsentToBlindSigning

-----------------------------------------------------------------------------
(* The promise of the loop *)

\* The mapping in the states a step can begin in.
LEMMA SessionIs ==
    ASSUME LoopInv
    PROVE  /\ pc \in NotRunning => Session = "off" /\ Request = NoHandler
           /\ pc = "poll" =>
                 /\ Session = "serving"
                 /\ Request = [ins |-> states.ins, blind |-> BlindSigning]
                 /\ Request.ins = states.ins
           /\ pc = "next_event" /\ states = NoHandler =>
                 Session = "free" /\ Request = NoHandler
           /\ pc = "next_event" /\ states # NoHandler =>
                 /\ Session = "asking"
                 /\ Request = [ins |-> states.ins, blind |-> BlindSigning]
  BY DEF LoopInv, TypeOK, BusyOnlyWhileHostOwes, HandlerSettingsCurrent,
         Session, Request, NotRunning

LEMMA SettingIsBit ==
    ASSUME LoopInv
    PROVE  BlindSigning \in {0, 1}
  BY DEF LoopInv, TypeOK, BlindSigning, SettingsGet

LEMMA LaunchIsPowerOn ==
    ASSUME LoopInv, LoopInv', Launch
    PROVE  Promise!PowerOn
  <1>1. Session = "off" /\ Request = NoHandler
    BY SessionIs DEF Launch
  <1>2. Session' = "free" /\ Request' = NoHandler
    BY DEF Launch, Session, Request, NotRunning
  <1>3. BlindSigning' = IF Nvm THEN BlindSigning ELSE 0
    BY DEF Launch, BlindSigning, SettingsGet
  <1> QED BY <1>1, <1>2, <1>3 DEF Promise!PowerOn, Promise!Reply, Launch, Answer

LEMMA StopIsPowerOff ==
    ASSUME LoopInv, NEW how \in NotRunning, pc \notin NotRunning, Stop(how)
    PROVE  Promise!PowerOff
  <1>1. Session # "off"
    BY DEF Session
  <1>2. Session' = "off" /\ Request' = NoHandler
    BY DEF Stop, Session, Request
  <1>3. UNCHANGED <<BlindSigning, reply>>
    BY DEF Stop, BlindSigning, SettingsGet
  <1> QED BY <1>1, <1>2, <1>3 DEF Promise!PowerOff

\* A command changes the setting at no point.
LEMMA CommandsKeepSetting == Command \/ Poll => UNCHANGED BlindSigning
  BY DEF Command, CommandBadHeader, CommandStart, CommandResponse,
         CommandRefused, ErrorReply, EndCommand, loopVars, Poll, PollPending,
         PollReady, PollReadyEmpty, PollReject, PollExit, PollPanic, Stop,
         BlindSigning, SettingsGet

LEMMA CommandsPromised ==
    ASSUME LoopInv, LoopInv', Command
    PROVE  Promise!Next
  <1> SUFFICES ASSUME NEW header \in Headers,
                      NEW cmd \in HostToLedger, NEW genuine \in BOOLEAN,
                      \/ CommandBadHeader(header)
                      \/ CommandStart(header)
                      \/ CommandResponse(header, cmd, genuine)
                      \/ CommandRefused(header, cmd, genuine)
               PROVE  Promise!Next
    BY DEF Command, HostToLedger
  <1>1. UNCHANGED BlindSigning
    BY CommandsKeepSetting DEF Command
  <1>2. pc = "next_event" /\ Promise!Listening
    <2>1. pc = "next_event"
      BY DEF CommandBadHeader, CommandStart, CommandResponse, CommandRefused
    <2> QED BY <2>1, SessionIs DEF Promise!Listening
  <1>3. CASE CommandBadHeader(header)
    <2>1. UNCHANGED <<Session, Request>>
      BY <1>3 DEF CommandBadHeader, Session, Request, SettingsGet
    <2>2. Promise!Misunderstand
      BY <1>1, <1>2, <1>3, <2>1
         DEF CommandBadHeader, Answer, Promise!Misunderstand, Promise!Reply
    <2> QED BY <2>2 DEF Promise!Next
  <1>4. CASE CommandStart(header)
    <2>1. PICK i \in InsTryFrom(header) :
             states' = [ins |-> i, settings |-> settings]
      BY <1>4 DEF CommandStart
    <2>2. Session' = "serving" /\ pc' = "poll"
      BY <1>4 DEF CommandStart, Session, NotRunning
    <2>3. states' # NoHandler
      BY <2>2 DEF LoopInv, TypeOK
    <2>4. Request' = [ins |-> i, blind |-> BlindSigning]
      BY <1>4, <2>1, <2>2, <2>3
         DEF CommandStart, Request, NotRunning, SettingsGet, BlindSigning
    <2>5. i \in Ins
      BY DecodedIsIns
    <2>6. Promise!Start
      BY <1>1, <1>2, <1>4, <2>2, <2>4, <2>5 DEF CommandStart, Promise!Start
    <2> QED BY <2>6 DEF Promise!Next
  <1>5. CASE CommandResponse(header, cmd, genuine)
    <2>1. Session = "asking"
      BY <1>2, <1>5, SessionIs DEF CommandResponse, Continues
    <2>2. Session' = "serving" /\ UNCHANGED Request
      BY <1>2, <1>5
         DEF CommandResponse, Session, Request, NotRunning, SettingsGet
    <2>3. Promise!Continue
      BY <1>1, <1>5, <2>1, <2>2 DEF CommandResponse, Promise!Continue
    <2> QED BY <2>3 DEF Promise!Next
  <1>6. CASE CommandRefused(header, cmd, genuine)
    <2>1. PICK i \in InsTryFrom(header) : ErrorReply(i)
      BY <1>6 DEF CommandRefused
    <2>2. i \in Ins
      BY DecodedIsIns
    <2>3. Session' = "free" /\ Request' = NoHandler
      BY <2>1 DEF ErrorReply, EndCommand, Session, Request, NotRunning
    <2>4. Promise!Refuse
      BY <1>1, <1>2, <2>1, <2>2, <2>3
         DEF ErrorReply, Answer, Promise!Refuse, Promise!Reply
    <2> QED BY <2>4 DEF Promise!Next
  <1> QED BY <1>3, <1>4, <1>5, <1>6

LEMMA PollsPromised ==
    ASSUME LoopInv, LoopInv', Poll
    PROVE  Promise!Next
  <1> USE DEF Promise!Next
  <1>1. UNCHANGED BlindSigning
    BY CommandsKeepSetting
  <1>2. pc = "poll"
    BY DEF Poll, PollPending, PollReady, PollReadyEmpty, PollReject, PollExit,
           PollPanic
  <1>3. Session = "serving" /\ Request.ins = states.ins
    BY <1>2, SessionIs
  <1>4. ASSUME EndCommand, states' = NoHandler
        PROVE  Session' = "free" /\ Request' = NoHandler
    BY <1>4 DEF EndCommand, Session, Request, NotRunning
  <1>5. CASE PollPending
    <2>1. Session' = "asking" /\ UNCHANGED Request
      BY <1>2, <1>5 DEF PollPending, EndCommand, loopVars, Session, Request,
         NotRunning, SettingsGet, LoopInv, TypeOK
    <2>2. Promise!Ask
      BY <1>1, <1>3, <1>5, <2>1
         DEF PollPending, Answer, Promise!Ask, Promise!Reply
    <2> QED BY <2>2
  <1>6. CASE PollReady \/ PollReadyEmpty \/ PollReject
    <2>1. EndCommand /\ states' = NoHandler
      BY <1>6 DEF PollReady, PollReadyEmpty, PollReject, ErrorReply
    <2>2. Promise!Finish
      BY <1>1, <1>3, <1>4, <1>6, <2>1
         DEF PollReady, PollReadyEmpty, PollReject, ErrorReply, Answer,
             Promise!Finish, Promise!Reply
    <2> QED BY <2>2
  <1>7. CASE PollExit \/ PollPanic
    BY <1>2, <1>7, StopIsPowerOff DEF PollExit, PollPanic, NotRunning
  <1> QED BY <1>5, <1>6, <1>7 DEF Poll

\* A press on the idle menu switches the setting or leaves it, a press on the
\* busy menu leaves it.
LEMMA PressesPromised ==
    ASSUME LoopInv, LoopInv', NEW btn \in Buttons,
           ButtonIdle(btn) \/ ButtonBusy(btn)
    PROVE  Promise!Toggle \/ UNCHANGED Promise!vars
  <1> USE DEF Promise!vars
  <1>1. CASE ButtonBusy(btn)
    BY <1>1 DEF ButtonBusy, Session, Request, BlindSigning, SettingsGet
  <1>2. CASE ButtonIdle(btn)
    <2>1. UNCHANGED <<Session, Request, reply>> /\ Session = "free"
      BY <1>2 DEF ButtonIdle, Session, Request, NotRunning
    <2>2. CASE btn = "Both" /\ idle_menu \in {"EnableBlindSigning", "DisableBlindSigning"}
      <3>1. BlindSigning' = SettingAfterBoth(idle_menu, BlindSigning)
        BY <1>2, <2>2, SettingsSetSets DEF ButtonIdle
      <3>2. BlindSigning' = 1 - BlindSigning
        BY <1>2, <2>2, <3>1
           DEF ButtonIdle, SettingAfterBoth, LoopInv, MenuEntryCurrent, NotRunning
      <3> QED BY <2>1, <3>2 DEF Promise!Toggle
    <2>3. CASE ~(btn = "Both" /\ idle_menu \in {"EnableBlindSigning", "DisableBlindSigning"})
      <3>1. UNCHANGED BlindSigning
        <4>1. CASE btn = "Both"
          BY <1>2, <2>3, <4>1, SettingsSetSets DEF ButtonIdle, SettingAfterBoth
        <4>2. CASE btn # "Both"
          BY <1>2, <4>2 DEF ButtonIdle, BlindSigning, SettingsGet
        <4> QED BY <4>1, <4>2
      <3> QED BY <2>1, <3>1
    <2> QED BY <2>2, <2>3
  <1> QED BY <1>1, <1>2

LEMMA StepsPromised ==
    ASSUME LoopInv, LoopInv', [Next]_vars
    PROVE  [Promise!Next]_(Promise!vars)
  <1>1. CASE Launch
    BY <1>1, LaunchIsPowerOn DEF Promise!Next
  <1>2. CASE PowerLoss
    BY <1>2, StopIsPowerOff DEF PowerLoss, NotRunning, Promise!Next
  <1>3. CASE Command
    BY <1>3, CommandsPromised
  <1>4. CASE Poll
    BY <1>4, PollsPromised
  <1>5. CASE Button
    <2>1. ASSUME NEW btn \in Buttons, ButtonIdle(btn) \/ ButtonBusy(btn)
          PROVE  [Promise!Next]_(Promise!vars)
      BY <2>1, PressesPromised DEF Promise!Next
    <2>2. CASE ButtonExit \/ ButtonCancel
      BY <2>2, StopIsPowerOff DEF ButtonExit, ButtonCancel, NotRunning, Promise!Next
    <2> QED BY <1>5, <2>1, <2>2 DEF Button
  <1>6. CASE UNCHANGED vars
    BY <1>6 DEF vars, Promise!vars, Session, Request, BlindSigning, SettingsGet
  <1> QED BY <1>1, <1>2, <1>3, <1>4, <1>5, <1>6 DEF Next

\* The loop, for both kinds of build, implements what LoopPromise tells host and
\* user.
THEOREM PromiseKept == Spec => KeepsPromise
  <1>1. Init => Promise!Init
    BY DEF Init, Promise!Init, Session, Request, NotRunning, BlindSigning, SettingsGet
  <1>2. LoopInv /\ LoopInv' /\ [Next]_vars => [Promise!Next]_(Promise!vars)
    BY StepsPromised
  <1> QED BY <1>1, <1>2, LoopInvariant, PTL DEF Spec, KeepsPromise, Promise!Spec

-----------------------------------------------------------------------------
(* The button sequence of the tests *)

\* AfterPresses is the function its definition describes: it has eight steps.
LEMMA AfterPressesIs ==
    AfterPresses =
       [n \in 0..Len(ToggleButtons) |->
          IF n = 0 THEN <<idle_menu, BlindSigning>>
                   ELSE PressIdle(AfterPresses[n - 1], ToggleButtons[n])]
  <1> DEFINE Is(h) ==
                h = [n \in 0..Len(ToggleButtons) |->
                       IF n = 0 THEN <<idle_menu, BlindSigning>>
                                ELSE PressIdle(h[n - 1], ToggleButtons[n])]
             P(at, k) == PressIdle(at, ToggleButtons[k])
             p0 == <<idle_menu, BlindSigning>>
             p1 == P(p0, 1)
             p2 == P(p1, 2)
             p3 == P(p2, 3)
             p4 == P(p3, 4)
             p5 == P(p4, 5)
             p6 == P(p5, 6)
             p7 == P(p6, 7)
             p8 == P(p7, 8)
             path == <<p0, p1, p2, p3, p4, p5, p6, p7, p8>>
             g == [n \in 0..8 |-> path[n + 1]]
  <1>1. Is(g)
    <2>1. Len(ToggleButtons) = 8
      BY DEF ToggleButtons
    <2>2. g[0] = p0
      OBVIOUS
    <2>3. ASSUME NEW n \in 1..8
          PROVE  g[n] = P(g[n - 1], n)
      <3> HIDE DEF P, p0
      <3>1. n \in {1, 2, 3, 4, 5, 6, 7, 8}
        OBVIOUS
      <3> QED BY <3>1
    <2> HIDE DEF path
    <2>4. g = [n \in 0..8 |-> IF n = 0 THEN p0 ELSE P(g[n - 1], n)]
      <3> HIDE DEF P, p0
      <3>1. ASSUME NEW n \in 0..8
            PROVE  path[n + 1] = IF n = 0 THEN p0 ELSE P(g[n - 1], n)
        <4>1. g[n] = path[n + 1]
          OBVIOUS
        <4> HIDE DEF g
        <4> QED BY <2>2, <2>3, <4>1
      <3> QED BY <3>1
    <2> HIDE DEF g
    <2> QED BY <2>1, <2>4, Zenon
  <1> HIDE DEF g
  <1>2. AfterPresses = CHOOSE h : Is(h)
    BY Zenon DEF AfterPresses
  <1> HIDE DEF Is
  <1>3. Is(AfterPresses)
    BY <1>1, <1>2
  <1> QED BY <1>3 DEF Is

\* toggleBlindSigningSettings does what the tests use it for, from both values
\* of the setting.
THEOREM ToggleReturns == Spec => []ToggleTestReturns
  <1>1. LoopInv => ToggleTestReturns
    <2> SUFFICES ASSUME LoopInv, idle_menu = "AppMain"
                 PROVE  AfterPresses[Len(ToggleButtons)]
                           = <<"AppMain", 1 - BlindSigning>>
      BY DEF ToggleTestReturns
    <2> DEFINE f == AfterPresses
               s == BlindSigning
    <2>1. s \in {0, 1}
      BY SettingIsBit
    <2>2. /\ f[0] = <<"AppMain", s>>
          /\ \A n \in 1..8 : f[n] = PressIdle(f[n - 1], ToggleButtons[n])
      BY AfterPressesIs DEF ToggleButtons
    <2> HIDE DEF f, s
    <2>3. f[1] = <<"ShowVersion", s>>
      BY <2>2 DEF PressIdle, ToggleButtons, IdleRight
    <2>4. f[2] = <<"Settings", s>>
      BY <2>2, <2>3 DEF PressIdle, ToggleButtons, IdleRight
    <2>5. f[3] = <<SettingsEntry(s), s>>
      BY <2>2, <2>4 DEF PressIdle, ToggleButtons, IdleBoth, SettingAfterBoth
    <2>6. f[4] = <<SettingsEntry(1 - s), 1 - s>>
      BY <2>1, <2>2, <2>5
         DEF PressIdle, ToggleButtons, IdleBoth, SettingAfterBoth, SettingsEntry
    <2>7. f[5] = <<"Back", 1 - s>>
      BY <2>2, <2>6 DEF PressIdle, ToggleButtons, IdleRight, SettingsEntry
    <2>8. f[6] = <<"Settings", 1 - s>>
      BY <2>2, <2>7 DEF PressIdle, ToggleButtons, IdleBoth, SettingAfterBoth
    <2>9. f[7] = <<"ShowVersion", 1 - s>>
      BY <2>2, <2>8 DEF PressIdle, ToggleButtons, IdleLeft
    <2>10. f[8] = <<"AppMain", 1 - s>>
      BY <2>2, <2>9 DEF PressIdle, ToggleButtons, IdleLeft
    <2> QED BY <2>10 DEF f, s, ToggleButtons
  <1> QED BY <1>1, LoopInvariant, PTL
=============================================================================
