------------------------------ MODULE EventLoop ------------------------------
(***************************************************************************)
(* app_main of rust-app/src/main_nanos.rs: the loop that receives APDU     *)
(* commands and button events, owns the one pending request (states), the  *)
(* two menus and the blind-signing setting, and redraws the screen.        *)
(*                                                                         *)
(* A command is handled in two steps: poll_apdu_handlers is entered        *)
(* (pc = "poll"), and returns.  In between, the request handler runs; here *)
(* only its outcome matters, SignApdu gives the detail of one handler.     *)
(* Buttons pressed during a poll belong to the prompts of the handler, so  *)
(* the loop sees buttons and commands at pc = "next_event" only.           *)
(***************************************************************************)
EXTENDS Interface, Menu, Sequences

CONSTANTS
    Nvm,        \* target_os = "nanos": the setting lives in NVM, not in RAM
    NoHandler,  \* the None of Option<APDUsFuture>
    Headers     \* the APDU headers the host may send

ASSUME NvmAssumption == Nvm \in BOOLEAN
ASSUME HeadersAssumption == Headers \subseteq ApduHeader

Handler == [ins : Ins, settings : {0, 1}]

ASSUME NoHandlerAssumption == NoHandler \notin Handler

VARIABLES
    pc,            \* "next_event" (waiting in the loop), "poll", and not
                   \* running: "off" or "panicked"
    states,        \* the pending request, or NoHandler
    idle_menu,     \* IdleMenuWithSettings.idle_menu
    settings,      \* IdleMenuWithSettings.settings (the byte of the RAM builds)
    nvm,           \* the static SETTINGS of the nanos build
    busy_menu,
    sent_command,  \* HostIOState: the answer the host owes a pending request
    screen,        \* what was drawn last by the loop
    reply          \* the last reply: to which instruction, status, command

vars == <<pc, states, idle_menu, settings, nvm, busy_menu, sent_command,
          screen, reply>>

NotRunning == {"off", "panicked"}

loopVars == <<idle_menu, settings, nvm>>

Replies == [ins : Ins \cup {"None"}, sw : {"None", "OK", "Error"},
            cmd : LedgerToHost]

-----------------------------------------------------------------------------
(* Settings *)

\* Settings::get on a given copy of the struct.
SettingsGet(copy) == IF Nvm THEN nvm ELSE copy

\* Settings::set on the copy the idle menu owns.
SettingsSet(v) ==
    IF Nvm THEN nvm' = v /\ UNCHANGED settings
           ELSE settings' = v /\ UNCHANGED nvm

\* The value blind signing is governed by.
BlindSigning == SettingsGet(settings)

-----------------------------------------------------------------------------
(* Drawing and the end of a command *)

\* The closure menu of app_main, called with the new state.
Redraw ==
    screen' = IF states' = NoHandler THEN IdleLabel(idle_menu')
                                     ELSE BusyLabel(busy_menu')

\* Mutant of EndCommand: busy_menu is not reset.
EndCommandNoReset ==
    /\ pc' = "next_event"
    /\ UNCHANGED busy_menu
    /\ UNCHANGED loopVars
    /\ Redraw

\* The tail of the Command branch: busy_menu is reset when no request is left.
EndCommand ==
    /\ busy_menu' = IF states' = NoHandler THEN "Working" ELSE busy_menu
    /\ pc' = "next_event"
    /\ UNCHANGED loopVars
    /\ Redraw

Answer(ins, sw, cmd) == reply' = [ins |-> ins, sw |-> sw, cmd |-> cmd]

\* Mutant of ErrorReply: the failed request is kept.
ErrorReplyKeeps(ins) ==
    /\ UNCHANGED states
    /\ Answer(ins, "Error", "None")
    /\ EndCommand

\* Err(sw) from the poll: the request is dropped.
ErrorReply(ins) ==
    /\ states' = NoHandler
    /\ Answer(ins, "Error", "None")
    /\ EndCommand

-----------------------------------------------------------------------------
(* Entry of app_main *)

\* The application is installed, and nvm is as the build initialises it; the
\* rest has no meaning before Launch.
Init ==
    /\ pc = "off"
    /\ states = NoHandler
    /\ idle_menu = "AppMain"
    /\ settings = 0
    /\ nvm = 0
    /\ busy_menu = "Working"
    /\ sent_command = "None"
    /\ screen = IdleLabel("AppMain")
    /\ reply = [ins |-> "None", sw |-> "None", cmd |-> "None"]

\* Mutant of Launch: the RAM byte is not initialised.
LaunchKeepsRam ==
    /\ pc \in NotRunning
    /\ pc' = "next_event"
    /\ states' = NoHandler
    /\ idle_menu' = "AppMain"
    /\ busy_menu' = "Working"
    /\ sent_command' = "None"
    /\ UNCHANGED <<settings, nvm>>
    /\ Redraw
    /\ Answer("None", "None", "None")

\* The application is started again: everything in RAM is new, nvm is kept.
Launch ==
    /\ pc \in NotRunning
    /\ pc' = "next_event"
    /\ states' = NoHandler
    /\ idle_menu' = "AppMain"
    /\ settings' = 0
    /\ busy_menu' = "Working"
    /\ sent_command' = "None"
    /\ Redraw
    /\ Answer("None", "None", "None")
    /\ UNCHANGED nvm

\* exit_app and a lost supply (how = "off") or exiting_panic (how =
\* "panicked").  RAM is lost, which Launch shows.
Stop(how) ==
    /\ pc' = how
    /\ UNCHANGED <<states, idle_menu, settings, nvm, busy_menu, sent_command,
                   screen, reply>>

PowerLoss == pc \notin NotRunning /\ Stop("off")

-----------------------------------------------------------------------------
(* Commands: entering poll_apdu_handlers *)

\* next_event answers a header Ins::try_from refuses, and does not return.
CommandBadHeader(header) ==
    /\ pc = "next_event"
    /\ InsTryFrom(header) = {}
    /\ Answer("None", "Error", "None")
    /\ UNCHANGED <<pc, states, idle_menu, settings, nvm, busy_menu,
                   sent_command, screen>>

\* START replaces whatever request was pending; the closure handed to
\* poll_apdu_handlers copies the settings into the new one.
CommandStart(header) ==
    /\ pc = "next_event"
    /\ \E i \in InsTryFrom(header) :
          states' = [ins |-> i, settings |-> settings]
    /\ sent_command' = "None"
    /\ pc' = "poll"
    /\ UNCHANGED <<idle_menu, settings, nvm, busy_menu, screen, reply>>

\* The answers that continue a pending request: those of a GET_CHUNK, and of
\* these a block only when its hash is the one asked for (genuine).
Continues(cmd, genuine) ==
    /\ states # NoHandler
    /\ sent_command = "GetChunk"
    /\ \/ cmd = "GetChunkResponseSuccess" /\ genuine
       \/ cmd = "GetChunkResponseFailure"

CommandResponse(header, cmd, genuine) ==
    /\ pc = "next_event"
    /\ InsTryFrom(header) # {}
    /\ Continues(cmd, genuine)
    /\ sent_command' = "None"
    /\ pc' = "poll"
    /\ UNCHANGED <<states, idle_menu, settings, nvm, busy_menu, screen, reply>>

\* Any other command is an error, which also drops a pending request.
CommandRefused(header, cmd, genuine) ==
    /\ pc = "next_event"
    /\ cmd # "START"
    /\ ~Continues(cmd, genuine)
    /\ \E i \in InsTryFrom(header) : ErrorReply(i)
    /\ UNCHANGED sent_command

-----------------------------------------------------------------------------
(* Commands: poll_apdu_handlers returns *)

\* The instructions whose handler reads parameters and can reject them.
ReadsParameters == {"VerifyAddress", "GetPubkey", "Sign"}

\* The request waits for a block; the reply carries GET_CHUNK.
PollPending ==
    /\ pc = "poll"
    /\ states.ins \in ReadsParameters
    /\ sent_command' = "GetChunk"
    /\ Answer(states.ins, "OK", "GetChunk")
    /\ UNCHANGED states
    /\ EndCommand

\* The handler ran io.result_final to its end.
PollReady ==
    /\ pc = "poll"
    /\ states.ins \in ReadsParameters \cup {"GetVersion"}
    /\ sent_command' = "ResultFinal"
    /\ Answer(states.ins, "OK", "ResultFinal")
    /\ states' = NoHandler
    /\ EndCommand

\* The arm of GetVersionStr is empty: the future ends and nothing is sent.
PollReadyEmpty ==
    /\ pc = "poll"
    /\ states.ins = "GetVersionStr"
    /\ \E sw \in {"OK", "Error"} : Answer("GetVersionStr", sw, "None")
    /\ states' = NoHandler
    /\ EndCommand
    /\ UNCHANGED sent_command

\* The handler awaited reject().
PollReject ==
    /\ pc = "poll"
    /\ states.ins \in ReadsParameters
    /\ ErrorReply(states.ins)
    /\ UNCHANGED sent_command

\* Ins::Exit calls exit_app.
PollExit == pc = "poll" /\ states.ins = "Exit" /\ Stop("off")

\* A handler that shows an amount can panic (AmountDecimals says when).
PollPanic == pc = "poll" /\ states.ins = "Sign" /\ Stop("panicked")

-----------------------------------------------------------------------------
(* Buttons *)

\* Mutant of ButtonIdle: presses reach the idle menu during a request too.
ButtonIdleAlways(btn) ==
    /\ pc = "next_event"
    /\ ~(btn = "Both" /\ IsExitEntry(idle_menu))
    /\ idle_menu' = CASE btn = "Left"  -> IdleLeft(idle_menu, BlindSigning)
                      [] btn = "Right" -> IdleRight(idle_menu, BlindSigning)
                      [] OTHER         -> IdleBoth(idle_menu, BlindSigning)
    /\ IF btn = "Both"
       THEN SettingsSet(SettingAfterBoth(idle_menu, BlindSigning))
       ELSE UNCHANGED <<settings, nvm>>
    /\ UNCHANGED <<pc, states, busy_menu, sent_command, reply>>
    /\ Redraw

\* A press while no request is pending goes to the idle menu ...
ButtonIdle(btn) ==
    /\ pc = "next_event"
    /\ states = NoHandler
    /\ ~(btn = "Both" /\ IsExitEntry(idle_menu))
    /\ idle_menu' = CASE btn = "Left"  -> IdleLeft(idle_menu, BlindSigning)
                      [] btn = "Right" -> IdleRight(idle_menu, BlindSigning)
                      [] OTHER         -> IdleBoth(idle_menu, BlindSigning)
    /\ IF btn = "Both"
       THEN SettingsSet(SettingAfterBoth(idle_menu, BlindSigning))
       ELSE UNCHANGED <<settings, nvm>>
    /\ UNCHANGED <<pc, states, busy_menu, sent_command, reply>>
    /\ Redraw

\* ... where "Quit" ends the application ...
ButtonExit ==
    /\ pc = "next_event"
    /\ states = NoHandler
    /\ IsExitEntry(idle_menu)
    /\ Stop("off")

\* Mutant of ButtonBusy: the menu is not drawn again.
ButtonBusyStale(btn) ==
    /\ pc = "next_event"
    /\ states # NoHandler
    /\ ~(btn = "Both" /\ IsCancelEntry(busy_menu))
    /\ busy_menu' = CASE btn = "Left"  -> BusyLeft
                      [] btn = "Right" -> BusyRight
                      [] OTHER         -> busy_menu
    /\ UNCHANGED <<pc, states, idle_menu, settings, nvm, sent_command, screen,
                   reply>>

\* ... and while a request is pending to the busy menu ...
ButtonBusy(btn) ==
    /\ pc = "next_event"
    /\ states # NoHandler
    /\ ~(btn = "Both" /\ IsCancelEntry(busy_menu))
    /\ busy_menu' = CASE btn = "Left"  -> BusyLeft
                      [] btn = "Right" -> BusyRight
                      [] OTHER         -> busy_menu
    /\ UNCHANGED <<pc, states, idle_menu, settings, nvm, sent_command, reply>>
    /\ Redraw

\* ... where "Cancel" means to drop the request.  It does not get there: the
\* arm runs inside "match states.borrow().is_none()", and a temporary of a
\* match scrutinee lives until the match ends, so the Ref is still held when
\* states.borrow_mut() asks for the cell, which panics.
ButtonCancel ==
    /\ pc = "next_event"
    /\ states # NoHandler
    /\ IsCancelEntry(busy_menu)
    /\ Stop("panicked")

-----------------------------------------------------------------------------
Command ==
    \E header \in Headers :
        \/ CommandBadHeader(header)
        \/ CommandStart(header)
        \/ \E cmd \in HostToLedger, genuine \in BOOLEAN :
              \/ CommandResponse(header, cmd, genuine)
              \/ CommandRefused(header, cmd, genuine)

Poll == PollPending \/ PollReady \/ PollReadyEmpty \/ PollReject
        \/ PollExit \/ PollPanic

Button ==
    \/ \E btn \in Buttons : ButtonIdle(btn) \/ ButtonBusy(btn)
    \/ ButtonExit
    \/ ButtonCancel

Next == Launch \/ PowerLoss \/ Command \/ Poll \/ Button

Spec == Init /\ [][Next]_vars

-----------------------------------------------------------------------------
(* Properties *)

\* Every variable keeps its type.
TypeOK ==
    /\ pc \in {"next_event", "poll"} \cup NotRunning
    /\ states \in Handler \cup {NoHandler}
    /\ idle_menu \in IdleMenu
    /\ settings \in {0, 1}
    /\ nvm \in {0, 1}
    /\ busy_menu \in BusyMenu
    /\ sent_command \in LedgerToHost
    /\ screen \in {IdleLabel(m) : m \in IdleMenu} \cup {BusyLabel(b) : b \in BusyMenu}
    /\ reply \in Replies
    /\ pc = "poll" => states # NoHandler

\* The submenu caches the setting in the entry it selects, so what it prints
\* could go stale.  Whenever the device waits for a press and prints that
\* blind signing is enabled (disabled), Settings::get answers 1 (0).
BlindSigningScreenTruthful ==
    pc = "next_event" =>
        /\ screen = "BlindSigningEnabled"  => BlindSigning = 1
        /\ screen = "BlindSigningDisabled" => BlindSigning = 0

\* A request works on the copy of Settings taken at its START; on the builds
\* that keep the byte in the struct that copy never differs from the setting
\* the user sees in the idle menu, because no press reaches the idle menu
\* while a request is pending.
HandlerSettingsCurrent ==
    pc \notin NotRunning /\ states # NoHandler =>
        SettingsGet(states.settings) = BlindSigning

\* The menu on the screen is the one the next press acts on, whichever of a
\* reply, an error, a cancellation or a restart drew it.
PressActsOnMenuShown ==
    pc = "next_event" =>
        screen = IF states = NoHandler THEN IdleLabel(idle_menu)
                                       ELSE BusyLabel(busy_menu)

\* A request is pending between two events only while the host owes it the
\* answer to a GET_CHUNK: the device never shows the busy menu for a request
\* that no command can continue.
BusyOnlyWhileHostOwes ==
    pc = "next_event" /\ states # NoHandler => sent_command = "GetChunk"

\* main_nanos.rs:79: "Reset BusyMenu if we are done handling APDU".  Whatever
\* ended the last request, the next one starts with "Working...", so a press of
\* both buttons cannot cancel it unseen.
BusyMenuResetWhenDone ==
    pc = "next_event" /\ states = NoHandler => busy_menu = "Working"

\* The entry the submenu has selected agrees with the setting at every moment
\* the application runs, drawn or not.
MenuEntryCurrent ==
    pc \notin NotRunning =>
        /\ idle_menu = "EnableBlindSigning"  => BlindSigning = 0
        /\ idle_menu = "DisableBlindSigning" => BlindSigning = 1

\* The conjunction that every step preserves, from which the properties of
\* one state follow: what is on the screen is a function of the menus, the
\* menus agree with the setting, and a request with the copy it holds.
LoopInv ==
    /\ TypeOK
    /\ MenuEntryCurrent
    /\ HandlerSettingsCurrent
    /\ PressActsOnMenuShown
    /\ BusyOnlyWhileHostOwes
    /\ BusyMenuResetWhenDone

\* Blind signing becomes enabled only by a press made while the screen says
\* it is disabled, and never during a command.
ConsentToBlindSigning ==
    [][BlindSigning = 0 /\ BlindSigning' = 1 =>
          pc = "next_event" /\ screen = "BlindSigningDisabled"]_vars

\* toggleBlindSigningSettings of ts-tests/common.ts, and where the first n of its
\* presses take the idle menu and the setting.
ToggleButtons ==
    <<"Right", "Right", "Both", "Both", "Right", "Both", "Left", "Left">>

PressIdle(at, btn) ==
    CASE btn = "Left"  -> <<IdleLeft(at[1], at[2]), at[2]>>
      [] btn = "Right" -> <<IdleRight(at[1], at[2]), at[2]>>
      [] OTHER         -> <<IdleBoth(at[1], at[2]), SettingAfterBoth(at[1], at[2])>>

AfterPresses[n \in 0..Len(ToggleButtons)] ==
    IF n = 0 THEN <<idle_menu, BlindSigning>>
             ELSE PressIdle(AfterPresses[n - 1], ToggleButtons[n])

\* signing-tests.ts presses this sequence before and after the blind-signing
\* test, to switch the setting on and then "back to disabled".  From the main
\* page, whichever way it was reached, the eight presses flip the setting and
\* end on the main page.
ToggleTestReturns ==
    pc = "next_event" /\ states = NoHandler /\ idle_menu = "AppMain" =>
        AfterPresses[Len(ToggleButtons)] = <<"AppMain", 1 - BlindSigning>>

\* What an observer sees of the loop: a request waits for the host only where
\* the library lets a command continue it.
Session ==
    IF pc \in NotRunning THEN "off"
    ELSE IF pc = "poll" THEN "serving"
    ELSE IF states = NoHandler THEN "free"
    ELSE IF sent_command = "GetChunk" THEN "asking"
    ELSE "stranded"

Request ==
    IF pc \in NotRunning \/ states = NoHandler
    THEN NoHandler
    ELSE [ins |-> states.ins, blind |-> SettingsGet(states.settings)]

Promise == INSTANCE LoopPromise
    WITH Remembers <- Nvm, NoRequest <- NoHandler, session <- Session,
         request <- Request, blind <- BlindSigning, answer <- reply

\* The loop keeps the promise of LoopPromise: futures, menus, the copies of the
\* setting, NVM and RAM are ways to do just that.  In particular an error reply
\* (main_nanos.rs:75) leaves no request behind, every reply is to the request
\* that is served, and a request keeps its instruction and its setting through
\* all the commands that continue it.
KeepsPromise == Promise!Spec

\* main_nanos.rs:97 logs "Resetting at user direction via busy menu".  The
\* presses on the busy menu, its Cancel entry included, leave the application
\* running.
CancelResetsRequest ==
    [][pc = "next_event" /\ states # NoHandler => pc' # "panicked"]_vars

\* docs/apdu.md:14: GET_VERSION_STR "Gets the app version in string".  When the
\* poll of that instruction returns, its reply carries the result.
GetVersionStrAnswered ==
    [][(pc = "poll" /\ states.ins = "GetVersionStr" /\ pc' = "next_event") =>
          reply'.cmd = "ResultFinal"]_vars
=============================================================================
