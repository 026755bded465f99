---------------------------- MODULE AddressPromise ----------------------------
(***************************************************************************)
(* What the application promises about an address, without blocks, bytes   *)
(* or system calls.  A request commits the host to a path; the user may be *)
(* shown the address of that path, and is before VERIFY_ADDRESS answers;   *)
(* and the answer is the key and the address of the same path.             *)
(***************************************************************************)
CONSTANTS
    Request,        \* the requests, with a field prompt: is the user to be shown it?
    PathOf(_),      \* the path a request spells
    UnderPrefix(_), \* whether a path is one of the application's
    KeyOf(_),
    AddressOf(_),
    NoRequest,
    NoResult        \* [pubkey, address]: nothing shown or answered

VARIABLES stage, commitment, display, answer

vars == <<stage, commitment, display, answer>>

Init ==
    /\ stage = "idle"
    /\ commitment = NoRequest
    /\ display = NoResult.address
    /\ answer = NoResult

\* A new request takes the place of whatever there was, on the screen as well.
Begin ==
    /\ stage' = "open"
    /\ commitment' \in Request
    /\ display' = NoResult.address
    /\ answer' = NoResult

\* The user sees the address of a path of the application.
Show ==
    /\ stage = "open" /\ stage' = "shown"
    /\ commitment.prompt = TRUE
    /\ UnderPrefix(PathOf(commitment))
    /\ display' = AddressOf(PathOf(commitment))
    /\ UNCHANGED <<commitment, answer>>

\* The host gets it with the key, and not before the user who is to see it.
Release ==
    /\ \/ stage = "shown"
       \/ stage = "open" /\ commitment.prompt = FALSE
    /\ stage' = "answered"
    /\ UnderPrefix(PathOf(commitment))
    /\ answer' = [pubkey |-> KeyOf(PathOf(commitment)),
                  address |-> AddressOf(PathOf(commitment))]
    /\ UNCHANGED <<commitment, display>>

Abandon ==
    /\ stage' = "idle"
    /\ commitment' = NoRequest
    /\ display' = NoResult.address
    /\ answer' = NoResult

Next ==
    \/ Begin
    \/ Show
    \/ Release
    \/ Abandon

Spec == Init /\ [][Next]_vars
=============================================================================
