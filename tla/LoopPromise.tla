----------------------------- MODULE LoopPromise -----------------------------
(***************************************************************************)
(* What host and user are promised by the loop, without menus, futures,    *)
(* copies of the setting or the protocol of the library.  There is one     *)
(* request at most, made under the setting of its moment; every reply is   *)
(* to it; it ends with its reply, and the setting rests until it has.      *)
(***************************************************************************)
EXTENDS Naturals

CONSTANTS
    Ins,              \* the instructions
    ReadsParameters,  \* the instructions that ask for blocks and can be refused
    Remembers,        \* the setting outlives the application
    NoRequest

VARIABLES
    session,  \* "off", "free", "serving", or "asking" the host for a block
    request,  \* [ins, blind]: the instruction, and the setting it came under
    blind,    \* the blind-signing setting
    answer    \* the last reply: to which instruction, status, command

vars == <<session, request, blind, answer>>

Reply(ins, sw, cmd) == answer' = [ins |-> ins, sw |-> sw, cmd |-> cmd]

Init ==
    /\ session = "off"
    /\ request = NoRequest
    /\ blind = 0
    /\ answer = [ins |-> "None", sw |-> "None", cmd |-> "None"]

PowerOn ==
    /\ session = "off" /\ session' = "free"
    /\ blind' = IF Remembers THEN blind ELSE 0
    /\ Reply("None", "None", "None")
    /\ UNCHANGED request

\* At any time, by the user, the supply, the host or a panic.
PowerOff ==
    /\ session # "off" /\ session' = "off"
    /\ request' = NoRequest
    /\ UNCHANGED <<blind, answer>>

\* The user switches the setting, with no request in sight.
Toggle ==
    /\ session = "free"
    /\ blind' = 1 - blind
    /\ UNCHANGED <<session, request, answer>>

\* Between two commands of a request, or with none.
Listening == session \in {"free", "asking"}

\* A command that means nothing changes nothing.
Misunderstand ==
    /\ Listening
    /\ Reply("None", "Error", "None")
    /\ UNCHANGED <<session, request, blind>>

\* A new request takes the place of the one that waits.
Start ==
    /\ Listening /\ session' = "serving"
    /\ request' \in [ins : Ins, blind : {blind}]
    /\ UNCHANGED <<blind, answer>>

\* A command out of turn is refused, and ends the request it disturbs.
Refuse ==
    /\ Listening /\ session' = "free"
    /\ request' = NoRequest
    /\ \E ins \in Ins : Reply(ins, "Error", "None")
    /\ UNCHANGED blind

\* The answer asked for goes to the request that asked.
Continue ==
    /\ session = "asking" /\ session' = "serving"
    /\ UNCHANGED <<request, blind, answer>>

Ask ==
    /\ session = "serving" /\ session' = "asking"
    /\ request.ins \in ReadsParameters
    /\ Reply(request.ins, "OK", "GetChunk")
    /\ UNCHANGED <<request, blind>>

\* A result, a refusal, or for GET_VERSION_STR neither: the end of the request.
Finish ==
    /\ session = "serving" /\ session' = "free"
    /\ request' = NoRequest
    /\ \/ /\ request.ins \in ReadsParameters \cup {"GetVersion"}
          /\ Reply(request.ins, "OK", "ResultFinal")
       \/ /\ request.ins \in ReadsParameters
          /\ Reply(request.ins, "Error", "None")
       \/ /\ request.ins = "GetVersionStr"
          /\ \E sw \in {"OK", "Error"} : Reply(request.ins, sw, "None")
    /\ UNCHANGED blind

Next ==
    \/ PowerOn \/ PowerOff
    \/ Toggle
    \/ Misunderstand \/ Start \/ Refuse \/ Continue
    \/ Ask \/ Finish

Spec == Init /\ [][Next]_vars
=============================================================================
