--------------------------- MODULE SigningPromise ---------------------------
(***************************************************************************)
(* What the application promises about a signature, without blocks, passes *)
(* or prompts.  A request commits the host to a transaction and a path;    *)
(* the user consents, knowing what it does or blindly; and the signature   *)
(* that may follow is over that transaction with the key of that path.     *)
(***************************************************************************)
EXTENDS Naturals, Sequences

CONSTANTS
    Requests,      \* [tx, path, settings]: what a request commits to
    Reviewable(_), \* a piece whose review the user can go through to the end
    NoRequest,
    NoSignature

VARIABLES stage, commitment, signature

vars == <<stage, commitment, signature>>

\* The pieces that are signed: as many as the length in front of them says.
Signed(request) == SubSeq(Tail(request.tx), 1, Head(request.tx).n)

\* The chain is as long as its length says.
Complete(request) == Head(request.tx).n <= Len(Tail(request.tx))

Init ==
    /\ stage = "idle"
    /\ commitment = NoRequest
    /\ signature = NoSignature

\* A new request takes the place of whatever there was.
Begin(request) ==
    /\ stage' = "open"
    /\ commitment' = request
    /\ signature' = NoSignature

\* The user agrees to a transaction the device can show to the last prompt...
ConsentInformed ==
    /\ stage = "open"
    /\ Complete(commitment)
    /\ \A k \in 1..Len(Signed(commitment)) : Reviewable(Signed(commitment)[k])
    /\ stage' = "consented"
    /\ UNCHANGED <<commitment, signature>>

\* ... or to one it cannot show, when that was switched on before.
ConsentBlindly ==
    /\ stage = "open"
    /\ Complete(commitment)
    /\ commitment.settings = 1
    /\ stage' = "consented"
    /\ UNCHANGED <<commitment, signature>>

Release ==
    /\ stage = "consented"
    /\ Head(commitment.path).underPrefix
    /\ signature' = [path |-> Head(commitment.path), txn |-> Signed(commitment)]
    /\ stage' = "released"
    /\ UNCHANGED commitment

Abandon ==
    /\ stage' = "idle"
    /\ commitment' = NoRequest
    /\ signature' = NoSignature

Next ==
    \/ \E request \in Requests : Begin(request)
    \/ ConsentInformed
    \/ ConsentBlindly
    \/ Release
    \/ Abandon

Spec == Init /\ [][Next]_vars
=============================================================================
