---------------------------- MODULE MCSignPromise -----------------------------
(***************************************************************************)
(* SignApdu in two environments: a host and a user who do as they like,    *)
(* and a host and a user who cooperate.                                    *)
(***************************************************************************)
EXTENDS MCSignApdu

VARIABLE cooperates  \* they do, throughout this behaviour

\* A host that sends every block it is asked for, one request after the other,
\* a user who agrees to everything, and system calls that succeed.
Cooperation ==
    \/ \E block \in Blocks :
          \/ ReadLength(block) \/ ReadPath(block) \/ DryPiece(block)
          \/ PromptPiece(block) \/ HashPiece(block)
    \/ ShowPrompt(TRUE) \/ Warn(TRUE) \/ ShowHash(TRUE) \/ Accept(TRUE)
    \/ WarnDisabled \/ EndOfChain \/ DryEnd \/ ShowPanics \/ PieceShown
    \/ PromptEnd \/ HashEnd \/ Sign

\* In between, a new request, or the application is started again.
Requests == (pc \in Idle /\ Begin) \/ ToggleSettings \/ (pc = "panicked" /\ Stop)

liveVars == <<vars, cooperates>>

LiveInit == cooperates \in BOOLEAN /\ Init

LiveNext ==
    /\ IF cooperates THEN Cooperation \/ Requests ELSE Next
    /\ UNCHANGED cooperates

\* The fairness of FairSpec where host and user do as they like, and that
\* somebody goes on where they cooperate.
LiveSpec ==
    /\ LiveInit
    /\ [][LiveNext]_liveVars
    /\ WF_liveVars(~cooperates /\ HostAnswers /\ UNCHANGED cooperates)
    /\ WF_liveVars(~cooperates /\ UserAnswers /\ UNCHANGED cooperates)
    /\ WF_liveVars(~cooperates /\ Handler /\ UNCHANGED cooperates)
    /\ WF_liveVars(cooperates /\ Cooperation /\ UNCHANGED cooperates)

\* What nobody should be refused: a whole transaction and a path of the
\* application, with all of it fit for review, or something in it unknown while
\* blind signing is on.
Signable(r) ==
    LET n == Head(r.tx).n
        pieces == Tail(r.tx)
    IN  /\ Head(r.path).underPrefix /\ n <= Len(pieces)
        /\ \/ \A k \in 1..n : Reviewable(pieces[k])
           \/ r.settings = 1 /\ \E k \in 1..n : ~DryAccepts(pieces[k])

\* The other half of the promise: the handler does not keep it by refusing.
\* Who cooperates through all three passes gets the signature.
CooperationIsSigned == (cooperates /\ pc = "length" /\ Signable(request)) ~> pc = "signed"
=============================================================================
