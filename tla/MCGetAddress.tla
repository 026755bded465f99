----------------------------- MODULE MCGetAddress -----------------------------
(***************************************************************************)
(* Instances of GetAddress for TLC: bytes of base five, steps of two       *)
(* bytes, paths of at most three steps.                                    *)
(***************************************************************************)
EXTENDS GetAddress

VARIABLE cooperates  \* host and user do, throughout this behaviour

\* The steps of m/44'/505'/0'; <<3, 0>> and <<1, 2>> are the bytes of the two
\* that are compared.
MCPrefix == <<3, 11, 0>>

\* The prefix, its first step alone, a path under it, the same with a byte that
\* is left over, paths that differ in one step or in the order of the bytes,
\* a path that stops in a step, one with more steps than fit, and nothing.
MCBytes ==
    { <<2, 3, 0, 1, 2>>,
      <<1, 3, 0>>,
      <<3, 3, 0, 1, 2, 4, 1>>,
      <<3, 3, 0, 1, 2, 4, 1, 4>>,
      <<2, 3, 0, 1, 3>>,
      <<2, 0, 3, 2, 1>>,
      <<2, 3, 0, 1>>,
      <<4, 3, 0, 1, 2, 0, 0, 0, 1>>,
      <<0>>,
      <<>> }

\* The ways to cut bytes into three blocks, some of them empty.
Cuts(bytes) ==
    { <<SubSeq(bytes, 1, i), SubSeq(bytes, i + 1, j),
        SubSeq(bytes, j + 1, Len(bytes))>> : i, j \in 0..Len(bytes) }

InThreeBlocks(bytes) == {c \in Cuts(bytes) : FlattenSeq(c) = bytes}

MCParams == UNION {InThreeBlocks(bytes) : bytes \in MCBytes}

MCBlocks ==
    UNION { { [data |-> p[k], next |-> SubSeq(p, k + 1, Len(p))] : k \in 1..Len(p) }
            : p \in MCParams }

-----------------------------------------------------------------------------
\* A host that sends every block it is asked for, a user who answers, and system
\* calls that succeed ...
Cooperation ==
    \/ (\E block \in Blocks : Fetch(block)) \/ UserAnswers
    \/ EndOfChain \/ ReadCount \/ ReadByte \/ ReadStep \/ CheckPrefix
    \/ Derive \/ Answer

\* ... with a new request after each restart.
Requests ==
    \/ pc = "idle" /\ \E param \in Params, prompt \in BOOLEAN : Begin(param, prompt)
    \/ pc = "answered" /\ Stop

mcVars == <<vars, cooperates>>

MCInit == cooperates \in BOOLEAN /\ Init

MCNext ==
    /\ IF cooperates THEN Cooperation \/ Requests ELSE Next
    /\ UNCHANGED cooperates

MCSpec ==
    /\ MCInit
    /\ [][MCNext]_mcVars
    /\ WF_mcVars(cooperates /\ Cooperation /\ UNCHANGED cooperates)

\* A parameter that has all the steps it announces, no more than fit, and lies
\* under the prefix is never refused, however it is cut into blocks and whatever
\* bytes come after the last step.
Servable ==
    LET bytes == FlattenSeq(request.param) IN
    /\ bytes # <<>> /\ Head(bytes) <= MaxSteps
    /\ Len(bytes) > Head(bytes) * StepBytes
    /\ UnderPrefix(PathIn(bytes))

CooperationIsAnswered == (cooperates /\ pc = "count" /\ Servable) ~> pc = "answered"
=============================================================================
