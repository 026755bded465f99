---------------------------- MODULE PendingScreen ----------------------------
(***************************************************************************)
(* sample_pending of rust-app/src/pending.rs, which the SDK runs before    *)
(* the application in builds with the feature pending_review_screen: two   *)
(* pages, each of which waits for one press.                               *)
(***************************************************************************)
EXTENDS Interface, Menu, Sequences

CONSTANTS
    Headers,              \* the APDU headers the host may send
    PendingReviewScreen   \* the feature is on

VARIABLES
    page,  \* what is shown, and "passed" after both
    owed,  \* the host waits for the reply to a command
    seen   \* history: the pages the user has left since the last start

vars == <<page, owed, seen>>

FirstPage == IF PendingReviewScreen THEN "Pending" ELSE "passed"

Init == page = FirstPage /\ owed = FALSE /\ seen = <<>>

\* The button each page waits for, and the page after it.
Leaves == [Pending |-> "Right", LedgerReview |-> "Both"]
NextPage == [Pending |-> "LedgerReview", LedgerReview |-> "passed"]

\* "_ => ()": any other press draws the page again.
Press(btn) ==
    /\ page # "passed"
    /\ IF btn = Leaves[page]
       THEN page' = NextPage[page] /\ seen' = Append(seen, page)
       ELSE UNCHANGED <<page, seen>>
    /\ UNCHANGED owed

\* So does a command, which nobody answers, except that next_event itself
\* refuses a header it cannot decode.
Command(header) ==
    /\ page # "passed" /\ ~owed
    /\ owed' = (InsTryFrom(header) # {})
    /\ UNCHANGED <<page, seen>>

\* The host does not wait for ever.
HostGivesUp == owed /\ owed' = FALSE /\ UNCHANGED <<page, seen>>

\* Mutant of Restart: the pages are for the first start only.
RestartKeepsPage == seen' = <<>> /\ UNCHANGED <<page, owed>>

\* The device is switched on again.
Restart == page' = FirstPage /\ seen' = <<>> /\ UNCHANGED owed

Next ==
    \/ \E btn \in Buttons : Press(btn)
    \/ \E header \in Headers : Command(header)
    \/ HostGivesUp
    \/ Restart

Spec == Init /\ [][Next]_vars

\* Both pages have been read and left, in their order.
Reviewed == PendingReviewScreen => seen = <<"Pending", "LedgerReview">>
=============================================================================
