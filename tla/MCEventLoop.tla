----------------------------- MODULE MCEventLoop -----------------------------
(***************************************************************************)
(* Instances of EventLoop for TLC: one good header per instruction and one *)
(* header refused for each field.                                          *)
(***************************************************************************)
EXTENDS EventLoop

MCHeaders ==
    {[cla |-> 0, ins |-> InsCode[i], p1 |-> 0, p2 |-> 0] : i \in Ins}
      \cup {[cla |-> 128, ins |-> 3, p1 |-> 0, p2 |-> 0],
            [cla |-> 0, ins |-> 4, p1 |-> 0, p2 |-> 0],
            [cla |-> 0, ins |-> 3, p1 |-> 1, p2 |-> 0],
            [cla |-> 0, ins |-> 3, p1 |-> 0, p2 |-> 1]}
=============================================================================
