------------------------------ MODULE Interface ------------------------------
(***************************************************************************)
(* The instruction set and the APDU header check of                        *)
(* rust-app/src/interface.rs, and the command names of the block protocol  *)
(* (docs/block-protocol.md) the application is driven by.                  *)
(***************************************************************************)
EXTENDS Naturals

\* enum Ins and its repr(u8) discriminants.
InsCode ==
    [ GetVersion |-> 0, VerifyAddress |-> 1, GetPubkey |-> 2, Sign |-> 3,
      GetVersionStr |-> 254, Exit |-> 255 ]

Ins == {"GetVersion", "VerifyAddress", "GetPubkey", "Sign",
        "GetVersionStr", "Exit"}

ApduHeader == [cla : 0..255, ins : 0..255, p1 : 0..255, p2 : 0..255]

\* Ins::try_from(ApduHeader): the instruction decoded, as a set of at most one
\* element; the empty set is Err(()).
InsTryFrom(header) ==
    { i \in Ins : /\ header.cla = 0
                  /\ header.p1 = 0
                  /\ header.p2 = 0
                  /\ InsCode[i] = header.ins }

\* First payload byte of a command; "Undecodable" is any other byte.
HostToLedger ==
    {"START", "GetChunkResponseSuccess", "GetChunkResponseFailure",
     "PutChunkResponse", "ResultAccumulatingResponse", "Undecodable"}

\* First payload byte of a reply, of which the application uses two; "None"
\* is a reply without one.
LedgerToHost == {"None", "GetChunk", "ResultFinal"}
=============================================================================
