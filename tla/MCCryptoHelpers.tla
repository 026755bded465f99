--------------------------- MODULE MCCryptoHelpers ---------------------------
(***************************************************************************)
(* An instance of CryptoHelpers for TLC: bytes of base four, so that two   *)
(* of the four values of a byte ask for a zero in front, integers of up to *)
(* three bytes, and a small curve of the form of secp256k1.                *)
(***************************************************************************)
EXTENDS CryptoHelpers

MCSignatures == (1..63) \X (1..63)

MCPrime == 61

\* y^2 = x^3 + 7 modulo a prime.
MCPoints ==
    { p \in (0..60) \X (0..60) :
        (p[2] * p[2]) % MCPrime = (p[1] * p[1] * p[1] + 7) % MCPrime }
=============================================================================
