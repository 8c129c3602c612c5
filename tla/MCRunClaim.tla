----------------------------- MODULE MCRunClaim -----------------------------
(* Small instances of RunClaim.                                            *)
EXTENDS RunClaim, TLC

CONSTANTS p1, p2, i1, i2

\* Every process gets a pid of its own.
OwnPids == p1 :> i1 @@ p2 :> i2
=============================================================================
