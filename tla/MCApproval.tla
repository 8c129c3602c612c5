---------------------------- MODULE MCApproval ----------------------------
(* An instance of Approval for TLC. *)
EXTENDS Approval, TLC

CONSTANTS t1, t2

Symmetry == Permutations(Threads)

=============================================================================
