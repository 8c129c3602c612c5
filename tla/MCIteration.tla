---------------------------- MODULE MCIteration -----------------------------
(* An instance of Iteration for TLC. *)
EXTENDS Iteration, TLC

Symmetry == Permutations(Step)

=============================================================================
