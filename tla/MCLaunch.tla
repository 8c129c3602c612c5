------------------------------ MODULE MCLaunch ------------------------------
(* An instance of Launch for TLC. *)
EXTENDS Launch, TLC

Symmetry == Permutations(Run)

=============================================================================
