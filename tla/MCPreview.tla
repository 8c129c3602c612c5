------------------------------ MODULE MCPreview ------------------------------
(* A small instance of Preview.                                            *)
EXTENDS Preview, TLC

CONSTANTS s1, s2, w1, w2

\* Servers may be exchanged, and so may the threads that operate.
Symmetry == Permutations({s1, s2}) \cup Permutations({w1, w2})
=============================================================================
