------------------------------- MODULE MCPush -------------------------------
(* An instance of Push for TLC. *)
EXTENDS Push, TLC

CONSTANTS t1, t2, l1, e1, e2

Symmetry == Permutations(Thread) \cup Permutations(Endpoint)

=============================================================================
