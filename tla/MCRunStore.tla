---------------------------- MODULE MCRunStore ----------------------------
(* An instance of RunStore for TLC. *)
EXTENDS RunStore, TLC

CONSTANTS s1, s2, t1

MCStreams == {1}
MCSweepers == {s1, s2}
MCThreads == {t1}

Symmetry == Permutations(MCSweepers)

=============================================================================
