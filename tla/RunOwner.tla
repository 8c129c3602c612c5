------------------------------ MODULE RunOwner ------------------------------
(***************************************************************************)
(* What a claim on a run promises: the run has at most one owner, an owner *)
(* acquires the run only when it has none, and it stays the owner until it *)
(* gives the run up or dies.  RunClaim implements this with files.         *)
(***************************************************************************)

CONSTANTS Proc, None

VARIABLE owner

Init == owner = None

\* A process becomes the owner of a run that has none.
Acquire(p) ==
  /\ owner = None
  /\ owner' = p

\* The owner leaves: by its own release, or because it is killed.
Leave ==
  /\ owner # None
  /\ owner' = None

Next == Leave \/ \E p \in Proc : Acquire(p)

Spec == Init /\ [][Next]_owner
=============================================================================
