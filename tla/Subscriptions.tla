--------------------------- MODULE Subscriptions ---------------------------
(***************************************************************************)
(* What the store of Web Push subscriptions promises to those who use it,  *)
(* as long as one process writes at a time: a change that was asked for is *)
(* made at one moment, all of it, unless the process of its writer is      *)
(* killed.  Push implements this with two files and a lock.                *)
(***************************************************************************)

EXTENDS Naturals

CONSTANTS
    Writer, Endpoint, None,
    Process     \* the writers of each process: a kill takes them all, and no other

VARIABLES
    subscribed, \* the list
    asked,      \* writer: the change it has asked for, or None
    kills,      \* how many processes have been killed
    mixed       \* two processes were writing at a time: nothing is promised any more

Change == [adds : BOOLEAN, endpoint : Endpoint]

Init ==
  /\ subscribed = {} /\ asked = [p \in Writer |-> None]
  /\ kills = 0 /\ mixed = FALSE

Ask(p) ==
  /\ asked[p] = None
  /\ \E o \in Change : asked' = [asked EXCEPT ![p] = o]
  /\ UNCHANGED <<subscribed, kills, mixed>>

\* The change is made and answered, to the list as it is then.
Make(p) ==
  /\ asked[p] # None
  /\ subscribed' = IF asked[p].adds THEN subscribed \cup {asked[p].endpoint}
                   ELSE subscribed \ {asked[p].endpoint}
  /\ asked' = [asked EXCEPT ![p] = None]
  /\ UNCHANGED <<kills, mixed>>

\* A process is killed, and what its writers asked for is not made.  Nothing else
\* takes a request away: a writer that lives on gets its change.
Die(dead) ==
  /\ kills' = kills + 1
  /\ asked' = [p \in Writer |-> IF p \in dead THEN None ELSE asked[p]]
  /\ UNCHANGED <<subscribed, mixed>>

\* A second process begins to write; from then on the list is anything.
Mix == mixed' = TRUE /\ (mixed \/ UNCHANGED <<subscribed, asked, kills>>)

Next ==
  \/ Mix
  \/ ~mixed /\ \E p \in Writer : Ask(p) \/ Make(p)
  \/ ~mixed /\ \E dead \in Process : Die(dead)

Spec == Init /\ [][Next]_<<subscribed, asked, kills, mixed>>
=============================================================================
