------------------------------ MODULE Approval ------------------------------
(***************************************************************************)
(* The operator's side of a run that has finished its plan: the loop       *)
(* offers the branch (Run._finalise, RunDir.write_terminal_status), and    *)
(* the dashboard's requests approve it, reject it, ask for changes, send   *)
(* it on, or merge it (service.approval, control, merge_local).  Each      *)
(* request runs in a thread of its own, reads status.json once, and writes *)
(* it back later; no lock is held between the two.                         *)
(***************************************************************************)
EXTENDS Naturals, FiniteSets

CONSTANTS
    Threads,              \* threads of the dashboard
    MaxCommits, MaxItems, \* bounds: commits of the run, open plan items
    MaxKills,             \* bound: kills
    None

\* What a loop offers: the commit it stood at, whether it had written status.json
\* before; whether changes have been requested since, whether status.json was
\* emptied or written over without an answer, and whether a later loop committed
\* while status.json still showed the offer.
Offer == [at : 0..MaxCommits, wrote : BOOLEAN, sent : BOOLEAN, lost : BOOLEAN, passed : BOOLEAN]

ASSUME BoundAssumption ==
    /\ {MaxCommits, MaxItems} \subseteq Nat \ {0} /\ MaxKills \in Nat
    /\ None \notin Offer

Decisions == {"approve", "reject", "request_changes"}
Requests == Decisions \cup {"continue", "merge"}

VARIABLES
    status,  \* status.json, as far as a decision reads it
    loop,    \* the loop: "none", "attached", "working" once it has written status.json, "ending"
    open,    \* plan items without a tick
    branch,  \* commits on the run's branch
    has,     \* how many of them main has
    moved,   \* main has commits the branch has not
    issue,   \* the run's issue
    pc,      \* thread: where its request is
    act,     \* thread: what it was asked to do
    copy,    \* thread: the status it read
    kills,   \* kills so far
    offer,   \* history: what the last loop offered, None once it is decided or worked on
    alone,   \* history, thread: nothing else went on while it did
    stale    \* history: a thread that was not alone wrote status.json

repo == <<branch, has, moved>>
threads == <<pc, act, copy>>
vars == <<status, loop, open, repo, issue, threads, kills, offer, alone, stale>>

Status(awaiting, answer) == [awaiting |-> awaiting, approval |-> answer]
Empty == Status(FALSE, "none")    \* also what an empty file is read as

Init ==
    /\ status = Empty /\ loop = "attached" /\ open = 1
    /\ branch = 0 /\ has = 0 /\ moved = FALSE /\ issue = "claimed"
    /\ pc = [t \in Threads |-> "ready"] /\ act = [t \in Threads |-> None]
    /\ copy = [t \in Threads |-> Empty]
    /\ kills = 0 /\ offer = None /\ alone = [t \in Threads |-> TRUE] /\ stale = FALSE

-----------------------------------------------------------------------------
(* The loop. *)

\* Everybody in flight is no longer alone, but for those in `but`.
Joins(but) == alone' = [t \in Threads |-> pc[t] = "ready" \/ (t \in but /\ alone[t])]

\* lmloop resume, from a shell or as the late child of a "continue"
Resume ==
    /\ loop = "none" /\ loop' = "attached" /\ Joins({})
    /\ UNCHANGED <<status, open, repo, issue, threads, kills, offer, stale>>

\* _on_progress: the first look at a working agent writes all of status.json.
Progress ==
    /\ loop \in {"attached", "working"} /\ open > 0 /\ loop' = "working"
    /\ status' = Empty /\ offer' = None /\ stale' = FALSE
    /\ UNCHANGED <<open, repo, issue, threads, kills, alone>>

\* A commit while status.json shows an earlier offer
Passed == IF offer # None /\ loop = "attached" THEN [offer EXCEPT !.passed = TRUE] ELSE offer

\* Mutant: an item is ticked that has been ticked before.
CommitTicksAgain ==
    /\ loop \in {"attached", "working"} /\ branch < MaxCommits /\ branch' = branch + 1
    /\ open' \in {open, open - 1} /\ moved' \in {moved, FALSE}
    /\ offer' = Passed
    /\ UNCHANGED <<status, loop, has, issue, threads, kills, alone, stale>>

\* What an iteration leaves: a commit, perhaps one that takes main in, and ticks.
\* So may a reviewer: its edits are stashed, its commits stay.  Neither needs
\* status.json: nobody reports on a reviewer, nor on an agent that is over at once.
Commit ==
    /\ loop \in {"attached", "working"} /\ branch < MaxCommits /\ branch' = branch + 1
    /\ open' \in 0..open /\ moved' \in {moved, FALSE}
    /\ offer' = Passed
    /\ UNCHANGED <<status, loop, has, issue, threads, kills, alone, stale>>

\* _review_gate: "changes"
Review ==
    /\ loop \in {"attached", "working"} /\ open = 0 /\ open' = 1
    /\ UNCHANGED <<status, loop, repo, issue, threads, kills, offer, alone, stale>>

\* The offer is undecided, and status.json no longer says so.
Lost == IF offer = None THEN None ELSE [offer EXCEPT !.lost = TRUE]

\* _wait_for_server: the model of an iteration or of a reviewer cannot be reached,
\* and the pause writes all of status.json.
AwaitServer ==
    /\ loop \in {"attached", "working"} /\ loop' = "working"
    /\ status' = Empty /\ offer' = Lost /\ stale' = FALSE
    /\ UNCHANGED <<open, repo, issue, threads, kills, alone>>

\* write_terminal_status: the rest of what the file held is kept.
Terminal(awaiting) ==
    /\ loop \in {"attached", "working"} /\ loop' = "ending"
    /\ status' = Status(awaiting, status.approval)
    /\ UNCHANGED <<open, repo, issue, threads, kills, alone, stale>>

\* "plan complete; awaiting approval"
Offers ==
    /\ open = 0 /\ Terminal(TRUE)
    /\ offer' = [at |-> branch, wrote |-> loop = "working",
                 sent |-> FALSE, lost |-> FALSE, passed |-> FALSE]

\* Any other end
Stops == Terminal(FALSE) /\ offer' = None

Released ==
    /\ loop = "ending" /\ loop' = "none"
    /\ UNCHANGED <<status, open, repo, issue, threads, kills, offer, alone, stale>>

LoopKilled ==
    /\ loop # "none" /\ loop' = "none"
    /\ kills < MaxKills /\ kills' = kills + 1
    /\ UNCHANGED <<status, open, repo, issue, threads, offer, alone, stale>>

\* Somebody commits to main.
Moves ==
    /\ ~moved /\ moved' = TRUE
    /\ UNCHANGED <<status, loop, open, branch, has, issue, threads, kills, offer, alone, stale>>

-----------------------------------------------------------------------------
(* A request. *)

\* The changes that were requested are on their way to the loop, or no longer.
Sent(yes) == IF offer = None THEN None ELSE [offer EXCEPT !.sent = yes]
Delivered == IF offer # None /\ offer.sent THEN None ELSE offer

To(t, where) == pc' = [pc EXCEPT ![t] = where]

\* The request is answered; what the thread held is gone.
Answered(t) ==
    /\ To(t, "ready") /\ act' = [act EXCEPT ![t] = None]
    /\ copy' = [copy EXCEPT ![t] = Empty]
    /\ alone' = [alone EXCEPT ![t] = TRUE]

Goes(t, where) == To(t, where) /\ UNCHANGED <<act, copy, alone>>

Ask(t, a) ==
    /\ pc[t] = "ready"
    /\ To(t, IF a = "continue" THEN "continue" ELSE "check")
    /\ act' = [act EXCEPT ![t] = a]
    /\ alone' = [u \in Threads |->
         IF u = t THEN loop = "none" /\ \A v \in Threads : pc[v] = "ready" ELSE pc[u] = "ready"]
    /\ UNCHANGED <<status, loop, open, repo, issue, copy, kills, offer, stale>>

\* _holder: 409 while the run has a loop
Check(t) ==
    /\ pc[t] \in {"check", "recheck"}
    /\ IF loop # "none" THEN Answered(t)
       ELSE Goes(t, CASE act[t] # "merge" -> "read"
                      [] act[t] = "merge" /\ pc[t] = "check" -> "preflight"
                      [] act[t] = "merge" /\ pc[t] = "recheck" -> "merge")
    /\ UNCHANGED <<status, loop, open, repo, issue, kills, offer, stale>>

\* Mutant: an answer that is already there does not matter.
ReadAwaiting(t) ==
    /\ pc[t] = "read"
    /\ IF ~status.awaiting THEN Answered(t)
       ELSE /\ copy' = [copy EXCEPT ![t] = status] /\ UNCHANGED <<act, alone>>
            /\ To(t, CASE act[t] = "approve" -> "merge"
                       [] act[t] = "reject" -> "record"
                       [] act[t] = "request_changes" -> "append")
    /\ UNCHANGED <<status, loop, open, repo, issue, kills, offer, stale>>

\* 409 unless the run is awaiting approval and has no answer
Read(t) ==
    /\ pc[t] = "read"
    /\ IF ~status.awaiting \/ status.approval # "none" THEN Answered(t)
       ELSE /\ copy' = [copy EXCEPT ![t] = status] /\ UNCHANGED <<act, alone>>
            /\ To(t, CASE act[t] = "approve" -> "merge"
                       [] act[t] = "reject" -> "record"
                       [] act[t] = "request_changes" -> "append")
    /\ UNCHANGED <<status, loop, open, repo, issue, kills, offer, stale>>

\* pr_preflight: the branch is there, and ahead of what is checked out.
Ahead == has < branch

\* The other answers: no branch, main is not checked out, nothing to merge
Preflight(t) ==
    /\ pc[t] = "preflight"
    /\ \/ Answered(t)
       \/ Ahead /\ Goes(t, "recheck")
    /\ UNCHANGED <<status, loop, open, repo, issue, kills, offer, stale>>

\* Main becomes the branch, or a merge with it: whatever the branch is by now.
MainTakes == has' = branch /\ UNCHANGED <<branch, moved>>

\* merge_branch, the merge button: with a merge commit if it takes one
MergeBranch(t) == act[t] = "merge" /\ MainTakes /\ Answered(t)

\* git merge --ff-only (a branch that main already has is up to date)
FastForward(t) == act[t] = "approve" /\ (~moved \/ has = branch) /\ MainTakes /\ Goes(t, "record")

\* Git merges, or it does not and that is the answer.
Merge(t) ==
    /\ pc[t] = "merge"
    /\ \/ Answered(t) /\ UNCHANGED repo
       \/ MergeBranch(t) \/ FastForward(t)
    /\ UNCHANGED <<status, loop, open, issue, kills, offer, stale>>

\* The note becomes plan items, one of them here.
AppendItems(t) ==
    /\ pc[t] = "append" /\ open < MaxItems /\ open' = open + 1
    /\ Goes(t, "record")
    /\ UNCHANGED <<status, loop, repo, issue, kills, offer, stale>>

\* record(): the status that was read, with the answer, over what is there now
Record(t) ==
    /\ pc[t] = "record"
    /\ status' = [copy[t] EXCEPT !.approval = act[t]]
    /\ Goes(t, IF act[t] = "request_changes" THEN "continue" ELSE "bd")
    /\ offer' = IF act[t] = "request_changes" THEN Sent(TRUE) ELSE None
    /\ stale' = (stale \/ ~alone[t])
    /\ UNCHANGED <<loop, open, repo, issue, kills>>

\* bd close, or bd update --status open; best effort
Issue(t) ==
    /\ pc[t] = "bd" /\ Answered(t)
    /\ issue' \in {issue, IF act[t] = "approve" THEN "closed" ELSE "open"}
    /\ UNCHANGED <<status, loop, open, repo, kills, offer, stale>>

Refused(t) ==
    IF act[t] = "request_changes" THEN Goes(t, "restore") ELSE Answered(t)

\* control("continue"): 409 beside a loop
Continue(t) ==
    /\ pc[t] = "continue"
    /\ IF loop # "none" THEN Refused(t) ELSE Goes(t, "spawn")
    /\ UNCHANGED <<status, loop, open, repo, issue, kills, offer, stale>>

\* The child attaches, fails in its first 1.5 seconds, or is still on its way
\* after them, which counts as started (and is a Resume, or nothing).
Spawn(t) ==
    /\ pc[t] = "spawn"
    /\ \/ /\ loop = "none" /\ loop' = "attached"
          /\ To(t, "ready") /\ act' = [act EXCEPT ![t] = None]
          /\ copy' = [copy EXCEPT ![t] = Empty]
          /\ alone' = [u \in Threads |-> pc[u] = "ready" \/ u = t]
          /\ offer' = Delivered
       \/ Answered(t) /\ UNCHANGED loop
          /\ offer' = Delivered
       \/ Refused(t) /\ UNCHANGED <<loop, offer>>
    /\ UNCHANGED <<status, open, repo, issue, kills, stale>>

\* Mutant: a refused continue leaves the answer.
RestoreNothing(t) ==
    /\ pc[t] = "restore" /\ Answered(t)
    /\ stale' = (stale \/ ~alone[t]) /\ offer' = Sent(FALSE)
    /\ UNCHANGED <<status, loop, open, repo, issue, kills>>

\* "The run did not continue, so it is still waiting: keep the buttons."
Restore(t) ==
    /\ pc[t] = "restore" /\ Answered(t)
    /\ status' = [copy[t] EXCEPT !.approval = "none"]
    /\ stale' = (stale \/ ~alone[t]) /\ offer' = Sent(FALSE)
    /\ UNCHANGED <<loop, open, repo, issue, kills>>

\* The dashboard dies.  A status.json it was writing may stay empty.
DashboardKilled ==
    /\ kills < MaxKills /\ kills' = kills + 1
    /\ \E t \in Threads : pc[t] # "ready"
    /\ pc' = [t \in Threads |-> "ready"] /\ act' = [t \in Threads |-> None]
    /\ copy' = [t \in Threads |-> Empty] /\ alone' = [t \in Threads |-> TRUE]
    /\ \/ UNCHANGED status /\ offer' = Delivered
       \/ /\ \E t \in Threads : pc[t] \in {"record", "restore"}
          /\ status' = Empty /\ offer' = IF offer = Delivered THEN Lost ELSE None
    /\ UNCHANGED <<loop, open, repo, issue, stale>>

Loop == Resume \/ Progress \/ Commit \/ Review \/ AwaitServer \/ Offers \/ Stops \/ Released

Serve(t) ==
    \/ Check(t) \/ Read(t) \/ Preflight(t) \/ Merge(t) \/ AppendItems(t) \/ Record(t)
    \/ Issue(t) \/ Continue(t) \/ Spawn(t) \/ Restore(t)

Next ==
    \/ Loop \/ LoopKilled \/ Moves \/ DashboardKilled
    \/ \E t \in Threads : Serve(t) \/ \E a \in Requests : Ask(t, a)

Spec == Init /\ [][Next]_vars

-----------------------------------------------------------------------------

Statuses == [awaiting : BOOLEAN, approval : Decisions \cup {"none"}]

TypeOK ==
    /\ status \in Statuses /\ copy \in [Threads -> Statuses]
    /\ loop \in {"none", "attached", "working", "ending"}
    /\ open \in 0..MaxItems /\ branch \in 0..MaxCommits /\ has \in 0..branch
    /\ {moved, stale} \subseteq BOOLEAN /\ issue \in {"claimed", "closed", "open"}
    /\ pc \in [Threads -> {"ready", "check", "recheck", "read", "preflight", "merge", "append",
                           "record", "bd", "continue", "spawn", "restore"}]
    /\ act \in [Threads -> Requests \cup {None}] /\ alone \in [Threads -> BOOLEAN]
    /\ kills \in 0..MaxKills
    /\ offer \in Offer \cup {None}

Quiet == loop = "none" /\ \A t \in Threads : pc[t] = "ready"

\* A run whose loop ended "awaiting approval" can be answered until it has been:
\* after refused requests, after a dashboard that died, after loops that came and
\* went, after answers to earlier offers.  With three exceptions: the loop had
\* written no status.json of its own, the file was emptied by a kill in the middle
\* of a write or written over by a later loop that waited for a server, or
\* requests overlapped.
DecidableWhenOffered ==
    offer # None /\ offer.wrote /\ ~offer.lost /\ Quiet /\ ~stale => status = Status(TRUE, "none")

\* An answer that nothing overlapped is recorded for work that a loop offered, that
\* nobody answered and no loop worked on before (service.py:522,
\* tests/test_review.py:204), and the branch still holds just that work, unless a
\* later loop's reviewer, or agent, committed before that loop wrote status.json; a
\* late write of an overlapped answer may have put back buttons that no loop stands
\* behind.
DecidesTheOffer ==
    [][\A t \in Threads :
         pc[t] = "record" /\ pc'[t] \in {"bd", "continue"} /\ alone[t] /\ ~stale =>
           offer # None /\ (offer.at = branch \/ offer.passed)]_vars

-----------------------------------------------------------------------------
(* What the source says and the code does not do: TLC finds a              *)
(* counterexample of each, which the README tells.                         *)

\* "A new terminal-but-resumable state" (docs/review.md:102), whose actions are
\* approve, request changes and reject: every loop that offered can be answered.
OfferedIsDecidable == offer # None /\ ~offer.lost /\ Quiet => status = Status(TRUE, "none")

\* The same, also after kills and waits for a server, of a loop that wrote
\* status.json before
OffersOutlive ==
    offer # None /\ offer.wrote /\ Quiet /\ ~stale => status = Status(TRUE, "none")

\* What is decided is what was offered: no commit of a later loop gets between.
DecidesWhatWasOffered ==
    [][\A t \in Threads :
         pc[t] = "record" /\ pc'[t] \in {"bd", "continue"} /\ alone[t] /\ ~stale =>
           offer # None /\ offer.at = branch]_vars

\* An offer is answered once, also by requests that overlap.
DecidedOnce ==
    [][\A t \in Threads :
         pc[t] = "record" /\ pc'[t] \in {"bd", "continue"} => offer # None]_vars

=============================================================================
