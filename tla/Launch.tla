------------------------------- MODULE Launch -------------------------------
(***************************************************************************)
(* How a run comes to be: from the request (service.start_run, cmd_run,    *)
(* _detach) over the search for a free name (Run._free_run_id) to the      *)
(* worktree it works in (Run.prepare), and what is left for the next one   *)
(* when it is over.  All of them have one objective on one day, so they    *)
(* derive the same name.  Nothing locks the time between looking for a     *)
(* name and taking it.                                                     *)
(***************************************************************************)
EXTENDS Naturals, FiniteSets

CONSTANTS
    Run,    \* attempts to start a run
    Repo,   \* repositories
    Lanes,  \* names an objective has on one day: base, base-2 ... (99)
    Name,   \* names in [worktree] link, such as .venv
    None,
    Own     \* .worktrees/, .lmloop/, .lmloop.toml and .pi/

ASSUME LaunchAssumption ==
    /\ Lanes \in Nat \ {0, 1}
    /\ None \notin Run \cup Repo /\ Own \notin Name

Lane == 1..Lanes    \* 1 is the derived name itself
Base == 1

VARIABLES
    repo,    \* repository: "none", "dir", "git" (no commit yet), "ready"
    making,  \* repository: a request of the dashboard is making it
    exclude, \* repository: the patterns of .git/info/exclude
    branch,  \* repository, lane: the run that made the branch
    tree,    \* repository, lane: the run that made the worktree
    links,   \* repository, lane: what is linked into the worktree
    log,     \* lane: STATE_DIR/<run id>.log is None, "open", or "closed" by the operator
    run      \* run: where it is, and what it knows

dashboard == <<repo, making>>
git == <<branch, tree, links>>
vars == <<dashboard, exclude, git, log, run>>

Idle == [at |-> "idle",     \* where it is
         repo |-> None,     \* its repository
         back |-> FALSE,    \* --detach
         wants |-> {},      \* what its configuration links
         lane |-> Base,     \* the name it looks at, then its name
         full |-> FALSE,    \* it found every name taken
         seen |-> {},       \* info/exclude as it read it
         raced |-> FALSE]   \* history: another took a name since it began to look

Init ==
    /\ repo \in [Repo -> {"none", "ready"}] /\ making = [r \in Repo |-> FALSE]
    /\ exclude = [r \in Repo |-> {}]
    /\ branch = [r \in Repo |-> [i \in Lane |-> None]]
    /\ tree = branch /\ links = [r \in Repo |-> [i \in Lane |-> {}]]
    /\ log = [i \in Lane |-> None]
    /\ run = [p \in Run |-> Idle]

-----------------------------------------------------------------------------
(* A repository for it: create_project. *)

\* "already exists" is refused, and of two that both looked one mkdir fails.
MakeDir(r) ==
    /\ repo[r] = "none" /\ repo' = [repo EXCEPT ![r] = "dir"]
    /\ making' = [making EXCEPT ![r] = TRUE]
    /\ UNCHANGED <<exclude, git, log, run>>

\* git init, then the first commit
MakeGit(r) ==
    /\ making[r]
    /\ \/ repo[r] = "dir" /\ repo' = [repo EXCEPT ![r] = "git"] /\ UNCHANGED making
       \/ /\ repo[r] = "git" /\ repo' = [repo EXCEPT ![r] = "ready"]
          /\ making' = [making EXCEPT ![r] = FALSE]
    /\ UNCHANGED <<exclude, git, log, run>>

\* A command fails or takes too long, or the dashboard dies: what there is stays.
MakeFails(r) ==
    /\ making[r] /\ making' = [making EXCEPT ![r] = FALSE]
    /\ UNCHANGED <<repo, exclude, git, log, run>>

-----------------------------------------------------------------------------
(* A name for it. *)

Of(f, p) == f[run[p].repo][run[p].lane]
Goes(p, place) == run' = [run EXCEPT ![p].at = place]
Ends(p) == run' = [run EXCEPT ![p] = [Idle EXCEPT !.at = "over"]]

\* What projects() lists: a directory that has a .git
Listed == { r \in Repo : repo[r] \in {"git", "ready"} }

Starts(p, r, background) ==
    /\ run[p].at = "idle"
    /\ \E w \in SUBSET Name :
         run' = [run EXCEPT ![p] = [Idle EXCEPT !.at = "tree?", !.repo = r, !.back = background,
                                                !.wants = w]]
    /\ UNCHANGED <<dashboard, exclude, git, log>>

\* The dashboard's request, always with --detach; a refused one does nothing.
StartRun(p) == \E r \in Listed : Starts(p, r, TRUE)

\* lmloop run, in a shell
CmdRun(p) == \E r \in Listed : Starts(p, r, FALSE)

\* The name is settled: a detached run's parent opens the log.
Settled(p) == IF run[p].back THEN "log" ELSE "tree"

\* Mutant: one lane more than there are.
NextLaneOff(p) ==
    LET it == run[p] IN
      run' = [run EXCEPT ![p] =
                IF it.lane <= Lanes
                  THEN [it EXCEPT !.lane = it.lane + 1, !.at = "tree?"]
                  ELSE [it EXCEPT !.lane = Base, !.full = TRUE, !.at = Settled(p)]]

\* base-2, base-3 ...; with all of them taken, base again
NextLane(p) ==
    LET it == run[p] IN
      run' = [run EXCEPT ![p] =
                IF it.lane < Lanes
                  THEN [it EXCEPT !.lane = it.lane + 1, !.at = "tree?"]
                  ELSE [it EXCEPT !.lane = Base, !.full = TRUE, !.at = Settled(p)]]

\* _taken, its first half: is there a worktree?
LookTree(p) ==
    /\ run[p].at = "tree?"
    /\ \/ Of(tree, p) # None /\ NextLane(p)
       \/ Of(tree, p) = None /\ Goes(p, "branch?")
    /\ UNCHANGED <<dashboard, exclude, git, log>>

\* Mutant: only the worktree is looked for.
LookNoBranch(p) ==
    /\ run[p].at = "branch?" /\ Goes(p, Settled(p))
    /\ UNCHANGED <<dashboard, exclude, git, log>>

\* ... and its second: is there a branch?
LookBranch(p) ==
    /\ run[p].at = "branch?"
    /\ \/ Of(branch, p) # None /\ NextLane(p)
       \/ Of(branch, p) = None /\ Goes(p, Settled(p))
    /\ UNCHANGED <<dashboard, exclude, git, log>>

\* log_path.open("wb"); the child is given the name that was found.
OpenLog(p) ==
    /\ run[p].at = "log" /\ Goes(p, "tree")
    /\ log' = [log EXCEPT ![run[p].lane] = "open"]
    /\ UNCHANGED <<dashboard, exclude, git>>

-----------------------------------------------------------------------------
(* A worktree for it: Run.prepare. *)

\* SystemExit: "already exists"
CheckTree(p) ==
    /\ run[p].at = "tree"
    /\ Goes(p, IF Of(tree, p) # None THEN "taken" ELSE "exclude")
    /\ UNCHANGED <<dashboard, exclude, git, log>>

Exclusions(p) == {Own} \cup run[p].wants

ReadExclude(p) ==
    /\ run[p].at = "exclude"
    /\ LET read == exclude[run[p].repo] IN
         run' = [run EXCEPT ![p].seen = read,
                            ![p].at = IF Exclusions(p) \subseteq read THEN "add" ELSE "append"]
    /\ UNCHANGED <<dashboard, exclude, git, log>>

\* Mutant: the file is written again, with what was read and what is missing.
AppendRewrites(p) ==
    /\ run[p].at = "append" /\ Goes(p, "add")
    /\ exclude' = [exclude EXCEPT ![run[p].repo] = run[p].seen \cup Exclusions(p)]
    /\ UNCHANGED <<dashboard, git, log>>

\* What was missing when it read goes to the end.
AppendExclude(p) ==
    /\ run[p].at = "append" /\ Goes(p, "add")
    /\ exclude' = [exclude EXCEPT ![run[p].repo] = @ \cup (Exclusions(p) \ run[p].seen)]
    /\ UNCHANGED <<dashboard, git, log>>

Looking == {"tree?", "branch?", "log", "tree", "exclude", "append", "add", "checkout"}

\* p goes on, having taken a name from under those who look for one beside it.
Takes(p, place) ==
    run' = [q \in Run |->
              IF q = p THEN [run[p] EXCEPT !.at = place]
              ELSE [run[q] EXCEPT !.raced =
                      @ \/ (run[q].at \in Looking /\ run[q].repo = run[p].repo)]]

\* Mutant: a branch that is there already will do.
AddBranchAny(p) ==
    /\ run[p].at = "add" /\ repo[run[p].repo] = "ready"
    /\ branch' = [branch EXCEPT ![run[p].repo][run[p].lane] = IF @ = None THEN p ELSE @]
    /\ Takes(p, "checkout")
    /\ UNCHANGED <<dashboard, exclude, tree, links, log>>

\* git worktree add -b: git makes the branch, and fails if there is one, or
\* no commit to start it from ...
AddBranch(p) ==
    /\ run[p].at = "add"
    /\ \/ /\ Of(branch, p) = None /\ repo[run[p].repo] = "ready"
          /\ branch' = [branch EXCEPT ![run[p].repo][run[p].lane] = p]
          /\ Takes(p, "checkout")
       \/ Of(branch, p) # None /\ Goes(p, "taken") /\ UNCHANGED branch
       \/ repo[run[p].repo] # "ready" /\ Ends(p) /\ UNCHANGED branch
    /\ UNCHANGED <<dashboard, exclude, tree, links, log>>

\* ... and then the worktree, unless there is one.
AddTree(p) ==
    /\ run[p].at = "checkout"
    /\ \/ /\ Of(tree, p) = None /\ Takes(p, "create")
          /\ tree' = [tree EXCEPT ![run[p].repo][run[p].lane] = p]
       \/ Of(tree, p) # None /\ Goes(p, "taken") /\ UNCHANGED tree
    /\ UNCHANGED <<dashboard, exclude, branch, links, log>>

\* RunDir.create, the claim (nobody else has this directory), .pi/settings.json
Create(p) ==
    /\ run[p].at = "create" /\ Goes(p, "link")
    /\ UNCHANGED <<dashboard, exclude, git, log>>

\* Those names the repository has; a link that fails is left out.
Link(p) ==
    /\ run[p].at = "link" /\ Goes(p, "driving")
    /\ \E w \in SUBSET run[p].wants :
         links' = [links EXCEPT ![run[p].repo][run[p].lane] = @ \cup w]
    /\ UNCHANGED <<dashboard, exclude, branch, tree, log>>

\* An OSError, a GitError, a probe that raises; or it is killed; or its last
\* iteration is over.  The worktree and the branch stay.
Finish(p) ==
    /\ run[p].at \notin {"idle", "taken", "over"} /\ Ends(p)
    /\ UNCHANGED <<dashboard, exclude, git, log>>

-----------------------------------------------------------------------------
(* What the operator does with runs that are over. *)

Over(p) == run[p].at \in {"taken", "over"}

\* git worktree remove, by hand or by an archive
RemoveTree(r, i) ==
    /\ tree[r][i] # None /\ Over(tree[r][i])
    /\ tree' = [tree EXCEPT ![r][i] = None] /\ links' = [links EXCEPT ![r][i] = {}]
    /\ UNCHANGED <<dashboard, exclude, branch, log, run>>

\* git branch -D
DeleteBranch(r, i) ==
    /\ tree[r][i] = None /\ branch[r][i] # None /\ Over(branch[r][i])
    /\ branch' = [branch EXCEPT ![r][i] = None]
    /\ UNCHANGED <<dashboard, exclude, tree, links, log, run>>

\* The log of that name, or the only one it is a prefix of
LogsNamed(i) ==
    IF log[i] # None THEN {i} ELSE IF i = Base THEN { j \in Lane : log[j] # None } ELSE {}

\* lmloop close: one line, appended
Close(i) ==
    /\ Cardinality(LogsNamed(i)) = 1
    /\ log' = [j \in Lane |-> IF j \in LogsNamed(i) THEN "closed" ELSE log[j]]
    /\ UNCHANGED <<dashboard, exclude, git, run>>

-----------------------------------------------------------------------------

Prepare(p) ==
    \/ CheckTree(p) \/ ReadExclude(p) \/ AppendExclude(p) \/ AddBranch(p) \/ AddTree(p)
    \/ Create(p) \/ Link(p)

Begin(p) == StartRun(p) \/ CmdRun(p) \/ LookTree(p) \/ LookBranch(p) \/ OpenLog(p)

CreateProject(r) == MakeDir(r) \/ MakeGit(r) \/ MakeFails(r)

Removes == \E r \in Repo, i \in Lane : RemoveTree(r, i) \/ DeleteBranch(r, i)

Next ==
    \/ \E r \in Repo : CreateProject(r)
    \/ \E p \in Run : Begin(p) \/ Prepare(p) \/ Finish(p)
    \/ Removes \/ \E i \in Lane : Close(i)

Spec == Init /\ [][Next]_vars

-----------------------------------------------------------------------------

Places == Looking \cup {"idle", "create", "link", "driving", "taken", "over"}

TypeOK ==
    /\ repo \in [Repo -> {"none", "dir", "git", "ready"}] /\ making \in [Repo -> BOOLEAN]
    /\ exclude \in [Repo -> SUBSET (Name \cup {Own})]
    /\ branch \in [Repo -> [Lane -> Run \cup {None}]]
    /\ tree \in [Repo -> [Lane -> Run \cup {None}]]
    /\ links \in [Repo -> [Lane -> SUBSET Name]]
    /\ log \in [Lane -> {None, "open", "closed"}]
    /\ run \in [Run -> [at : Places, repo : Repo \cup {None}, back : BOOLEAN, wants : SUBSET Name,
                        lane : Lane, full : BOOLEAN, seen : SUBSET (Name \cup {Own}),
                        raced : BOOLEAN]]

\* A run works in the worktree and on the branch it made itself, however many
\* found the same free name: "Two loops in one worktree commit over each other"
\* (loop.py:309).
OwnTree ==
    \A p \in Run : run[p].at \in {"create", "link", "driving"} =>
                    Of(tree, p) = p /\ Of(branch, p) = p

\* What is linked into a worktree is excluded from its commits, whatever else
\* was written to info/exclude meanwhile: "committing it would put an absolute
\* path to somebody's home directory in the history" (loop.py:239).
LinksExcluded ==
    \A r \in Repo, i \in Lane :
        tree[r][i] # None => {Own} \cup links[r][i] \subseteq exclude[r]

\* A run that no other was started beside never ends at a name that is taken,
\* whatever half of an earlier run was left (loop.py:219-224), as long as a
\* name is left.
DeadEndsAreRaces ==
    \A p \in Run : run[p].at = "taken" => run[p].raced \/ run[p].full

\* "one line, appended, never rewritten" (lmloop.py:604): what the operator
\* recorded of a run stays recorded.
OutcomeKept ==
    [][\A i \in Lane : log[i] = "closed" => log'[i] = "closed"]_vars

=============================================================================
