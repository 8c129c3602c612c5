---------------------------- MODULE Launch_proofs ----------------------------
(***************************************************************************)
(* Theorems about Launch, for every number of starts, repositories, names  *)
(* and lanes: each run works in a worktree and on a branch of its own,     *)
(* what is linked is excluded, and only a race ends at a taken name.       *)
(***************************************************************************)
EXTENDS Launch, TLAPS

\* A run that is somewhere has a repository.
Placed == \A p \in Run : run[p].at \notin {"idle", "over"} => run[p].repo \in Repo

\* Whoever got the branch keeps it, and then the worktree.
Owned ==
    \A p \in Run :
        /\ run[p].at \in {"checkout", "create", "link", "driving"} => Of(branch, p) = p
        /\ run[p].at \in {"create", "link", "driving"} => Of(tree, p) = p

\* A worktree that is not there has no links.
NoTree == \A r \in Repo, i \in Lane : tree[r][i] = None => links[r][i] = {}

\* info/exclude has what a run read in it, and what it needs once it has written.
Read == \A p \in Run : run[p].at = "append" => run[p].seen \subseteq exclude[run[p].repo]

Written ==
    \A p \in Run :
        run[p].at \in {"add", "checkout", "create", "link"} =>
            Exclusions(p) \subseteq exclude[run[p].repo]

\* Nobody took the name from a run that was alone since it found it free.
Free ==
    \A p \in Run :
        ~run[p].raced /\ ~run[p].full =>
            /\ run[p].at \in {"branch?", "log", "tree", "exclude", "append", "add", "checkout"} =>
                 Of(tree, p) = None
            /\ run[p].at \in {"log", "tree", "exclude", "append", "add"} => Of(branch, p) = None

Inv ==
    /\ TypeOK /\ Placed /\ Owned /\ NoTree /\ Read /\ Written /\ Free
    /\ LinksExcluded /\ DeadEndsAreRaces

-----------------------------------------------------------------------------

LEMMA InvInit == Init => Inv
<1> SUFFICES ASSUME Init PROVE Inv OBVIOUS
<1> USE LaunchAssumption DEF Init, Idle, Lane, Base
<1>1. TypeOK BY DEF TypeOK, Places, Looking
<1>2. \A p \in Run : run[p].at = "idle" BY DEF Idle
<1>3. \A r \in Repo, i \in Lane : tree[r][i] = None /\ links[r][i] = {} OBVIOUS
<1> QED
  BY <1>1, <1>2, <1>3
  DEF Inv, Placed, Owned, NoTree, Read, Written, Free, LinksExcluded, DeadEndsAreRaces

-----------------------------------------------------------------------------
(* The steps of the operator and of create_project. *)

LEMMA ProjectStep == ASSUME Inv, NEW r \in Repo, CreateProject(r) PROVE Inv'
<1> UNCHANGED <<exclude, branch, tree, links, log, run>>
  BY DEF CreateProject, MakeDir, MakeGit, MakeFails, git
<1>1. TypeOK' BY DEF Inv, TypeOK, CreateProject, MakeDir, MakeGit, MakeFails
<1> QED
  BY <1>1
  DEF Inv, Placed, Owned, NoTree, Read, Written, Free, LinksExcluded, DeadEndsAreRaces, Of,
      Exclusions

LEMMA RemovesStep == ASSUME Inv, Removes PROVE Inv'
<1> USE LaunchAssumption
<1>1. PICK r \in Repo, i \in Lane : RemoveTree(r, i) \/ DeleteBranch(r, i) BY DEF Removes
<1>2. CASE RemoveTree(r, i)
  <2> USE <1>2 DEF RemoveTree, dashboard
  <2>1. TypeOK' BY DEF Inv, TypeOK
  <2>2. Owned' BY DEF Inv, TypeOK, Owned, Placed, Of, Over
  <2>3. NoTree' /\ LinksExcluded' BY DEF Inv, TypeOK, NoTree, LinksExcluded
  <2>4. Free' BY DEF Inv, TypeOK, Free, Of, Placed
  <2> QED
    BY <2>1, <2>2, <2>3, <2>4 DEF Inv, Placed, Read, Written, DeadEndsAreRaces, Exclusions
<1>3. CASE DeleteBranch(r, i)
  <2> USE <1>3 DEF DeleteBranch, dashboard
  <2>1. TypeOK' BY DEF Inv, TypeOK
  <2>2. Owned' BY DEF Inv, TypeOK, Owned, Placed, Of, Over
  <2>3. Free' BY DEF Inv, TypeOK, Free, Of, Placed
  <2> QED
    BY <2>1, <2>2, <2>3
    DEF Inv, Placed, NoTree, LinksExcluded, Read, Written, DeadEndsAreRaces, Exclusions
<1> QED BY <1>1, <1>2, <1>3

LEMMA CloseStep == ASSUME Inv, NEW i \in Lane, Close(i) PROVE Inv'
<1> USE DEF Close, dashboard, git
<1>1. TypeOK' BY DEF Inv, TypeOK
<1> QED
  BY <1>1
  DEF Inv, Placed, Owned, NoTree, Read, Written, Free, LinksExcluded, DeadEndsAreRaces, Of,
      Exclusions

-----------------------------------------------------------------------------
(* What a run may know, and that the updates of it stay inside. *)

Record ==
    [at : Places, repo : Repo \cup {None}, back : BOOLEAN, wants : SUBSET Name,
     lane : Lane, full : BOOLEAN, seen : SUBSET (Name \cup {Own}), raced : BOOLEAN]

LEMMA IdleRecord == Idle \in Record
BY LaunchAssumption DEF Record, Idle, Places, Looking, Lane, Base

LEMMA RecordGoes ==
    ASSUME NEW x \in Record, NEW place \in Places PROVE [x EXCEPT !.at = place] \in Record
BY DEF Record

LEMMA RecordStarts ==
    ASSUME NEW r \in Repo, NEW w \in SUBSET Name, NEW background \in BOOLEAN
    PROVE  [Idle EXCEPT !.at = "tree?", !.repo = r, !.back = background, !.wants = w] \in Record
BY IdleRecord DEF Record, Places, Looking

LEMMA RecordNext ==
    ASSUME NEW x \in Record, NEW i \in Lane, NEW place \in Places
    PROVE  /\ [x EXCEPT !.lane = i, !.at = place] \in Record
           /\ [x EXCEPT !.lane = i, !.full = TRUE, !.at = place] \in Record
BY DEF Record

LEMMA RecordReads ==
    ASSUME NEW x \in Record, NEW s \in SUBSET (Name \cup {Own}), NEW place \in Places
    PROVE  [x EXCEPT !.seen = s, !.at = place] \in Record
BY DEF Record

LEMMA RecordRaces ==
    ASSUME NEW x \in Record, NEW r \in BOOLEAN PROVE [x EXCEPT !.raced = r] \in Record
BY DEF Record

LEMMA OneRecord ==
    ASSUME run \in [Run -> Record], NEW p \in Run, NEW x \in Record
    PROVE  [run EXCEPT ![p] = x] \in [Run -> Record]
OBVIOUS

LEMMA GoesTyped ==
    ASSUME run \in [Run -> Record], NEW p \in Run, NEW place \in Places, Goes(p, place)
    PROVE  run' \in [Run -> Record] /\ run'[p] = [run[p] EXCEPT !.at = place]
<1>1. [run[p] EXCEPT !.at = place] \in Record BY RecordGoes
<1> QED BY <1>1 DEF Goes

-----------------------------------------------------------------------------
(* The steps of a run that change nothing but itself. *)

LEMMA BeginTyped ==
    ASSUME run \in [Run -> Record], NEW p \in Run, Begin(p)
    PROVE  run' \in [Run -> Record]
<1> USE LaunchAssumption
<1> DEFINE x == run[p]
<1>1. x \in Record /\ x.lane \in Lane BY DEF Record
<1>2. {"tree?", "branch?", "tree", Settled(p)} \subseteq Places BY DEF Settled, Places, Looking
<1>3. CASE StartRun(p) \/ CmdRun(p)
  <2>1. PICK r \in Repo, w \in SUBSET Name, background \in BOOLEAN :
          run' = [run EXCEPT ![p] = [Idle EXCEPT !.at = "tree?", !.repo = r,
                                                 !.back = background, !.wants = w]]
    BY <1>3 DEF StartRun, CmdRun, Starts, Listed
  <2> QED BY <2>1, RecordStarts, OneRecord
<1>4. ASSUME NextLane(p) PROVE run' \in [Run -> Record]
  <2>1. CASE x.lane < Lanes
    <3>1. run' = [run EXCEPT ![p] = [x EXCEPT !.lane = x.lane + 1, !.at = "tree?"]]
      BY <1>4, <2>1 DEF NextLane
    <3>2. x.lane + 1 \in Lane BY <1>1, <2>1 DEF Lane
    <3> QED BY <1>1, <1>2, <3>1, <3>2, RecordNext, OneRecord
  <2>2. CASE ~(x.lane < Lanes)
    <3>1. run' = [run EXCEPT ![p] = [x EXCEPT !.lane = Base, !.full = TRUE, !.at = Settled(p)]]
      BY <1>4, <2>2 DEF NextLane
    <3>2. Base \in Lane BY DEF Base, Lane
    <3> QED BY <1>1, <1>2, <3>1, <3>2, RecordNext, OneRecord
  <2> QED BY <2>1, <2>2
<1>5. CASE LookTree(p) BY <1>2, <1>4, <1>5, GoesTyped DEF LookTree
<1>6. CASE LookBranch(p) BY <1>2, <1>4, <1>6, GoesTyped DEF LookBranch
<1>7. CASE OpenLog(p) BY <1>2, <1>7, GoesTyped DEF OpenLog
<1> QED BY <1>3, <1>5, <1>6, <1>7 DEF Begin

\* NextLane moves on to the next name, or gives up and notes it.
LEMMA NextLaneMoves ==
    ASSUME TypeOK, NEW p \in Run, NextLane(p)
    PROVE  /\ run'[p].at \in {"tree?", "log", "tree"}
           /\ run'[p].repo = run[p].repo
           /\ run'[p].at # "tree?" => run'[p].full
<1>1. run[p].lane < Lanes =>
        run'[p] = [run[p] EXCEPT !.lane = run[p].lane + 1, !.at = "tree?"]
  BY DEF TypeOK, NextLane
<1>2. ~(run[p].lane < Lanes) =>
        run'[p] = [run[p] EXCEPT !.lane = Base, !.full = TRUE, !.at = Settled(p)]
  BY DEF TypeOK, NextLane
<1>3. run[p] \in Record BY DEF TypeOK, Record
<1> QED BY <1>1, <1>2, <1>3 DEF Settled, Record

LEMMA BeginStep == ASSUME Inv, NEW p \in Run, Begin(p) PROVE Inv'
<1> USE LaunchAssumption DEF dashboard, git
<1>1. UNCHANGED <<repo, making, exclude, branch, tree, links>>
  BY DEF Begin, StartRun, CmdRun, Starts, LookTree, LookBranch, OpenLog
<1>2. TypeOK'
  <2>1. run \in [Run -> Record] BY DEF Inv, TypeOK, Record
  <2>2. run' \in [Run -> Record] BY <2>1, BeginTyped
  <2>3. log' \in [Lane -> {None, "open", "closed"}]
    BY DEF Inv, TypeOK, Begin, StartRun, CmdRun, Starts, LookTree, LookBranch, OpenLog
  <2> QED BY <1>1, <2>2, <2>3 DEF Inv, TypeOK, Record
<1>3. \A q \in Run \ {p} : run'[q] = run[q]
  BY DEF Begin, StartRun, CmdRun, Starts, LookTree, LookBranch, OpenLog, NextLane, Goes, Inv, TypeOK
<1>4. /\ run'[p].at \in {"tree?", "branch?", "log", "tree"}
      /\ run'[p].repo \in Repo
      /\ ~run'[p].raced /\ ~run'[p].full =>
           /\ run'[p].at \in {"branch?", "log", "tree"} => tree[run'[p].repo][run'[p].lane] = None
           /\ run'[p].at \in {"log", "tree"} => branch[run'[p].repo][run'[p].lane] = None
  <2> USE DEF Inv
  <2>1. CASE StartRun(p) \/ CmdRun(p)
    <3>1. PICK r \in Repo, w \in SUBSET Name, background \in BOOLEAN :
            run' = [run EXCEPT ![p] = [Idle EXCEPT !.at = "tree?", !.repo = r,
                                                   !.back = background, !.wants = w]]
      BY <2>1 DEF StartRun, CmdRun, Starts, Listed
    <3> QED BY <3>1 DEF TypeOK, Idle
  <2>2. CASE LookTree(p)
    <3>1. CASE NextLane(p) BY <2>2, <3>1, NextLaneMoves DEF Placed, LookTree
    <3>2. CASE Of(tree, p) = None /\ Goes(p, "branch?")
      <4>1. run'[p] = [run[p] EXCEPT !.at = "branch?"] BY <3>2 DEF Goes, TypeOK
      <4>2. run[p] \in Record BY DEF TypeOK, Record
      <4>3. run'[p].at = "branch?" /\ run'[p].repo = run[p].repo /\ run'[p].lane = run[p].lane
        BY <4>1, <4>2 DEF Record
      <4> QED BY <2>2, <3>2, <4>3 DEF Placed, LookTree, Of
    <3> QED BY <2>2, <3>1, <3>2 DEF LookTree
  <2>3. CASE LookBranch(p)
    <3>1. CASE NextLane(p) BY <2>3, <3>1, NextLaneMoves DEF Placed, LookBranch
    <3>2. CASE Of(branch, p) = None /\ Goes(p, Settled(p))
      <4>1. run'[p] = [run[p] EXCEPT !.at = Settled(p)] BY <3>2 DEF Goes, TypeOK
      <4>2. run[p] \in Record BY DEF TypeOK, Record
      <4>3. /\ run'[p] = [run[p] EXCEPT !.at = run'[p].at] /\ run'[p].at \in {"log", "tree"}
            /\ run'[p].repo = run[p].repo /\ run'[p].lane = run[p].lane
            /\ run'[p].raced = run[p].raced /\ run'[p].full = run[p].full
        BY <4>1, <4>2 DEF Record, Settled
      <4> QED BY <2>3, <3>2, <4>3 DEF Placed, Free, LookBranch, Of
    <3> QED BY <2>3, <3>1, <3>2 DEF LookBranch
  <2>4. CASE OpenLog(p)
    <3>1. run'[p] = [run[p] EXCEPT !.at = "tree"] BY <2>4 DEF Goes, TypeOK, OpenLog
    <3> QED BY <2>4, <3>1 DEF TypeOK, Placed, Free, OpenLog, Of
  <2> QED BY <2>1, <2>2, <2>3, <2>4 DEF Begin
<1>5. Placed' /\ Owned' BY <1>1, <1>3, <1>4 DEF Inv, Placed, Owned, Of
<1>6. Free' BY <1>1, <1>3, <1>4 DEF Inv, Free, Of
<1>7. Read' /\ Written' BY <1>1, <1>3, <1>4 DEF Inv, Read, Written, Exclusions
<1>8. DeadEndsAreRaces' BY <1>3, <1>4 DEF Inv, DeadEndsAreRaces
<1>9. NoTree' /\ LinksExcluded' BY <1>1 DEF Inv, NoTree, LinksExcluded
<1> QED BY <1>2, <1>5, <1>6, <1>7, <1>8, <1>9 DEF Inv

\* p is at another place and nothing else about it is new.
Moved(p, place) ==
    /\ run'[p].at = place
    /\ run'[p].repo = run[p].repo /\ run'[p].lane = run[p].lane /\ run'[p].wants = run[p].wants
    /\ run'[p].full = run[p].full /\ run'[p].raced = run[p].raced

LEMMA GoesMoves ==
    ASSUME TypeOK, NEW p \in Run, NEW place \in Places, Goes(p, place)
    PROVE  /\ run' \in [Run -> Record] /\ Moved(p, place) /\ run'[p].seen = run[p].seen
           /\ \A q \in Run \ {p} : run'[q] = run[q]
<1>1. run \in [Run -> Record] BY DEF TypeOK, Record
<1>2. run' \in [Run -> Record] /\ run'[p] = [run[p] EXCEPT !.at = place] BY <1>1, GoesTyped
<1>3. \A q \in Run \ {p} : run'[q] = run[q] BY <1>1 DEF Goes
<1>4. run[p] \in Record BY <1>1
<1> QED BY <1>2, <1>3, <1>4 DEF Record, Moved

LEMMA TakesMoves ==
    ASSUME TypeOK, NEW p \in Run, NEW place \in Places, Takes(p, place)
    PROVE  /\ run' \in [Run -> Record] /\ Moved(p, place)
           /\ \A q \in Run \ {p} :
                /\ run'[q].at = run[q].at /\ run'[q].repo = run[q].repo
                /\ run'[q].lane = run[q].lane /\ run'[q].wants = run[q].wants
                /\ run'[q].full = run[q].full /\ run'[q].seen = run[q].seen
                /\ run'[q].raced =
                     (run[q].raced \/ (run[q].at \in Looking /\ run[q].repo = run[p].repo))
<1> DEFINE raced(q) == run[q].raced \/ (run[q].at \in Looking /\ run[q].repo = run[p].repo)
<1>1. run \in [Run -> Record] BY DEF TypeOK, Record
<1>2. run'[p] = [run[p] EXCEPT !.at = place] BY DEF Takes
<1>3. \A q \in Run \ {p} : run'[q] = [run[q] EXCEPT !.raced = raced(q)] BY DEF Takes
<1>4. \A q \in Run : raced(q) \in BOOLEAN
  BY <1>1 DEF Record
<1>5. run'[p] \in Record BY <1>1, <1>2, RecordGoes
<1>6. ASSUME NEW q \in Run \ {p} PROVE run'[q] \in Record
  <2>1. run[q] \in Record /\ raced(q) \in BOOLEAN BY <1>1, <1>4
  <2>2. run'[q] = [run[q] EXCEPT !.raced = raced(q)] BY <1>3
  <2> HIDE DEF raced
  <2> QED BY <2>1, <2>2, RecordRaces
<1>7. run' \in [Run -> Record]
  <2>1. run' = [q \in Run |-> run'[q]] BY DEF Takes
  <2> HIDE DEF raced
  <2> QED BY <1>5, <1>6, <2>1
<1>8. run[p] \in Record BY <1>1
<1>9. \A q \in Run \ {p} : run[q] \in Record BY <1>1
<1>10. Moved(p, place) BY <1>2, <1>8 DEF Record, Moved
<1> QED BY <1>3, <1>7, <1>9, <1>10 DEF Record

LEMMA EndsMoves ==
    ASSUME TypeOK, NEW p \in Run, Ends(p)
    PROVE  /\ run' \in [Run -> Record] /\ run'[p].at = "over"
           /\ \A q \in Run \ {p} : run'[q] = run[q]
<1>1. run \in [Run -> Record] BY DEF TypeOK, Record
<1>2. [Idle EXCEPT !.at = "over"] \in Record BY IdleRecord, RecordGoes DEF Places
<1>3. [Idle EXCEPT !.at = "over"].at = "over" BY DEF Idle
<1> QED BY <1>1, <1>2, <1>3, OneRecord DEF Ends

-----------------------------------------------------------------------------
(* The steps of prepare. *)

\* A run that stops, wherever it is.
LEMMA EndsStep ==
    ASSUME Inv, NEW p \in Run, Ends(p), UNCHANGED <<dashboard, exclude, git, log>> PROVE Inv'
<1> USE DEF dashboard, git, Inv
<1>1. /\ run' \in [Run -> Record] /\ run'[p].at = "over"
      /\ \A q \in Run \ {p} : run'[q] = run[q]
  BY EndsMoves
<1>2. TypeOK' BY <1>1 DEF TypeOK, Record
<1>3. Placed' /\ Owned' BY <1>1 DEF Placed, Owned, Of
<1>4. Read' /\ Written' BY <1>1 DEF Read, Written, Exclusions
<1>5. Free' BY <1>1 DEF Free, Of
<1>6. NoTree' /\ LinksExcluded' BY DEF NoTree, LinksExcluded
<1>7. DeadEndsAreRaces' BY <1>1 DEF DeadEndsAreRaces
<1> QED BY <1>2, <1>3, <1>4, <1>5, <1>6, <1>7

LEMMA CheckStep == ASSUME Inv, NEW p \in Run, CheckTree(p) PROVE Inv'
<1> USE DEF dashboard, git, Inv
<1> DEFINE place == IF Of(tree, p) # None THEN "taken" ELSE "exclude"
<1>1. run[p].at = "tree" /\ Goes(p, place) BY DEF CheckTree
<1>2. place \in Places BY DEF Places, Looking
<1>3. /\ run' \in [Run -> Record] /\ Moved(p, place) /\ \A q \in Run \ {p} : run'[q] = run[q]
  BY <1>1, <1>2, GoesMoves
<1>4. UNCHANGED <<repo, making, exclude, branch, tree, links, log>> BY DEF CheckTree
<1>5. TypeOK' BY <1>3, <1>4 DEF TypeOK, Record
<1>6. Placed' /\ Owned' BY <1>1, <1>3, <1>4 DEF Placed, Owned, Of, Moved
<1>7. Read' /\ Written' BY <1>3, <1>4 DEF Read, Written, Exclusions, Moved
<1>8. Free' BY <1>1, <1>3, <1>4 DEF Free, Of, Moved
<1>9. NoTree' /\ LinksExcluded' BY <1>4 DEF NoTree, LinksExcluded
<1>10. DeadEndsAreRaces' BY <1>1, <1>3 DEF DeadEndsAreRaces, Moved, Free
<1> QED BY <1>5, <1>6, <1>7, <1>8, <1>9, <1>10

LEMMA ReadStep == ASSUME Inv, NEW p \in Run, ReadExclude(p) PROVE Inv'
<1> USE DEF dashboard, git, Inv
<1> DEFINE read == exclude[run[p].repo]
           place == IF Exclusions(p) \subseteq read THEN "add" ELSE "append"
<1>1. run[p].at = "exclude" /\ run[p].repo \in Repo BY DEF ReadExclude, Placed
<1>2. run \in [Run -> Record] /\ run[p] \in Record BY DEF TypeOK, Record
<1>3. read \in SUBSET (Name \cup {Own}) BY <1>1 DEF TypeOK
<1>4. run' = [run EXCEPT ![p] = [run[p] EXCEPT !.seen = read, !.at = place]]
  BY <1>2 DEF ReadExclude, Record
<1>5. [run[p] EXCEPT !.seen = read, !.at = place] \in Record
  BY <1>2, <1>3, RecordReads DEF Places, Looking
<1>6. run' \in [Run -> Record] BY <1>2, <1>4, <1>5, OneRecord
<1>7. Moved(p, place) /\ run'[p].seen = read /\ \A q \in Run \ {p} : run'[q] = run[q]
  BY <1>2, <1>4 DEF Moved, Record
<1>8. UNCHANGED <<repo, making, exclude, branch, tree, links, log>> BY DEF ReadExclude
<1>9. TypeOK' BY <1>6, <1>8 DEF TypeOK, Record
<1>10. Placed' /\ Owned' BY <1>1, <1>7, <1>8 DEF Placed, Owned, Of, Moved
<1>11. Read' /\ Written' BY <1>7, <1>8 DEF Read, Written, Exclusions, Moved
<1>12. Free' BY <1>1, <1>7, <1>8 DEF Free, Of, Moved
<1>13. NoTree' /\ LinksExcluded' BY <1>8 DEF NoTree, LinksExcluded
<1>14. DeadEndsAreRaces' BY <1>7 DEF DeadEndsAreRaces, Moved
<1> QED BY <1>9, <1>10, <1>11, <1>12, <1>13, <1>14

LEMMA AppendStep == ASSUME Inv, NEW p \in Run, AppendExclude(p) PROVE Inv'
<1> USE DEF dashboard, git, Inv
<1>1. run[p].at = "append" /\ run[p].repo \in Repo /\ Goes(p, "add")
  BY DEF AppendExclude, Placed
<1>2. /\ run' \in [Run -> Record] /\ Moved(p, "add") /\ \A q \in Run \ {p} : run'[q] = run[q]
  BY <1>1, GoesMoves DEF Places, Looking
<1>3. UNCHANGED <<repo, making, branch, tree, links, log>> BY DEF AppendExclude
<1>4. /\ exclude' = [exclude EXCEPT ![run[p].repo] =
                       exclude[run[p].repo] \cup (Exclusions(p) \ run[p].seen)]
      /\ exclude \in [Repo -> SUBSET (Name \cup {Own})]
  BY DEF AppendExclude, TypeOK
<1>5. \A r \in Repo : exclude[r] \subseteq exclude'[r] BY <1>4
<1>6. Exclusions(p) \subseteq exclude'[run[p].repo] BY <1>1, <1>4 DEF Read
<1>7. TypeOK'
  <2>1. run[p].wants \subseteq Name BY DEF TypeOK
  <2>2. exclude' \in [Repo -> SUBSET (Name \cup {Own})] BY <1>1, <1>4, <2>1 DEF Exclusions
  <2> QED BY <1>2, <1>3, <2>2 DEF TypeOK, Record
<1>8. Placed' /\ Owned' BY <1>1, <1>2, <1>3 DEF Placed, Owned, Of, Moved
<1>9. Read' BY <1>2, <1>5 DEF Read, Placed, Moved
<1>10. Written' BY <1>2, <1>5, <1>6 DEF Written, Placed, Exclusions, Moved
<1>11. Free' BY <1>1, <1>2, <1>3 DEF Free, Of, Moved
<1>12. NoTree' /\ LinksExcluded' BY <1>3, <1>5 DEF NoTree, LinksExcluded
<1>13. DeadEndsAreRaces' BY <1>2 DEF DeadEndsAreRaces, Moved
<1> QED BY <1>7, <1>8, <1>9, <1>10, <1>11, <1>12, <1>13

LEMMA BranchStep == ASSUME Inv, NEW p \in Run, AddBranch(p) PROVE Inv'
<1> USE LaunchAssumption DEF dashboard, git, Inv
<1>1. run[p].at = "add" /\ run[p].repo \in Repo /\ run[p].lane \in Lane
  BY DEF AddBranch, Placed, TypeOK
<1>2. CASE /\ Of(branch, p) = None /\ Takes(p, "checkout")
           /\ branch' = [branch EXCEPT ![run[p].repo][run[p].lane] = p]
  <2>1. /\ run' \in [Run -> Record] /\ Moved(p, "checkout")
        /\ \A q \in Run \ {p} :
             /\ run'[q].at = run[q].at /\ run'[q].repo = run[q].repo
             /\ run'[q].lane = run[q].lane /\ run'[q].wants = run[q].wants
             /\ run'[q].full = run[q].full /\ run'[q].seen = run[q].seen
             /\ run'[q].raced =
                  (run[q].raced \/ (run[q].at \in Looking /\ run[q].repo = run[p].repo))
    BY <1>2, TakesMoves DEF Places, Looking
  <2>2. UNCHANGED <<repo, making, exclude, tree, links, log>> BY DEF AddBranch
  <2>3. /\ branch \in [Repo -> [Lane -> Run \cup {None}]]
        /\ branch' \in [Repo -> [Lane -> Run \cup {None}]]
    BY <1>1, <1>2 DEF TypeOK
  <2>4. /\ branch'[run[p].repo][run[p].lane] = p
        /\ \A r \in Repo, i \in Lane :
             r # run[p].repo \/ i # run[p].lane => branch'[r][i] = branch[r][i]
    BY <1>1, <1>2, <2>3
  <2>5. TypeOK' BY <2>1, <2>2, <2>3 DEF TypeOK, Record
  <2>6. Placed' BY <1>1, <2>1 DEF Placed, Moved
  <2>7. \A q \in Run : run[q].lane \in Lane BY DEF TypeOK
  <2>8. Owned' BY <1>1, <1>2, <2>1, <2>2, <2>4, <2>6, <2>7 DEF Owned, Of, Placed, Moved
  <2>9. Read' BY <2>1, <2>2 DEF Read, Moved
  <2>10. Written' BY <1>1, <2>1, <2>2 DEF Written, Exclusions, Moved
  <2>11. Free'
    <3>1. ASSUME NEW q \in Run \ {p}, ~run'[q].raced, ~run'[q].full
          PROVE  /\ ~run[q].raced /\ ~run[q].full
                 /\ run[q].at \in Looking => run[q].repo # run[p].repo
      BY <2>1, <3>1
    <3>2. ASSUME NEW q \in Run \ {p}, ~run'[q].raced, ~run'[q].full, run[q].at \in Looking
          PROVE  Of(branch, q)' = Of(branch, q) /\ Of(tree, q)' = Of(tree, q)
      BY <2>1, <2>2, <2>4, <2>7, <3>1, <3>2 DEF Placed, Of, Looking
    <3>3. ~run'[p].raced /\ ~run'[p].full => Of(tree, p)' = None
      BY <1>1, <2>1, <2>2 DEF Free, Of, Moved
    <3>4. run'[p].at = "checkout" BY <2>1 DEF Moved
    <3> QED BY <2>1, <3>1, <3>2, <3>3, <3>4 DEF Free, Looking
  <2>12. NoTree' /\ LinksExcluded' BY <2>2 DEF NoTree, LinksExcluded
  <2>13. DeadEndsAreRaces' BY <2>1 DEF DeadEndsAreRaces, Moved
  <2> QED BY <2>5, <2>6, <2>8, <2>9, <2>10, <2>11, <2>12, <2>13
<1>3. CASE Of(branch, p) # None /\ Goes(p, "taken") /\ UNCHANGED branch
  <2>1. /\ run' \in [Run -> Record] /\ Moved(p, "taken") /\ \A q \in Run \ {p} : run'[q] = run[q]
    BY <1>3, GoesMoves DEF Places
  <2>2. UNCHANGED <<repo, making, exclude, branch, tree, links, log>> BY <1>3 DEF AddBranch
  <2>3. TypeOK' BY <2>1, <2>2 DEF TypeOK, Record
  <2>4. Placed' /\ Owned' BY <1>1, <2>1, <2>2 DEF Placed, Owned, Of, Moved
  <2>5. Read' /\ Written' BY <2>1, <2>2 DEF Read, Written, Exclusions, Moved
  <2>6. Free' BY <2>1, <2>2 DEF Free, Of, Moved
  <2>7. NoTree' /\ LinksExcluded' BY <2>2 DEF NoTree, LinksExcluded
  <2>8. DeadEndsAreRaces' BY <1>1, <1>3, <2>1 DEF DeadEndsAreRaces, Moved, Free
  <2> QED BY <2>3, <2>4, <2>5, <2>6, <2>7, <2>8
<1>4. CASE Ends(p) /\ UNCHANGED branch
  BY <1>4, EndsStep DEF AddBranch
<1> QED BY <1>2, <1>3, <1>4 DEF AddBranch

LEMMA TreeStep == ASSUME Inv, NEW p \in Run, AddTree(p) PROVE Inv'
<1> USE LaunchAssumption DEF dashboard, git, Inv
<1>1. run[p].at = "checkout" /\ run[p].repo \in Repo /\ run[p].lane \in Lane
  BY DEF AddTree, Placed, TypeOK
<1>2. CASE /\ Of(tree, p) = None /\ Takes(p, "create")
           /\ tree' = [tree EXCEPT ![run[p].repo][run[p].lane] = p]
  <2>1. /\ run' \in [Run -> Record] /\ Moved(p, "create")
        /\ \A q \in Run \ {p} :
             /\ run'[q].at = run[q].at /\ run'[q].repo = run[q].repo
             /\ run'[q].lane = run[q].lane /\ run'[q].wants = run[q].wants
             /\ run'[q].full = run[q].full /\ run'[q].seen = run[q].seen
             /\ run'[q].raced =
                  (run[q].raced \/ (run[q].at \in Looking /\ run[q].repo = run[p].repo))
    BY <1>2, TakesMoves DEF Places
  <2>2. UNCHANGED <<repo, making, exclude, branch, links, log>> BY DEF AddTree
  <2>3. /\ tree \in [Repo -> [Lane -> Run \cup {None}]]
        /\ tree' \in [Repo -> [Lane -> Run \cup {None}]]
    BY <1>1, <1>2 DEF TypeOK
  <2>4. /\ tree'[run[p].repo][run[p].lane] = p
        /\ \A r \in Repo, i \in Lane :
             r # run[p].repo \/ i # run[p].lane => tree'[r][i] = tree[r][i]
    BY <1>1, <1>2, <2>3
  <2>5. TypeOK' BY <2>1, <2>2, <2>3 DEF TypeOK, Record
  <2>6. Placed' BY <1>1, <2>1 DEF Placed, Moved
  <2>7. \A q \in Run : run[q].lane \in Lane BY DEF TypeOK
  <2>8. Owned' BY <1>1, <1>2, <2>1, <2>2, <2>4, <2>6, <2>7 DEF Owned, Of, Placed, Moved
  <2>9. Read' BY <2>1, <2>2 DEF Read, Moved
  <2>10. Written' BY <1>1, <2>1, <2>2 DEF Written, Exclusions, Moved
  <2>11. Free'
    <3>1. ASSUME NEW q \in Run \ {p}, ~run'[q].raced, ~run'[q].full
          PROVE  /\ ~run[q].raced /\ ~run[q].full
                 /\ run[q].at \in Looking => run[q].repo # run[p].repo
      BY <2>1, <3>1
    <3>2. ASSUME NEW q \in Run \ {p}, ~run'[q].raced, ~run'[q].full, run[q].at \in Looking
          PROVE  Of(branch, q)' = Of(branch, q) /\ Of(tree, q)' = Of(tree, q)
      BY <2>1, <2>2, <2>4, <2>7, <3>1, <3>2 DEF Placed, Of, Looking
    <3>3. run'[p].at = "create" BY <2>1 DEF Moved
    <3> QED BY <2>1, <3>1, <3>2, <3>3 DEF Free, Looking
  <2>12. NoTree' BY <1>1, <2>2, <2>4 DEF NoTree
  <2>13. LinksExcluded'
    <3>1. links[run[p].repo][run[p].lane] = {} BY <1>1, <1>2 DEF NoTree, Of
    <3>2. Own \in exclude[run[p].repo] BY <1>1 DEF Written, Exclusions
    <3> QED BY <1>1, <2>2, <2>4, <3>1, <3>2 DEF LinksExcluded
  <2>14. DeadEndsAreRaces' BY <2>1 DEF DeadEndsAreRaces, Moved
  <2> QED BY <2>5, <2>6, <2>8, <2>9, <2>10, <2>11, <2>12, <2>13, <2>14
<1>3. CASE Of(tree, p) # None /\ Goes(p, "taken") /\ UNCHANGED tree
  <2>1. /\ run' \in [Run -> Record] /\ Moved(p, "taken") /\ \A q \in Run \ {p} : run'[q] = run[q]
    BY <1>3, GoesMoves DEF Places
  <2>2. UNCHANGED <<repo, making, exclude, branch, tree, links, log>> BY <1>3 DEF AddTree
  <2>3. TypeOK' BY <2>1, <2>2 DEF TypeOK, Record
  <2>4. Placed' /\ Owned' BY <1>1, <2>1, <2>2 DEF Placed, Owned, Of, Moved
  <2>5. Read' /\ Written' BY <2>1, <2>2 DEF Read, Written, Exclusions, Moved
  <2>6. Free' BY <2>1, <2>2 DEF Free, Of, Moved
  <2>7. NoTree' /\ LinksExcluded' BY <2>2 DEF NoTree, LinksExcluded
  <2>8. DeadEndsAreRaces' BY <1>1, <1>3, <2>1 DEF DeadEndsAreRaces, Moved, Free
  <2> QED BY <2>3, <2>4, <2>5, <2>6, <2>7, <2>8
<1> QED BY <1>2, <1>3 DEF AddTree

LEMMA CreateStep == ASSUME Inv, NEW p \in Run, Create(p) PROVE Inv'
<1> USE DEF dashboard, git, Inv
<1>1. run[p].at = "create" /\ Goes(p, "link") BY DEF Create
<1>2. /\ run' \in [Run -> Record] /\ Moved(p, "link") /\ \A q \in Run \ {p} : run'[q] = run[q]
  BY <1>1, GoesMoves DEF Places
<1>3. UNCHANGED <<repo, making, exclude, branch, tree, links, log>> BY DEF Create
<1>4. TypeOK' BY <1>2, <1>3 DEF TypeOK, Record
<1>5. Placed' /\ Owned' BY <1>1, <1>2, <1>3 DEF Placed, Owned, Of, Moved
<1>6. Read' /\ Written' BY <1>1, <1>2, <1>3 DEF Read, Written, Exclusions, Moved
<1>7. Free' BY <1>2, <1>3 DEF Free, Of, Moved
<1>8. NoTree' /\ LinksExcluded' BY <1>3 DEF NoTree, LinksExcluded
<1>9. DeadEndsAreRaces' BY <1>2 DEF DeadEndsAreRaces, Moved
<1> QED BY <1>4, <1>5, <1>6, <1>7, <1>8, <1>9

LEMMA LinkStep == ASSUME Inv, NEW p \in Run, Link(p) PROVE Inv'
<1> USE LaunchAssumption DEF dashboard, git, Inv
<1>1. /\ run[p].at = "link" /\ Goes(p, "driving")
      /\ run[p].repo \in Repo /\ run[p].lane \in Lane /\ run[p].wants \subseteq Name
  BY DEF Link, Placed, TypeOK
<1>2. /\ run' \in [Run -> Record] /\ Moved(p, "driving")
      /\ \A q \in Run \ {p} : run'[q] = run[q]
  BY <1>1, GoesMoves DEF Places
<1>3. UNCHANGED <<repo, making, exclude, branch, tree, log>> BY DEF Link
<1>4. PICK w \in SUBSET run[p].wants :
        links' = [links EXCEPT ![run[p].repo][run[p].lane] =
                    links[run[p].repo][run[p].lane] \cup w]
  BY DEF Link
<1>5. /\ links \in [Repo -> [Lane -> SUBSET Name]] /\ links' \in [Repo -> [Lane -> SUBSET Name]]
  BY <1>1, <1>4 DEF TypeOK
<1>6. /\ links'[run[p].repo][run[p].lane] = links[run[p].repo][run[p].lane] \cup w
      /\ \A r \in Repo, i \in Lane :
           r # run[p].repo \/ i # run[p].lane => links'[r][i] = links[r][i]
  BY <1>1, <1>4, <1>5
<1>7. tree[run[p].repo][run[p].lane] = p BY <1>1 DEF Owned, Of
<1>8. w \subseteq exclude[run[p].repo] BY <1>1 DEF Written, Exclusions
<1>9. TypeOK' BY <1>2, <1>3, <1>5 DEF TypeOK, Record
<1>10. Placed' /\ Owned' BY <1>1, <1>2, <1>3 DEF Placed, Owned, Of, Moved
<1>11. Read' /\ Written' BY <1>1, <1>2, <1>3 DEF Read, Written, Exclusions, Moved
<1>12. Free' BY <1>2, <1>3 DEF Free, Of, Moved
<1>13. NoTree' BY <1>1, <1>3, <1>6, <1>7 DEF NoTree
<1>14. LinksExcluded' BY <1>1, <1>3, <1>6, <1>7, <1>8 DEF LinksExcluded
<1>15. DeadEndsAreRaces' BY <1>2 DEF DeadEndsAreRaces, Moved
<1> QED BY <1>9, <1>10, <1>11, <1>12, <1>13, <1>14, <1>15

-----------------------------------------------------------------------------

LEMMA InvStep == Inv /\ [Next]_vars => Inv'
<1> SUFFICES ASSUME Inv, [Next]_vars PROVE Inv' OBVIOUS
<1>1. ASSUME NEW r \in Repo, CreateProject(r) PROVE Inv' BY <1>1, ProjectStep
<1>2. ASSUME NEW p \in Run, Begin(p) PROVE Inv' BY <1>2, BeginStep
<1>3. ASSUME NEW p \in Run, Prepare(p) PROVE Inv'
  BY <1>3, CheckStep, ReadStep, AppendStep, BranchStep, TreeStep, CreateStep, LinkStep DEF Prepare
<1>4. ASSUME NEW p \in Run, Finish(p) PROVE Inv' BY <1>4, EndsStep DEF Finish
<1>5. CASE Removes BY <1>5, RemovesStep
<1>6. ASSUME NEW i \in Lane, Close(i) PROVE Inv' BY <1>6, CloseStep
<1>7. CASE UNCHANGED vars
  BY <1>7
  DEF vars, dashboard, git, Inv, TypeOK, Placed, Owned, NoTree, Read, Written, Free,
      LinksExcluded, DeadEndsAreRaces, Of, Exclusions
<1> QED BY <1>1, <1>2, <1>3, <1>4, <1>5, <1>6, <1>7 DEF Next

LEMMA Invariance == Spec => []Inv
BY InvInit, InvStep, PTL DEF Spec

\* Every reachable state is well typed, for any number of starts and names.
THEOREM TypeCorrect == Spec => []TypeOK
<1>1. Inv => TypeOK BY DEF Inv
<1> QED BY <1>1, Invariance, PTL

\* However many starts find the same free name, each works in the worktree and
\* on the branch it made (loop.py:309).
THEOREM TreesAreOwn == Spec => []OwnTree
<1>1. Inv => OwnTree BY DEF Inv, Owned, OwnTree
<1> QED BY <1>1, Invariance, PTL

\* What is linked into a worktree is in info/exclude, whoever else appended to it
\* since it was read (loop.py:239).
THEOREM LinksAreExcluded == Spec => []LinksExcluded
<1>1. Inv => LinksExcluded BY DEF Inv
<1> QED BY <1>1, Invariance, PTL

\* Only a run that another was started beside, or that found every name taken,
\* ends with "already exists" (loop.py:219-224).
THEOREM OnlyRacesEnd == Spec => []DeadEndsAreRaces
<1>1. Inv => DeadEndsAreRaces BY DEF Inv
<1> QED BY <1>1, Invariance, PTL

=============================================================================
