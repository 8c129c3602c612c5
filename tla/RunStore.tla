------------------------------ MODULE RunStore ------------------------------
(***************************************************************************)
(* What becomes of a run's record: the event streams its loop writes, the  *)
(* sweeps that compress them (prune.py, at the end of every loop of the    *)
(* repository), and the dashboard's archive and delete (web/service.py),   *)
(* which copy the record away, verify the copy, and remove the original    *)
(* with its worktree.  None of them holds a lock against the others.       *)
(***************************************************************************)
EXTENDS Integers, FiniteSets, Sequences

CONSTANTS
    Streams,   \* iteration numbers: iteration-<n>.jsonl
    Sweepers,  \* processes that sweep, each of them once
    Threads,   \* dashboard threads that archive
    MaxLoops,  \* bound: loops of the run
    MaxCrashes,\* bound: kills
    None       \* no file, no process

Idle == 0
Half == -1   \* the bytes of a compressed file that is not complete

\* What a stream holds, what a compressed file does and who is writing it, and a
\* copy of all streams
Bytes == {0, 1}
Plains == {None} \cup Bytes
Gz(body, by) == [body |-> body, by |-> by]
Gzs(by) == {None} \cup [body : Bytes \cup {Half}, by : by]
Copies == [Streams -> [plain : Plains, gz : Gzs({{}}), part : Gzs({{}})]]

ASSUME BoundAssumption ==
    /\ Streams \subseteq Nat \ {0} /\ {MaxLoops, MaxCrashes} \subseteq Nat
    /\ None \notin Int \cup Copies
    /\ \A body \in Bytes \cup {Half}, by \in SUBSET Sweepers : None # Gz(body, by)

VARIABLES
    plain,   \* iteration-n.jsonl: what it holds, or None
    gz,      \* iteration-n.jsonl.gz: what it holds and who is still writing it
    part,    \* iteration-n.jsonl.gz.partial, the same
    dir,     \* the run directory is there
    tree,    \* git has the worktree
    target,  \* the archived copy, or None
    loop,    \* the loop: None, Idle between iterations, or the number of its stream
    loops,   \* loops so far
    sweep,   \* sweeper: where it is in prune()
    todo,    \* sweeper: compressible()'s answer
    at,      \* sweeper: the stream in work
    got,     \* sweeper: what it has read of it
    arch,    \* thread: where it is in archive_run()
    left,    \* thread: streams still to be copied or removed
    staging, \* thread: its copy
    missed,  \* a listing of the runs: how many places it has looked in without finding this one
    crashes, \* kills so far
    due,     \* history: what has been written to the stream's last attempt, or None
    excused, \* history: how a stream came into danger, see Kept
    raised,  \* history: an archive ended in an exception once it had published
    torn     \* history: streams an archive removed while a sweep compressed them

files == <<plain, gz, part>>
sweeps == <<sweep, todo, at, got>>
archives == <<arch, left, staging>>
history == <<excused, raised, torn>>
loopv == <<loop, loops>>
vars == <<plain, gz, part, dir, tree, target, loopv, sweeps, archives, missed, crashes, due, history>>

\* Mutant: the copy is a link, and goes on as the file does.
FrozenLink(file) == file

\* A copy of a file is what the file holds now, for good.
Frozen(file) == IF file = None \/ file.by = {} THEN file ELSE Gz(Half, {})
Snap(n) == [plain |-> plain[n], gz |-> Frozen(gz[n]), part |-> Frozen(part[n])]
Nothing == [plain |-> None, gz |-> None, part |-> None]
Empty == [n \in Streams |-> None]

Compressing(n) == {s \in Sweepers : at[s] = n /\ sweep[s] \in {"copy", "replace", "unlink"}}

\* An archive that has verified its copy and not yet removed the original
Verified == \E t \in Threads : arch[t] \in {"publish", "remove"}

Excuse(n) == (IF Compressing(n) # {} THEN {"written"} ELSE {})
             \cup (IF Verified \/ ~dir THEN {"raced"} ELSE {})
             \cup (IF loop = n /\ plain[n] = None /\ excused[n] = {} THEN {"raced"} ELSE {})

Init ==
    /\ plain = [n \in Streams |-> None] /\ gz = plain /\ part = plain
    /\ dir = TRUE /\ tree = TRUE /\ target = None
    /\ loop = None /\ loops = 0
    /\ sweep = [s \in Sweepers |-> "ready"] /\ todo = [s \in Sweepers |-> {}]
    /\ at = [s \in Sweepers |-> None] /\ got = at
    /\ arch = [t \in Threads |-> "ready"] /\ left = [t \in Threads |-> {}]
    /\ staging = [t \in Threads |-> [n \in Streams |-> Nothing]]
    /\ missed = 0 /\ crashes = 0 /\ due = plain
    /\ excused = [n \in Streams |-> {}] /\ raised = FALSE /\ torn = {}

-----------------------------------------------------------------------------
(* The loop, as far as its streams go.  One at a time: see RunClaim. *)

Resume ==
    /\ loop = None /\ loops < MaxLoops /\ dir
    /\ loop' = Idle /\ loops' = loops + 1
    /\ UNCHANGED <<files, dir, tree, target, sweeps, archives, missed, crashes, due, history>>

\* An iteration begins; the number may be that of an attempt that was cut short,
\* whose stream is then truncated.  Without its directory the loop fails.
Open(n) ==
    /\ loop = Idle
    /\ IF dir
       THEN /\ loop' = n /\ plain' = [plain EXCEPT ![n] = 0]
            /\ due' = [due EXCEPT ![n] = 0]
            /\ excused' = [excused EXCEPT ![n] = @ \cup Excuse(n)]
       ELSE loop' = None /\ UNCHANGED <<plain, due, excused>>
    /\ UNCHANGED <<gz, part, dir, tree, target, loops, sweeps, archives, missed, crashes, raised, torn>>

\* What it writes after the file's name is gone goes nowhere.
Write ==
    /\ loop \in Streams /\ due[loop] = 0
    /\ due' = [due EXCEPT ![loop] = 1]
    /\ plain' = [plain EXCEPT ![loop] = IF @ = None THEN None ELSE 1]
    /\ excused' = [excused EXCEPT ![loop] = @ \cup Excuse(loop)]
    /\ UNCHANGED <<gz, part, dir, tree, target, loop, loops, sweeps, archives, missed, crashes, raised, torn>>

CloseStream ==
    /\ loop \in Streams /\ loop' = Idle
    /\ UNCHANGED <<files, dir, tree, target, loops, sweeps, archives, missed, crashes, due, history>>

\* Terminal status, release, then this process sweeps, its own run included.
Ends(s) ==
    /\ loop = Idle /\ loop' = None
    /\ sweep[s] = "ready" /\ sweep' = [sweep EXCEPT ![s] = "list"]
    /\ UNCHANGED <<files, dir, tree, target, loops, todo, at, got, archives, missed, crashes, due, history>>

-----------------------------------------------------------------------------
(* prune.prune, for this run. *)

\* A loop of another run ends and its sweep comes by.  It leaves this run alone when
\* its status.json is young, as it is while an agent runs, with a stamp every two
\* seconds; between two iterations it may be as old as it likes.
Passes(s) ==
    /\ sweep[s] = "ready" /\ dir /\ loop \notin Streams
    /\ sweep' = [sweep EXCEPT ![s] = "list"]
    /\ UNCHANGED <<files, dir, tree, target, loopv, todo, at, got, archives, missed, crashes, due, history>>

Onward(rest) == IF rest = {} THEN "done" ELSE "next"

\* The streams of at least MIN_BYTES
Compressible(s) ==
    /\ sweep[s] = "list"
    /\ todo' = [todo EXCEPT ![s] = {n \in Streams : plain[n] = 1}]
    /\ sweep' = [sweep EXCEPT ![s] = Onward(todo'[s])]
    /\ UNCHANGED <<files, dir, tree, target, loopv, at, got, archives, missed, crashes, due, history>>

Finished(s) ==
    /\ sweep' = [sweep EXCEPT ![s] = "done"] /\ todo' = [todo EXCEPT ![s] = {}]
    /\ at' = [at EXCEPT ![s] = None] /\ got' = [got EXCEPT ![s] = None]

\* An OSError ends the whole sweep: Run._sweep logs prune:failed.
Fails(s) == Finished(s) /\ UNCHANGED <<files, excused>>

\* The next stream, and its partial, are opened; what the copy will hold is at
\* most what is there now.  The partial has one name, and "wb" empties it whoever
\* else is writing to it.
OpenBoth(s, n) ==
    LET others == IF part[n] = None THEN {}
                  ELSE part[n].by \ {r \in Sweepers : sweep[r] = "dead"}
    IN  /\ sweep[s] = "next" /\ n \in todo[s] /\ \A m \in todo[s] : n <= m
        /\ \/ plain[n] = None /\ Fails(s)
           \/ /\ plain[n] # None
              /\ at' = [at EXCEPT ![s] = n] /\ todo' = [todo EXCEPT ![s] = @ \ {n}]
              /\ got' = [got EXCEPT ![s] = plain[n]]
              /\ part' = [part EXCEPT ![n] = Gz(Half, others \cup {s})]
              /\ sweep' = [sweep EXCEPT ![s] = "copy"]
              /\ excused' = [excused EXCEPT ![n] =
                    @ \cup (IF loop = n THEN {"written"} ELSE {})
                      \cup (IF Compressing(n) # {} THEN {"shared"} ELSE {})]
              /\ UNCHANGED <<plain, gz>>
        /\ UNCHANGED <<dir, tree, target, loopv, archives, missed, crashes, due, raised, torn>>

\* The last byte is written, to the partial or to what it has been renamed to
Written(file, s) ==
    IF file = None \/ s \notin file.by THEN file
    ELSE Gz(IF file.by = {s} THEN got[s] ELSE Half, file.by \ {s})

\* Mutant: the stream is removed as soon as it has been compressed.
CopiedUnlinks(s) ==
    LET n == at[s]
    IN  /\ sweep[s] = "copy" /\ sweep' = [sweep EXCEPT ![s] = "replace"]
        /\ part' = [part EXCEPT ![n] = Written(@, s)]
        /\ gz' = [gz EXCEPT ![n] = Written(@, s)]
        /\ plain' = [plain EXCEPT ![n] = None]
        /\ UNCHANGED <<dir, tree, target, loopv, todo, at, got, archives, missed, crashes,
                       due, history>>

Copied(s) ==
    LET n == at[s]
    IN  /\ sweep[s] = "copy" /\ sweep' = [sweep EXCEPT ![s] = "replace"]
        /\ part' = [part EXCEPT ![n] = Written(@, s)]
        /\ gz' = [gz EXCEPT ![n] = Written(@, s)]
        /\ UNCHANGED <<plain, dir, tree, target, loopv, todo, at, got, archives, missed, crashes,
                       due, history>>

\* temporary.replace(target)
Replace(s) ==
    LET n == at[s]
    IN  /\ sweep[s] = "replace"
        /\ \/ part[n] = None /\ Fails(s)
           \/ /\ part[n] # None
              /\ gz' = [gz EXCEPT ![n] = part[n]] /\ part' = [part EXCEPT ![n] = None]
              /\ sweep' = [sweep EXCEPT ![s] = "unlink"]
              /\ UNCHANGED <<plain, todo, at, got, excused>>
        /\ UNCHANGED <<dir, tree, target, loopv, archives, missed, crashes, due, raised, torn>>

\* path.unlink()
Unlink(s) ==
    LET n == at[s]
    IN  /\ sweep[s] = "unlink"
        /\ \/ plain[n] = None /\ Fails(s)
           \/ /\ plain[n] # None /\ plain' = [plain EXCEPT ![n] = None]
              /\ sweep' = [sweep EXCEPT ![s] = Onward(todo[s])]
              /\ at' = [at EXCEPT ![s] = None] /\ got' = [got EXCEPT ![s] = None]
              /\ UNCHANGED <<gz, part, todo, excused>>
        /\ UNCHANGED <<dir, tree, target, loopv, archives, missed, crashes, due, raised, torn>>

-----------------------------------------------------------------------------
(* archive_run.  A thread goes back to "ready" when its request is answered. *)

Answered(t) ==
    /\ arch' = [arch EXCEPT ![t] = "ready"]
    /\ staging' = [staging EXCEPT ![t] = [n \in Streams |-> Nothing]]
    /\ left' = [left EXCEPT ![t] = {}]

\* _resolve: a run whose directory is there, and only then an archived one
Found == IF dir THEN "run" ELSE IF target # None THEN "archive" ELSE "nothing"

\* The request names a run directory that is there, nobody holds the run, and no
\* archive of it exists yet; then the copy begins.
Look(t) ==
    /\ arch[t] = "ready" /\ Found = "run"
    /\ loop = None /\ target = None
    /\ arch' = [arch EXCEPT ![t] = "copy"]
    /\ left' = [left EXCEPT ![t] = Streams] /\ UNCHANGED staging
    /\ UNCHANGED <<files, dir, tree, target, loopv, sweeps, missed, crashes, due, history>>

\* copytree, one stream's files after the other; without a source, or when the
\* disk is full, it fails and the staging directory is removed.
Copy(t) ==
    /\ arch[t] = "copy"
    /\ \/ Answered(t)
       \/ /\ dir
          /\ \E n \in left[t] :
               /\ staging' = [staging EXCEPT ![t][n] = Snap(n)]
               /\ left' = [left EXCEPT ![t] = @ \ {n}]
               /\ arch' = [arch EXCEPT ![t] = IF left[t] = {n} THEN "verify" ELSE @]
    /\ UNCHANGED <<files, dir, tree, target, loopv, sweeps, missed, crashes, due, history>>

\* contents(run_dir) = contents(staging), and the size limits
Verify(t) ==
    /\ arch[t] = "verify"
    /\ \/ Answered(t)
       \/ /\ dir /\ \A n \in Streams : staging[t][n] = Snap(n)
          /\ arch' = [arch EXCEPT ![t] = "publish"] /\ UNCHANGED <<left, staging>>
    /\ UNCHANGED <<files, dir, tree, target, loopv, sweeps, missed, crashes, due, history>>

\* staging.rename(target) fails on a target that is there by now.
Publish(t) ==
    /\ arch[t] = "publish"
    /\ IF target # None THEN Answered(t) /\ UNCHANGED target
       ELSE /\ target' = staging[t]
            /\ arch' = [arch EXCEPT ![t] = "remove"]
            /\ left' = [left EXCEPT ![t] = Streams] /\ UNCHANGED staging
    /\ UNCHANGED <<files, dir, tree, loopv, sweeps, missed, crashes, due, history>>

\* An exception: the request's connection is closed, and nothing more is done.
Raises(t) == Answered(t) /\ raised' = TRUE

\* shutil.rmtree(run_dir), one stream's files after the other.  It raises when a
\* file of its listing is gone, or cannot be removed, and at the end when there is
\* anything left in the directory.
Remove(t) ==
    /\ arch[t] = "remove"
    /\ \/ Raises(t) /\ UNCHANGED <<files, dir, torn>>
       \/ /\ dir
          /\ \E n \in left[t] :
               /\ plain' = [plain EXCEPT ![n] = None]
               /\ gz' = [gz EXCEPT ![n] = None] /\ part' = [part EXCEPT ![n] = None]
               /\ left' = [left EXCEPT ![t] = @ \ {n}]
               /\ torn' = IF Compressing(n) = {} THEN torn ELSE torn \cup {n}
          /\ UNCHANGED <<dir, arch, staging, raised>>
       \/ /\ dir /\ left[t] = {} /\ files = <<Empty, Empty, Empty>>
          /\ dir' = FALSE /\ arch' = [arch EXCEPT ![t] = "git"]
          /\ UNCHANGED <<files, left, staging, raised, torn>>
    /\ UNCHANGED <<tree, target, loopv, sweeps, missed, crashes, due, excused>>

\* Mutant: a timeout is answered like a success.
GitTimesOut(t) ==
    /\ arch[t] = "git"
    /\ \/ tree' = FALSE /\ Answered(t) /\ UNCHANGED raised
       \/ arch' = [arch EXCEPT ![t] = "restore"] /\ UNCHANGED <<tree, left, staging, raised>>
       \/ Answered(t) /\ UNCHANGED <<tree, raised>>
    /\ UNCHANGED <<files, dir, target, loopv, sweeps, missed, crashes, due, excused, torn>>

\* git worktree remove, without --force
RemoveWorktree == tree' = FALSE

\* Git removes the tree, or refuses, or does not answer in time; it cannot be
\* started, or one of the links before it cannot be removed.
Git(t) ==
    /\ arch[t] = "git"
    /\ \/ RemoveWorktree /\ Answered(t) /\ UNCHANGED raised
       \/ arch' = [arch EXCEPT ![t] = "restore"] /\ UNCHANGED <<tree, left, staging, raised>>
       \/ Raises(t) /\ UNCHANGED tree
    /\ UNCHANGED <<files, dir, target, loopv, sweeps, missed, crashes, due, excused, torn>>

\* What copytree makes of the run directory when it gets as far as these streams
Brought(streams) ==
    LET from(n) == IF n \in streams THEN target[n] ELSE Nothing
    IN  /\ dir' = TRUE
        /\ plain' = [n \in Streams |-> from(n).plain]
        /\ gz' = [n \in Streams |-> from(n).gz]
        /\ part' = [n \in Streams |-> from(n).part]

\* restore_source(): nothing when the directory is there; the archive may be gone,
\* and the copy may fail.
Restore(t) ==
    /\ arch[t] = "restore"
    /\ \/ dir /\ Answered(t) /\ UNCHANGED <<files, dir, raised>>
       \/ ~dir /\ target # None /\ Answered(t) /\ Brought(Streams) /\ UNCHANGED raised
       \/ ~dir /\ target # None /\ Raises(t) /\ \E some \in SUBSET Streams : Brought(some)
       \/ Raises(t) /\ UNCHANGED <<files, dir>>
    /\ UNCHANGED <<tree, target, loopv, sweeps, missed, crashes, due, excused, torn>>

\* delete_run: a request for a run whose directory is gone finds the archive.  Its
\* rmtree may fail half-way; what is left of it nobody counts on any more.
Delete ==
    /\ Found = "archive"
    /\ \/ target' = None
       \/ \E some \in SUBSET Streams :
            target' = [n \in Streams |-> IF n \in some THEN target[n] ELSE Nothing]
    /\ due' = [n \in Streams |-> None]
    /\ UNCHANGED <<files, dir, tree, loopv, sweeps, archives, missed, crashes, history>>

-----------------------------------------------------------------------------
(* A listing of the runs, as every page polls it: one look per place. *)

\* run_dirs and archived_dirs
ListedIn(place) == CASE place = "runs" -> dir
                     [] place = "archive" -> target # None

\* Mutant: the archive is listed first.
PlacesSwapped == <<"archive", "runs">>

\* all_runs: the run directories of every checkout, then the archive
Places == <<"runs", "archive">>

\* The run is found, or the listing goes on to the next place; without one it is over.
List ==
    /\ IF missed = Len(Places) THEN missed' = 0
       ELSE missed' = IF ListedIn(Places[missed + 1]) THEN 0 ELSE missed + 1
    /\ UNCHANGED <<files, dir, tree, target, loopv, sweeps, archives, crashes, due, history>>

-----------------------------------------------------------------------------
(* Kills: of the loop, of a process that sweeps, of the dashboard. *)

Killed == crashes < MaxCrashes /\ crashes' = crashes + 1

LoopKilled ==
    /\ Killed /\ loop # None /\ loop' = None
    /\ UNCHANGED <<files, dir, tree, target, loops, sweeps, archives, missed, due, history>>

\* A file it was writing alone stays as it is: half.
SweepKilled(s) ==
    LET stays(file) == IF file = None \/ file.by # {s} THEN file ELSE Gz(Half, {})
    IN  /\ Killed /\ sweep[s] \notin {"ready", "done", "dead"}
        /\ sweep' = [sweep EXCEPT ![s] = "dead"]
        /\ part' = [n \in Streams |-> stays(part[n])]
        /\ gz' = [n \in Streams |-> stays(gz[n])]
        /\ todo' = [todo EXCEPT ![s] = {}]
        /\ at' = [at EXCEPT ![s] = None] /\ got' = [got EXCEPT ![s] = None]
        /\ UNCHANGED <<plain, dir, tree, target, loopv, archives, missed, due, history>>

DashboardKilled ==
    /\ Killed /\ \E t \in Threads : arch[t] # "ready"
    /\ arch' = [t \in Threads |-> "ready"] /\ left' = [t \in Threads |-> {}]
    /\ staging' = [t \in Threads |-> [n \in Streams |-> Nothing]]
    /\ UNCHANGED <<files, dir, tree, target, loopv, sweeps, missed, due, history>>

Loop == Resume \/ (\E n \in Streams : Open(n)) \/ Write \/ CloseStream
Sweep(s) ==
    \/ Ends(s) \/ Passes(s) \/ Compressible(s)
    \/ (\E n \in Streams : OpenBoth(s, n)) \/ Copied(s) \/ Replace(s) \/ Unlink(s)
Archive(t) ==
    \/ Look(t) \/ Copy(t) \/ Verify(t)
    \/ Publish(t) \/ Remove(t) \/ Git(t) \/ Restore(t)

Next ==
    \/ Loop \/ Delete \/ List \/ LoopKilled \/ DashboardKilled
    \/ \E s \in Sweepers : Sweep(s) \/ SweepKilled(s)
    \/ \E t \in Threads : Archive(t)

Spec == Init /\ [][Next]_vars

-----------------------------------------------------------------------------

TypeOK ==
    /\ plain \in [Streams -> Plains] /\ due \in [Streams -> Plains]
    /\ gz \in [Streams -> Gzs(SUBSET Sweepers)] /\ part \in [Streams -> Gzs(SUBSET Sweepers)]
    /\ {dir, tree} \subseteq BOOLEAN /\ missed \in 0..Len(Places)
    /\ target = None \/ target \in Copies
    /\ loop \in {None, Idle} \cup Streams
    /\ loops \in 0..MaxLoops /\ crashes \in 0..MaxCrashes
    /\ sweep \in [Sweepers -> {"ready", "list", "next", "copy", "replace", "unlink",
                               "done", "dead"}]
    /\ todo \in [Sweepers -> SUBSET Streams] /\ at \in [Sweepers -> {None} \cup Streams]
    /\ got \in [Sweepers -> Plains]
    /\ arch \in [Threads -> {"ready", "copy", "verify", "publish", "remove", "git",
                             "restore"}]
    /\ left \in [Threads -> SUBSET Streams] /\ staging \in [Threads -> Copies]
    /\ excused \in [Streams -> SUBSET {"written", "shared", "raced"}]
    /\ raised \in BOOLEAN /\ torn \subseteq Streams

\* What RunDir.open_iteration reads: the plain file when there is one
Reads(n, copy) ==
    IF copy.plain # None THEN copy.plain
    ELSE IF copy.gz # None /\ copy.gz.by = {} THEN copy.gz.body ELSE None

Kept(n) ==
    \/ due[n] = None
    \/ Reads(n, [plain |-> plain[n], gz |-> gz[n]]) = due[n]
    \/ target # None /\ Reads(n, target[n]) = due[n]

\* All that a stream was given can be read, in the run directory or in the
\* archive, at every moment of a sweep or an archive and after any kill
\* (prune.py:1-17, service.py:174, server.py:575-581): unless the loop wrote to it
\* while a sweep compressed it, two sweeps shared its partial, or a loop that
\* resumed wrote to it after an archive had verified its copy.
RecordKept == \A n \in Streams : excused[n] = {} => Kept(n)

\* "Reclaim the space a finished run's event streams take, without losing any"
\* (prune.py:1), without the first two of these exceptions.
SweepLosesNothing == \A n \in Streams : excused[n] \subseteq {"written", "shared"} => Kept(n)

\* What the run directory itself has of a stream
HereWhole(n) == due[n] = None \/ Reads(n, [plain |-> plain[n], gz |-> gz[n]]) = due[n]

\* An archive that has been answered left a worktree with its whole record, or no
\* worktree: git's refusal and its silence both bring the record back
\* (service.py:273-299).  Excepted are an archive that ended in an exception after
\* it had published (TreeAlwaysWhole is refuted), and, of the streams, what
\* RecordKept excepts and one that was removed under a sweep that then went on
\* with it in the restored directory.
TreeHasRecord ==
    (\A t \in Threads : arch[t] = "ready") /\ crashes = 0 /\ ~raised /\ tree =>
        /\ dir \/ \A n \in Streams : due[n] = None
        /\ \A n \in Streams : excused[n] = {} /\ n \notin torn => HereWhole(n)

\* "Put lmloop-owned files back when Git retains the worktree" (service.py:274),
\* whatever raised.  TLC refutes it: rmtree raises half-way, or what follows it does,
\* and restore_source is never called.
TreeAlwaysWhole ==
    (\A t \in Threads : arch[t] = "ready") /\ crashes = 0 /\ tree =>
        \A n \in Streams : excused[n] = {} /\ n \notin torn => HereWhole(n)

\* A listing shows every run whose record is not deleted, beside whatever archive:
\* the record is published before the run directory goes, and the places are
\* looked at in that order (web/runs.py:667-685).
ListingShowsRun ==
    [][missed' = Len(Places) => missed = missed' \/ \A n \in Streams : due[n] = None]_vars

=============================================================================
