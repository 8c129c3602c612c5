------------------------------ MODULE RunClaim ------------------------------
(***************************************************************************)
(* Ownership of one run directory.                                         *)
(*                                                                         *)
(* The loop of a run is a process that has claimed the run: loop.pid holds *)
(* its pid.  Processes arrive from `lmloop run` (Prepare), `lmloop resume` *)
(* (Resume) and the dashboard's "continue" button (Continue...), and each  *)
(* walks, file operation by file operation, through cmd_resume, Run.attach,*)
(* RunDir.claim, Run.start and Run._finalise.  Files outlive processes: a  *)
(* process may be killed between any two operations, and the kernel may    *)
(* then hand its pid to something unrelated.                               *)
(*                                                                         *)
(* One operation on one file is one step.  The exceptions are pairs with   *)
(* no reader that can tell them apart: the two unlinks of STOP and         *)
(* STOP-NOW (one flag, as stop_requested reads them) and the read of       *)
(* loop.pid with the look-up of the pid it names.                          *)
(***************************************************************************)
EXTENDS Naturals, FiniteSets

CONSTANTS
  Proc,        \* processes that may become the loop of this run
  Pid,         \* process ids
  PidOf,       \* the pid each process gets from the kernel
  Web,         \* request threads of the dashboard (ThreadingHTTPServer)
  None,        \* no file, nobody
  Empty,       \* loop.pid, created and not written yet
  MaxCrashes   \* bound: processes killed without running another instruction

ASSUME ClaimAssumption ==
  /\ PidOf \in [Proc -> Pid]
  /\ \A p, q \in Proc : PidOf[p] = PidOf[q] => p = q
  /\ None \notin Pid \cup Proc
  /\ Empty \notin Pid \cup {None}
  /\ MaxCrashes \in Nat

VARIABLES
  pidfile,     \* loop.pid: None, Empty, or the pid it names
  lock,        \* resume.lock: None, or the process that created it
  stop,        \* STOP or STOP-NOW exists
  status,      \* status.json: what the last loop to write it said of the run
  os,          \* what runs under each pid, as /proc/<pid> shows it
  first,       \* the process that created the run directory, or None
  pc,          \* where each process is
  verdict,     \* what its claim() came to
  tries,       \* turns taken of claim()'s two-turn loop
  interrupted, \* processes that have seen one SIGINT or SIGTERM
  fate,        \* how a process came to its end
  wpc          \* where each dashboard thread is in "continue"

procVars == <<pc, verdict, tries, interrupted, fate>>
vars == <<pidfile, lock, stop, status, os, first, procVars, wpc>>

-----------------------------------------------------------------------------
Claiming  == {"clear", "open", "probe", "unlink", "write", "unlock"}
Driving   == {"start", "begun", "work", "again"}
Finishing == {"terminal", "release", "drop", "sweep"}
Stages    == {"idle", "unstop", "check", "lock", "attach", "late", "exit"}
               \cup Claiming \cup Driving \cup Finishing

Alive(p) == pc[p] \notin {"idle", "exit"}

\* claim() returned True to p and p has not given the run up.
Holds(p) ==
  /\ verdict[p] = "owned"
  /\ Alive(p)

\* runrecord.holder: the pid file names a process whose command line is lmloop's.
Holder == IF pidfile \in Pid /\ os[pidfile] \in {"loop", "lmloop"} THEN pidfile ELSE None

\* RunDir.holder, which never counts the asking process itself.
HolderFor(p) == IF Holder = PidOf[p] THEN None ELSE Holder

\* p moves to another stage.
Goto(p, stage) == pc' = [pc EXCEPT ![p] = stage]

\* p is over: its pid is free again and its memory is gone.
Exit(p, how) ==
  /\ pc' = [pc EXCEPT ![p] = "exit"]
  /\ fate' = [fate EXCEPT ![p] = how]
  /\ os' = [os EXCEPT ![PidOf[p]] = "free"]
  /\ tries' = [tries EXCEPT ![p] = 0]
  /\ interrupted' = interrupted \ {p}

Init ==
  /\ pidfile = None
  /\ lock = None
  /\ stop = FALSE
  /\ status = "none"
  /\ os = [i \in Pid |-> "free"]
  /\ first = None
  /\ pc = [p \in Proc |-> "idle"]
  /\ verdict = [p \in Proc |-> "none"]
  /\ tries = [p \in Proc |-> 0]
  /\ interrupted = {}
  /\ fate = [p \in Proc |-> "none"]
  /\ wpc = [w \in Web |-> "idle"]

-----------------------------------------------------------------------------
(* How a loop process comes to be.                                         *)

Spawn(p, stage) ==
  /\ pc[p] = "idle"
  /\ os[PidOf[p]] = "free"
  /\ os' = [os EXCEPT ![PidOf[p]] = "loop"]
  /\ Goto(p, stage)

\* `lmloop run`: prepare() makes the run directory and goes straight to claim().
Prepare(p) ==
  /\ first = None
  /\ first' = p
  /\ Spawn(p, "lock")
  /\ UNCHANGED <<pidfile, lock, stop, status, verdict, tries, interrupted, fate, wpc>>

\* `lmloop resume` on a run that exists.
Resume(p) ==
  /\ first # None
  /\ Spawn(p, "unstop")
  /\ UNCHANGED <<pidfile, lock, stop, status, first, verdict, tries, interrupted, fate, wpc>>

\* The dashboard's "continue": refused with 409 while the run has a holder ...
ContinueCheck(w) ==
  /\ wpc[w] = "idle"
  /\ first # None
  /\ Holder = None
  /\ wpc' = [wpc EXCEPT ![w] = "clear"]
  /\ UNCHANGED <<pidfile, lock, stop, status, os, first, procVars>>

\* ... then it clears the sentinels ...
ContinueClear(w) ==
  /\ wpc[w] = "clear"
  /\ wpc' = [wpc EXCEPT ![w] = "spawn"]
  /\ stop' = FALSE
  /\ UNCHANGED <<pidfile, lock, status, os, first, procVars>>

\* ... and starts a `lmloop resume` of its own.
ContinueSpawn(w, p) ==
  /\ wpc[w] = "spawn"
  /\ wpc' = [wpc EXCEPT ![w] = "idle"]
  /\ Spawn(p, "unstop")
  /\ UNCHANGED <<pidfile, lock, stop, status, first, verdict, tries, interrupted, fate>>

-----------------------------------------------------------------------------
(* cmd_resume and the head of Run.attach.                                  *)

\* cmd_resume removes a leftover STOP and STOP-NOW before anything else.
Unstop(p) ==
  /\ pc[p] = "unstop"
  /\ stop' = FALSE
  /\ Goto(p, "check")
  /\ UNCHANGED <<pidfile, lock, status, os, first, verdict, tries, interrupted, fate, wpc>>

\* attach() refuses a run that already has a loop.
CheckFree(p) ==
  /\ pc[p] = "check"
  /\ HolderFor(p) = None
  /\ Goto(p, "lock")
  /\ UNCHANGED <<pidfile, lock, stop, status, os, first, verdict, tries, interrupted, fate, wpc>>

CheckHeld(p) ==
  /\ pc[p] = "check"
  /\ HolderFor(p) # None
  /\ verdict' = [verdict EXCEPT ![p] = "refused"]
  /\ Exit(p, "clean")
  /\ UNCHANGED <<pidfile, lock, stop, status, first, wpc>>

-----------------------------------------------------------------------------
(* RunDir.claim.                                                           *)

\* Mutant: resume.lock is opened without O_EXCL.
LockShared(p) ==
  /\ pc[p] = "lock"
  /\ lock' = p
  /\ Goto(p, "clear")
  /\ UNCHANGED <<pidfile, stop, status, os, first, verdict, tries, interrupted, fate, wpc>>

\* os.open(resume.lock, O_CREAT | O_EXCL).
LockTaken(p) ==
  /\ pc[p] = "lock"
  /\ lock = None
  /\ lock' = p
  /\ Goto(p, "clear")
  /\ UNCHANGED <<pidfile, stop, status, os, first, verdict, tries, interrupted, fate, wpc>>

\* Mutant: a busy resume.lock is waited for.
LockBusyWaits(p) == pc[p] = "lock" /\ FALSE /\ UNCHANGED vars

\* resume.lock is there: claim() returns False, and its callers do not look.
LockBusy(p) ==
  /\ pc[p] = "lock"
  /\ lock # None
  /\ verdict' = [verdict EXCEPT ![p] = "stray"]
  /\ Goto(p, "attach")
  /\ UNCHANGED <<pidfile, lock, stop, status, os, first, tries, interrupted, fate, wpc>>

ClearStop(p) ==
  /\ pc[p] = "clear"
  /\ stop' = FALSE
  /\ Goto(p, "open")
  /\ UNCHANGED <<pidfile, lock, status, os, first, verdict, tries, interrupted, fate, wpc>>

\* os.open(loop.pid, O_CREAT | O_EXCL) makes an empty file ...
OpenPid(p) ==
  /\ pc[p] = "open"
  /\ pidfile = None
  /\ pidfile' = Empty
  /\ Goto(p, "write")
  /\ UNCHANGED <<lock, stop, status, os, first, verdict, tries, interrupted, fate, wpc>>

\* Mutant: the file names the run's process handle instead of its pid.
WriteHandle(p) ==
  /\ pc[p] = "write"
  /\ pidfile' = p
  /\ verdict' = [verdict EXCEPT ![p] = "owned"]
  /\ Goto(p, "unlock")
  /\ UNCHANGED <<lock, stop, status, os, first, tries, interrupted, fate, wpc>>

\* ... which the next call fills.
WritePid(p) ==
  /\ pc[p] = "write"
  /\ pidfile' = PidOf[p]
  /\ verdict' = [verdict EXCEPT ![p] = "owned"]
  /\ Goto(p, "unlock")
  /\ UNCHANGED <<lock, stop, status, os, first, tries, interrupted, fate, wpc>>

OpenExists(p) ==
  /\ pc[p] = "open"
  /\ pidfile # None
  /\ Goto(p, "probe")
  /\ UNCHANGED <<pidfile, lock, stop, status, os, first, verdict, tries, interrupted, fate, wpc>>

\* Mutant: the refusal propagates from outside the `finally`.
RefuseLocked(p) ==
  /\ pc[p] = "probe"
  /\ pidfile \in Pid
  /\ os[pidfile] # "free"
  /\ verdict' = [verdict EXCEPT ![p] = "refused"]
  /\ Exit(p, "clean")
  /\ UNCHANGED <<pidfile, lock, stop, status, first, wpc>>

\* os.kill(pid, 0) finds something under the pid, whatever it is: SystemExit.
ProbeAlive(p) ==
  /\ pc[p] = "probe"
  /\ pidfile \in Pid
  /\ os[pidfile] # "free"
  /\ verdict' = [verdict EXCEPT ![p] = "refused"]
  /\ Goto(p, "unlock")
  /\ UNCHANGED <<pidfile, lock, stop, status, os, first, tries, interrupted, fate, wpc>>

\* Mutant: any loop.pid that is already there counts as stale.
ProbeNothing(p) ==
  /\ pc[p] = "probe"
  /\ Goto(p, "unlink")
  /\ UNCHANGED <<pidfile, lock, stop, status, os, first, verdict, tries, interrupted, fate, wpc>>

\* Nothing there, nothing readable, or no such process: stale.
ProbeStale(p) ==
  /\ pc[p] = "probe"
  /\ ~(pidfile \in Pid /\ os[pidfile] # "free")
  /\ Goto(p, "unlink")
  /\ UNCHANGED <<pidfile, lock, stop, status, os, first, verdict, tries, interrupted, fate, wpc>>

\* The stale file goes, and the loop takes its second turn, if it has one left.
UnlinkStale(p) ==
  /\ pc[p] = "unlink"
  /\ pidfile # None
  /\ pidfile' = None
  /\ tries' = [tries EXCEPT ![p] = tries[p] + 1]
  /\ IF tries[p] = 0
     THEN Goto(p, "open") /\ UNCHANGED verdict
     ELSE Goto(p, "unlock") /\ verdict' = [verdict EXCEPT ![p] = "stray"]
  /\ UNCHANGED <<lock, stop, status, os, first, interrupted, fate, wpc>>

\* Its owner released it in between: unlink raises and claim() returns False.
UnlinkGone(p) ==
  /\ pc[p] = "unlink"
  /\ pidfile = None
  /\ verdict' = [verdict EXCEPT ![p] = "stray"]
  /\ Goto(p, "unlock")
  /\ UNCHANGED <<pidfile, lock, stop, status, os, first, tries, interrupted, fate, wpc>>

\* `finally`: the lock goes, then a refusal propagates and a Boolean returns.
Unlock(p) ==
  /\ pc[p] = "unlock"
  /\ lock' = None
  /\ \/ /\ verdict[p] = "refused"
        /\ Exit(p, "clean")
     \/ /\ verdict[p] # "refused"
        /\ Goto(p, "attach")
        /\ UNCHANGED <<os, fate, tries, interrupted>>
  /\ UNCHANGED <<pidfile, stop, status, first, verdict, wpc>>

-----------------------------------------------------------------------------
(* The rest of prepare() and attach(): set-up that may raise.              *)

\* Mutant: the set-up raises and nobody releases.
SetupFailsHeld(p) ==
  /\ pc[p] = "attach"
  /\ Exit(p, "failed")
  /\ UNCHANGED <<pidfile, lock, stop, status, first, verdict, wpc>>

\* The guarded set-up raises: release(), and the exception goes on.
SetupFails(p) ==
  /\ pc[p] = "attach"
  /\ fate' = [fate EXCEPT ![p] = "failed"]
  /\ Goto(p, "release")
  /\ UNCHANGED <<pidfile, lock, stop, status, os, first, verdict, tries, interrupted, wpc>>

\* prepare() guards all of its set-up; attach() has four unguarded calls left.
SetupDone(p) ==
  /\ pc[p] = "attach"
  /\ Goto(p, IF p = first THEN "start" ELSE "late")
  /\ UNCHANGED <<pidfile, lock, stop, status, os, first, verdict, tries, interrupted, fate, wpc>>

LateDone(p) ==
  /\ pc[p] = "late"
  /\ Goto(p, "start")
  /\ UNCHANGED <<pidfile, lock, stop, status, os, first, verdict, tries, interrupted, fate, wpc>>

\* exclude, publish_sessions, link_environment or the event raises, outside any try.
LateFails(p) ==
  /\ pc[p] = "late"
  /\ Exit(p, "late")
  /\ UNCHANGED <<pidfile, lock, stop, status, first, verdict, wpc>>

-----------------------------------------------------------------------------
(* Run.start and Run._finalise.                                            *)

\* An iteration begins, unless a stop is on disk.  Nothing is written yet: what
\* the last loop said of the run stands in status.json, "begun" until this
\* process has said something itself.
Iterate(p) ==
  /\ pc[p] \in {"start", "again"}
  /\ ~stop
  /\ p \notin interrupted
  /\ Goto(p, IF pc[p] = "start" THEN "begun" ELSE "work")
  /\ UNCHANGED <<pidfile, lock, stop, status, os, first, verdict, tries, interrupted, fate, wpc>>

\* The iteration's agent makes progress: _on_progress writes status.json.
Report(p) ==
  /\ pc[p] \in {"begun", "work"}
  /\ Goto(p, "work")
  /\ status' = "working"
  /\ UNCHANGED <<pidfile, lock, stop, os, first, verdict, tries, interrupted, fate, wpc>>

\* The iteration, or an attempt at one that no agent came of, is over.
EndIteration(p) ==
  /\ pc[p] \in {"begun", "work"}
  /\ Goto(p, IF pc[p] = "begun" THEN "start" ELSE "again")
  /\ UNCHANGED <<pidfile, lock, stop, status, os, first, verdict, tries, interrupted, fate, wpc>>

\* Between two iterations, after a preflight or a review that did not reach the
\* model: _wait_for_server writes status.json and pauses the run.
AwaitServer(p) ==
  /\ pc[p] \in {"start", "again"}
  /\ Goto(p, "again")
  /\ status' = "waiting"
  /\ UNCHANGED <<pidfile, lock, stop, os, first, verdict, tries, interrupted, fate, wpc>>

\* The loop ends, for a sentinel or for a reason of its own.
Finish(p) ==
  /\ pc[p] \in Driving
  /\ Goto(p, "terminal")
  /\ UNCHANGED <<pidfile, lock, stop, status, os, first, verdict, tries, interrupted, fate, wpc>>

\* write_terminal_status.
WriteTerminal(p) ==
  /\ pc[p] = "terminal"
  /\ status' = "stopped"
  /\ Goto(p, "release")
  /\ UNCHANGED <<pidfile, lock, stop, os, first, verdict, tries, interrupted, fate, wpc>>

\* What follows release(): the sweep, or the exception that led to it.
AfterRelease(p) ==
  \/ /\ fate[p] = "failed"
     /\ Exit(p, "failed")
  \/ /\ fate[p] # "failed"
     /\ Goto(p, "sweep")
     /\ UNCHANGED <<os, fate, tries, interrupted>>

\* release() reads loop.pid; somebody else's claim, or none, is left alone.
ReleaseOther(p) ==
  /\ pc[p] = "release"
  /\ pidfile # PidOf[p]
  /\ AfterRelease(p)
  /\ UNCHANGED <<pidfile, lock, stop, status, first, verdict, wpc>>

ReleaseMine(p) ==
  /\ pc[p] = "release"
  /\ pidfile = PidOf[p]
  /\ Goto(p, "drop")
  /\ UNCHANGED <<pidfile, lock, stop, status, os, first, verdict, tries, interrupted, fate, wpc>>

DropClaim(p) ==
  /\ pc[p] = "drop"
  /\ pidfile' = None
  /\ verdict' = [verdict EXCEPT ![p] = "none"]
  /\ AfterRelease(p)
  /\ UNCHANGED <<lock, stop, status, first, wpc>>

\* Mutant: the terminal status is written again after the release.
SweepWritesStatus(p) ==
  /\ pc[p] = "sweep"
  /\ status' = "stopped"
  /\ Exit(p, "clean")
  /\ UNCHANGED <<pidfile, lock, stop, first, verdict, wpc>>

\* _sweep and the notifications, then the process is over.
Sweep(p) ==
  /\ pc[p] = "sweep"
  /\ Exit(p, "clean")
  /\ UNCHANGED <<pidfile, lock, stop, status, first, verdict, wpc>>

-----------------------------------------------------------------------------
(* Signals, the operator, and the kernel.                                  *)

\* The first signal is remembered; the loop ends at its next look.
SignalFirst(p) ==
  /\ pc[p] \in Driving \cup Finishing
  /\ fate[p] # "failed"
  /\ p \notin interrupted
  /\ interrupted' = interrupted \cup {p}
  /\ UNCHANGED <<pidfile, lock, stop, status, os, first, pc, verdict, tries, fate, wpc>>

\* The second raises KeyboardInterrupt where it lands: in the driver it leads
\* to _finalise, inside _finalise it passes through _safely and ends the process.
SignalAgain(p) ==
  /\ fate[p] # "failed"
  /\ p \in interrupted
  /\ \/ /\ pc[p] \in Driving
        /\ Goto(p, "terminal")
        /\ UNCHANGED <<os, fate, tries, interrupted>>
     \/ /\ pc[p] \in Finishing
        /\ Exit(p, "cut")
  /\ UNCHANGED <<pidfile, lock, stop, status, first, verdict, wpc>>

\* The operator asks for a stop: a key, a touch, or the dashboard's button.
AskStop ==
  /\ first # None
  /\ stop' = TRUE
  /\ UNCHANGED <<pidfile, lock, status, os, first, procVars, wpc>>

\* SIGKILL, the OOM killer, a power cut: the files stay as they are.
Crash(p) ==
  /\ Alive(p)
  /\ Cardinality({q \in Proc : fate[q] = "crashed"}) < MaxCrashes
  /\ Exit(p, "crashed")
  /\ UNCHANGED <<pidfile, lock, stop, status, first, verdict, wpc>>

\* A free pid goes to an unrelated process, another lmloop program or not.
\* Only the pid in loop.pid matters: no other one is ever looked up.
Recycle(i, what) ==
  /\ pidfile = i
  /\ os[i] = "free"
  /\ os' = [os EXCEPT ![i] = what]
  /\ UNCHANGED <<pidfile, lock, stop, status, first, procVars, wpc>>

Vanish(i) ==
  /\ os[i] \in {"lmloop", "other"}
  /\ os' = [os EXCEPT ![i] = "free"]
  /\ UNCHANGED <<pidfile, lock, stop, status, first, procVars, wpc>>

-----------------------------------------------------------------------------
Claim(p) ==
  \/ LockTaken(p) \/ LockBusy(p) \/ ClearStop(p)
  \/ OpenPid(p) \/ WritePid(p) \/ OpenExists(p)
  \/ ProbeAlive(p) \/ ProbeStale(p) \/ UnlinkStale(p) \/ UnlinkGone(p)
  \/ Unlock(p)

Finalise(p) ==
  \/ WriteTerminal(p) \/ ReleaseOther(p) \/ ReleaseMine(p) \/ DropClaim(p) \/ Sweep(p)

Step(p) ==
  \/ Unstop(p) \/ CheckFree(p) \/ CheckHeld(p)
  \/ Claim(p)
  \/ SetupFails(p) \/ SetupDone(p) \/ LateDone(p) \/ LateFails(p)
  \/ Iterate(p) \/ Report(p) \/ EndIteration(p) \/ AwaitServer(p) \/ Finish(p)
  \/ Finalise(p)

Next ==
  \/ \E p \in Proc : Prepare(p) \/ Resume(p)
  \/ \E w \in Web : ContinueCheck(w) \/ ContinueClear(w)
  \/ \E w \in Web, p \in Proc : ContinueSpawn(w, p)
  \/ \E p \in Proc : Step(p)
  \/ \E p \in Proc : SignalFirst(p) \/ SignalAgain(p) \/ Crash(p)
  \/ AskStop
  \/ \E i \in Pid, what \in {"lmloop", "other"} : Recycle(i, what)
  \/ \E i \in Pid : Vanish(i)

Spec == Init /\ [][Next]_vars

\* A process that is not killed takes its next step.
FairSpec == Spec /\ \A p \in Proc : WF_vars(Step(p))

-----------------------------------------------------------------------------
(* Properties.                                                             *)

\* Type correctness of every variable of the model.
TypeOK ==
  /\ pidfile \in Pid \cup {None, Empty}
  /\ lock \in Proc \cup {None}
  /\ stop \in BOOLEAN
  /\ status \in {"none", "working", "waiting", "stopped"}
  /\ os \in [Pid -> {"free", "loop", "lmloop", "other"}]
  /\ first \in Proc \cup {None}
  /\ pc \in [Proc -> Stages]
  /\ verdict \in [Proc -> {"none", "owned", "stray", "refused"}]
  /\ tries \in [Proc -> 0 .. 2]
  /\ interrupted \subseteq Proc
  /\ fate \in [Proc -> {"none", "clean", "failed", "late", "cut", "crashed"}]
  /\ wpc \in [Web -> {"idle", "clear", "spawn"}]

\* "A live claim is never discarded" (RunDir.claim): from the moment claim()
\* has returned True until the owner gives the run up, loop.pid names the owner,
\* whoever else probes, unlinks or releases meanwhile.
ClaimKept == \A p \in Proc : Holds(p) => pidfile = PidOf[p]

\* Two processes never both hold a claim on the run.
ClaimExclusive == \A p, q \in Proc : Holds(p) /\ Holds(q) => p = q

\* A process that ended by itself, well or by a set-up failure it guards
\* against, left no loop.pid of its own behind (_finalise, prepare, attach).
ReleasedWhenOver ==
  \A p \in Proc : pc[p] = "exit" /\ fate[p] \in {"clean", "failed"} => pidfile # PidOf[p]

\* resume.lock outlives its creator only if that process was killed: every
\* other way out of claim(), a refusal included, goes through its `finally`.
LockReturned == lock # None => pc[lock] \in Claiming \/ fate[lock] = "crashed"

\* As long as every loop came to own its run, what a loop has said in
\* status.json stands until it says otherwise: from its first report on, through
\* every later iteration and wait, no other loop's end is shown, and from its own
\* end until its claim is gone nobody's work is (_on_progress, _finalise: the
\* terminal status precedes the release).
StatusHonest ==
  (\A q \in Proc : verdict[q] # "stray") =>
    \A p \in Proc :
      /\ pc[p] \in {"work", "again"} => status \in {"working", "waiting"}
      /\ pc[p] \in {"release", "drop"} /\ fate[p] # "failed" => status = "stopped"

\* Who owns the run, for the abstract specification.
Owner == IF \E p \in Proc : Holds(p) THEN CHOOSE p \in Proc : Holds(p) ELSE None

Abstract == INSTANCE RunOwner WITH owner <- Owner

\* The files implement ownership: one owner at a time, taken only when free.
ImplementsOwner == Abstract!Spec

\* Claiming never waits: a process that starts to resume or claim is refused,
\* or owns the run, or carries on without it, whatever the others do.
EveryClaimDecides ==
  \A p \in Proc :
    pc[p] \in {"unstop", "check", "lock"} \cup Claiming ~> verdict[p] # "none" \/ ~Alive(p)

-----------------------------------------------------------------------------
(* What the source says and the code does not do: TLC finds a              *)
(* counterexample to each, which the README tells.                         *)

\* attach(): "Two loops in one worktree commit over each other"; the claim is
\* there so that a run has one loop at a time.
OneLoop == \A p, q \in Proc : pc[p] \in Driving /\ pc[q] \in Driving => p = q

\* write_status: status.json says "what the run is doing right now".  While an
\* iteration of the owner is under way, it does not say that the run is over.
StatusCurrent ==
  (\A q \in Proc : verdict[q] # "stray") =>
    \A p \in Proc : pc[p] \in {"begun", "work"} => status # "stopped"

\* README: `q` finishes the current iteration, commits, exits.  Nothing takes
\* the STOP away while the owner of the run is at work, or it would run on.
StopKept == [][\A p \in Proc : Holds(p) /\ pc[p] \in Driving /\ stop => stop']_vars

\* runrecord.holder: "a recycled pid cannot lock a run out".  A resume is
\* refused only on account of a process that lmloop could be.
RecycledPidNeverLocksOut ==
  [][\A p \in Proc :
       verdict[p] # "refused" /\ verdict'[p] = "refused" => os[pidfile] \in {"loop", "lmloop"}]_vars
=============================================================================
