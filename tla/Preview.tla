------------------------------- MODULE Preview -------------------------------
(***************************************************************************)
(* The preview of one run: preview.py's start, stop, restart and status    *)
(* over preview.pid, preview.state and the process table, as threads of    *)
(* the dashboard call them.  start, stop and restart hold preview.lock;    *)
(* status, which every page polls, does not.  The dashboard may be killed  *)
(* and restarted, and the servers it launched live on.                     *)
(*                                                                         *)
(* The preview's port is configured, not "auto".  A server is told apart   *)
(* from a later process with its pid by its start time, so preview.pid     *)
(* names a server here and not a number.  A server and what it started are *)
(* one process: _terminate signals the group, and what outlives its leader *)
(* is left out.                                                            *)
(***************************************************************************)
EXTENDS Naturals, FiniteSets

CONSTANTS
  Srv,         \* bound: server processes ever launched for this run
  Web,         \* dashboard threads that start, stop or restart
  Poll,        \* dashboard threads that ask for the status
  None,
  MaxCrashes   \* bound: how often the dashboard is killed

\* What preview.state may say.
States == {"stopped", "starting", "ready", "failed"}

ASSUME PreviewAssumption ==
  /\ None \notin Srv \cup Web \cup Poll
  /\ None \notin States
  /\ Web \cap Poll = {}
  /\ MaxCrashes \in Nat

VARIABLES
  record,      \* preview.pid: the server it names, or None
  state,       \* preview.state
  tmp,         \* preview.state.tmp: a state, or None
  lock,        \* preview.lock: the thread that holds it, or None
  srv,         \* each server: idle (not launched), up, listening on the port, dead
  alien,       \* a process that is not this worktree's listens on the port
  wraps,       \* the configured command leaves the listening to a child (npm, sh -c)
  pc,          \* where each thread is
  op,          \* what each thread was asked for
  seen,        \* the record each thread read or made
  will,        \* the state each thread has read, or is about to write
  crashes,
  \* History.
  found,       \* the unrecorded server that listened when an operation began
  beside       \* a status was asked for beside an operation

threads == <<pc, op, seen, will>>
vars == <<record, state, tmp, lock, srv, alien, wraps, threads, crashes, found, beside>>

Thread == Web \cup Poll

-----------------------------------------------------------------------------
\* _identity: the process is there and is the one the record was made of.
Live(s) == s \in Srv /\ srv[s] \in {"up", "listening"}

Listening == {s \in Srv : srv[s] = "listening"}

\* _orphan, of what _port_holder found: it runs in this worktree and leads its own
\* group.  The child of a command that wraps its server leads none.
Adoptable == IF wraps THEN {} ELSE Listening

\* _port_busy.
Busy == alien \/ Listening # {}

\* _terminate: SIGTERM, then SIGKILL, to a process that is still the one meant.
Ended(S) == [s \in Srv |-> IF s \in S /\ Live(s) THEN "dead" ELSE srv[s]]

Goto(t, stage) == pc' = [pc EXCEPT ![t] = stage]

\* What the result of a status or of a _set_state leads to: status inside start()
\* to a launch unless all is well, a restart's stop to its start, the rest to the end.
Answered(t, answer) ==
  CASE op[t] = "start" /\ answer \notin {"starting", "ready"} ->
         Goto(t, "adopt") /\ op' = [op EXCEPT ![t] = "launch"]
    [] op[t] = "restart" -> Goto(t, "meta") /\ op' = [op EXCEPT ![t] = "start"]
    [] OTHER -> Goto(t, "end") /\ UNCHANGED op

Init ==
  /\ record = None
  /\ state = "stopped"
  /\ tmp = None
  /\ lock = None
  /\ srv = [s \in Srv |-> "idle"]
  /\ alien = FALSE
  /\ wraps \in BOOLEAN
  /\ pc = [t \in Thread |-> "idle"]
  /\ op = [t \in Thread |-> "none"]
  /\ seen = [t \in Thread |-> None]
  /\ will = [t \in Thread |-> "none"]
  /\ crashes = 0
  /\ found = None
  /\ beside = FALSE

-----------------------------------------------------------------------------
(* Requests.                                                               *)

Operate(t, what) ==
  /\ pc[t] = "idle"
  /\ op' = [op EXCEPT ![t] = what]
  /\ Goto(t, "lock")
  /\ UNCHANGED <<record, state, tmp, lock, srv, alien, wraps, seen, will, crashes, found, beside>>

Ask(t) ==
  /\ pc[t] = "idle"
  /\ op' = [op EXCEPT ![t] = "status"]
  /\ Goto(t, "meta")
  /\ beside' = (beside \/ lock # None)
  /\ UNCHANGED <<record, state, tmp, lock, srv, alien, wraps, seen, will, crashes, found>>

\* Mutant: nobody waits for the lock.
TakeLockBusy(t) ==
  /\ pc[t] = "lock"
  /\ lock' = t
  /\ Goto(t, IF op[t] = "start" THEN "meta" ELSE "stop")
  /\ found' = IF Live(record) \/ Listening = {} THEN None ELSE CHOOSE s \in Listening : TRUE
  /\ beside' = (beside \/ \E q \in Poll : pc[q] # "idle")
  /\ UNCHANGED <<record, state, tmp, srv, alien, wraps, op, seen, will, crashes>>

TakeLock(t) ==
  /\ pc[t] = "lock"
  /\ lock = None
  /\ lock' = t
  /\ Goto(t, IF op[t] = "start" THEN "meta" ELSE "stop")
  /\ found' = IF Live(record) \/ Listening = {} THEN None ELSE CHOOSE s \in Listening : TRUE
  /\ beside' = (beside \/ \E q \in Poll : pc[q] # "idle")
  /\ UNCHANGED <<record, state, tmp, srv, alien, wraps, op, seen, will, crashes>>

\* The request is answered, and what it held is given back.
Release(t) ==
  /\ pc[t] \in {"end", "raised"}
  /\ lock' = IF lock = t THEN None ELSE lock
  /\ found' = IF lock = t THEN None ELSE found
  /\ Goto(t, "idle")
  /\ op' = [op EXCEPT ![t] = "none"]
  /\ seen' = [seen EXCEPT ![t] = None]
  /\ will' = [will EXCEPT ![t] = "none"]
  /\ UNCHANGED <<record, state, tmp, srv, alien, wraps, crashes, beside>>

-----------------------------------------------------------------------------
(* status, with the lock (inside start) or without it.                     *)

ReadRecord(t) ==
  /\ pc[t] = "meta"
  /\ seen' = [seen EXCEPT ![t] = record]
  /\ Goto(t, "state")
  /\ UNCHANGED <<record, state, tmp, lock, srv, alien, wraps, op, will, crashes, found, beside>>

ReadState(t) ==
  /\ pc[t] = "state"
  /\ will' = [will EXCEPT ![t] = state]
  /\ Goto(t, "look")
  /\ UNCHANGED <<record, state, tmp, lock, srv, alien, wraps, op, seen, crashes, found, beside>>

\* No record: stopped, unless a failure is still to be shown.
NoRecord(t) ==
  /\ pc[t] = "look"
  /\ seen[t] = None
  /\ IF will[t] = "failed"
     THEN Answered(t, "failed") /\ UNCHANGED will
     ELSE Goto(t, "mark") /\ will' = [will EXCEPT ![t] = "stopped"] /\ UNCHANGED op
  /\ UNCHANGED <<record, state, tmp, lock, srv, alien, wraps, seen, crashes, found, beside>>

\* A record of a process that is gone: the file goes, and the state follows.
StaleRecord(t) ==
  /\ pc[t] = "look"
  /\ seen[t] # None /\ ~Live(seen[t])
  /\ will' = [will EXCEPT ![t] = IF will[t] = "starting" THEN "failed" ELSE "stopped"]
  /\ Goto(t, "clear")
  /\ UNCHANGED <<record, state, tmp, lock, srv, alien, wraps, op, seen, crashes, found, beside>>

ClearRecord(t) ==
  /\ pc[t] = "clear"
  /\ record' = None
  /\ Goto(t, "mark")
  /\ UNCHANGED <<state, tmp, lock, srv, alien, wraps, op, seen, will, crashes, found, beside>>

\* _probe_http asks the port, whoever answers there.
Probe(t) ==
  /\ pc[t] = "look"
  /\ Live(seen[t])
  /\ will[t] \in {"starting", "ready"}
  /\ \E answer \in {"starting"} \cup (IF Busy THEN {"ready"} ELSE {}) :
       will' = [will EXCEPT ![t] = answer]
  /\ Goto(t, "mark")
  /\ UNCHANGED <<record, state, tmp, lock, srv, alien, wraps, op, seen, crashes, found, beside>>

\* Mutant: a preview that is too slow is called failed and left alone.
GiveUpLeaves(t) ==
  /\ pc[t] = "look"
  /\ Live(seen[t])
  /\ will[t] \in {"starting", "ready"}
  /\ will' = [will EXCEPT ![t] = "failed"]
  /\ Goto(t, "mark")
  /\ UNCHANGED <<record, state, tmp, lock, srv, alien, wraps, op, seen, crashes, found, beside>>

\* No answer within startup_timeout_seconds.
GiveUp(t) ==
  /\ pc[t] = "look"
  /\ Live(seen[t])
  /\ will[t] \in {"starting", "ready"}
  /\ srv' = Ended({seen[t]})
  /\ will' = [will EXCEPT ![t] = "failed"]
  /\ Goto(t, "mark")
  /\ UNCHANGED <<record, state, tmp, lock, alien, wraps, op, seen, crashes, found, beside>>

\* A live server under any other state is reported as that state says.
AsWritten(t) ==
  /\ pc[t] = "look"
  /\ Live(seen[t])
  /\ will[t] \notin {"starting", "ready"}
  /\ Answered(t, will[t])
  /\ UNCHANGED <<record, state, tmp, lock, srv, alien, wraps, seen, will, crashes, found, beside>>

-----------------------------------------------------------------------------
(* _set_state writes preview.state.tmp, and renames it: whoever is second  *)
(* to rename finds it gone, and the request fails.                         *)

Prepare(t) ==
  /\ pc[t] = "mark"
  /\ tmp' = will[t]
  /\ Goto(t, "put")
  /\ UNCHANGED <<record, state, lock, srv, alien, wraps, op, seen, will, crashes, found, beside>>

Put(t) ==
  /\ pc[t] = "put"
  /\ tmp # None
  /\ state' = tmp
  /\ tmp' = None
  /\ Answered(t, will[t])
  /\ UNCHANGED <<record, lock, srv, alien, wraps, seen, will, crashes, found, beside>>

PutFails(t) ==
  /\ pc[t] = "put"
  /\ tmp = None
  /\ Goto(t, "raised")
  /\ UNCHANGED <<record, state, tmp, lock, srv, alien, wraps, op, seen, will, crashes, found, beside>>

-----------------------------------------------------------------------------
(* _start_unlocked, after its status.                                      *)

\* Mutant: only what is on record is ended.
AdoptNothing(t) ==
  /\ pc[t] = "adopt"
  /\ Goto(t, IF op[t] = "launch" THEN "launch" ELSE "drop")
  /\ UNCHANGED <<record, state, tmp, lock, srv, alien, wraps, op, seen, will, crashes, found, beside>>

\* _adopt_orphan: a server of this worktree that holds the port is ended, unless the
\* process that listens leads no group: that one is left alone, and nothing is said.
Adopt(t) ==
  /\ pc[t] = "adopt"
  /\ srv' = Ended(Adoptable)
  /\ Goto(t, IF op[t] = "launch" THEN "launch" ELSE "drop")
  /\ UNCHANGED <<record, state, tmp, lock, alien, wraps, op, seen, will, crashes, found, beside>>

\* The port is taken, the command is not a list of strings or cannot be run.
LaunchFails(t) ==
  /\ pc[t] = "launch"
  /\ will' = [will EXCEPT ![t] = "failed"]
  /\ Goto(t, "mark")
  /\ UNCHANGED <<record, state, tmp, lock, srv, alien, wraps, op, seen, crashes, found, beside>>

Launch(t) ==
  /\ pc[t] = "launch"
  /\ ~Busy
  /\ \E s \in Srv :
       /\ srv[s] = "idle"
       /\ srv' = [srv EXCEPT ![s] = "up"]
       /\ seen' = [seen EXCEPT ![t] = s]
  /\ Goto(t, "write")
  /\ UNCHANGED <<record, state, tmp, lock, alien, wraps, op, will, crashes, found, beside>>

\* Mutant: the record names the thread that made it.
WriteThread(t) ==
  /\ pc[t] = "write"
  /\ record' = t
  /\ will' = [will EXCEPT ![t] = "starting"]
  /\ Goto(t, "mark")
  /\ UNCHANGED <<state, tmp, lock, srv, alien, wraps, op, seen, crashes, found, beside>>

\* The record is written once procfs shows the child, which may be dead by then ...
WriteRecord(t) ==
  /\ pc[t] = "write"
  /\ record' = seen[t]
  /\ will' = [will EXCEPT ![t] = "starting"]
  /\ Goto(t, "mark")
  /\ UNCHANGED <<state, tmp, lock, srv, alien, wraps, op, seen, crashes, found, beside>>

\* ... and not at all if it never does.
DiedEarly(t) ==
  /\ pc[t] = "write"
  /\ ~Live(seen[t])
  /\ will' = [will EXCEPT ![t] = "failed"]
  /\ Goto(t, "mark")
  /\ UNCHANGED <<record, state, tmp, lock, srv, alien, wraps, op, seen, crashes, found, beside>>

-----------------------------------------------------------------------------
(* _stop_unlocked; restart goes on with _start_unlocked.                   *)

StopRecorded(t) ==
  /\ pc[t] = "stop"
  /\ Live(record)
  /\ srv' = Ended({record})
  /\ Goto(t, "drop")
  /\ UNCHANGED <<record, state, tmp, lock, alien, wraps, op, seen, will, crashes, found, beside>>

StopUnrecorded(t) ==
  /\ pc[t] = "stop"
  /\ ~Live(record)
  /\ Goto(t, "adopt")
  /\ UNCHANGED <<record, state, tmp, lock, srv, alien, wraps, op, seen, will, crashes, found, beside>>

DropRecord(t) ==
  /\ pc[t] = "drop"
  /\ record' = None
  /\ will' = [will EXCEPT ![t] = "stopped"]
  /\ Goto(t, "mark")
  /\ UNCHANGED <<state, tmp, lock, srv, alien, wraps, op, seen, crashes, found, beside>>

-----------------------------------------------------------------------------
(* The servers, the port's other users, and the dashboard's end.           *)

Listen(s) ==
  /\ srv[s] = "up"
  /\ ~Busy
  /\ srv' = [srv EXCEPT ![s] = "listening"]
  /\ UNCHANGED <<record, state, tmp, lock, alien, wraps, threads, crashes, found, beside>>

Die(s) ==
  /\ Live(s)
  /\ srv' = Ended({s})
  /\ UNCHANGED <<record, state, tmp, lock, alien, wraps, threads, crashes, found, beside>>

\* Another program takes the port, or leaves it.
Alien ==
  /\ alien \/ ~Busy
  /\ alien' = ~alien
  /\ UNCHANGED <<wraps, record, state, tmp, lock, srv, threads, crashes, found, beside>>

\* The kernel drops the lock with the process.
Crash ==
  /\ crashes < MaxCrashes
  /\ crashes' = crashes + 1
  /\ lock' = None
  /\ pc' = [t \in Thread |-> "idle"]
  /\ op' = [t \in Thread |-> "none"]
  /\ seen' = [t \in Thread |-> None]
  /\ will' = [t \in Thread |-> "none"]
  /\ found' = None
  /\ UNCHANGED <<record, state, tmp, srv, alien, wraps, beside>>

-----------------------------------------------------------------------------
Status(t) ==
  \/ ReadRecord(t) \/ ReadState(t) \/ NoRecord(t) \/ StaleRecord(t) \/ ClearRecord(t)
  \/ Probe(t) \/ GiveUp(t) \/ AsWritten(t)

SetState(t) == Prepare(t) \/ Put(t) \/ PutFails(t)

Start(t) == Adopt(t) \/ LaunchFails(t) \/ Launch(t) \/ WriteRecord(t) \/ DiedEarly(t)

Stop(t) == StopRecorded(t) \/ StopUnrecorded(t) \/ DropRecord(t)

Step(t) == TakeLock(t) \/ Status(t) \/ SetState(t) \/ Start(t) \/ Stop(t) \/ Release(t)

Next ==
  \/ \E t \in Web, what \in {"start", "stop", "restart"} : Operate(t, what)
  \/ \E t \in Poll : Ask(t)
  \/ \E t \in Thread : Step(t)
  \/ \E s \in Srv : Listen(s) \/ Die(s)
  \/ Alien
  \/ Crash

Spec == Init /\ [][Next]_vars

-----------------------------------------------------------------------------
(* Properties.                                                             *)

Stages == {"idle", "lock", "meta", "state", "look", "clear", "mark", "put", "adopt", "launch",
           "write", "stop", "drop", "end", "raised"}

\* Type correctness of every variable of the model.
TypeOK ==
  /\ record \in Srv \cup {None}
  /\ state \in States
  /\ tmp \in States \cup {None}
  /\ lock \in Web \cup {None}
  /\ srv \in [Srv -> {"idle", "up", "listening", "dead"}]
  /\ {alien, wraps, beside} \subseteq BOOLEAN
  /\ pc \in [Thread -> Stages]
  /\ op \in [Thread -> {"none", "start", "launch", "stop", "restart", "status"}]
  /\ seen \in [Thread -> Srv \cup {None}]
  /\ will \in [Thread -> States \cup {"none"}]
  /\ crashes \in 0 .. MaxCrashes
  /\ found \in Srv \cup {None}

\* No operation and no status is going on.
Quiet == \A t \in Thread : pc[t] \in {"idle", "lock"}

\* A live server is the one preview.pid names, or nothing could find and stop
\* it.  As long as no poll ran beside an operation and the dashboard was not killed.
OnRecord == Quiet /\ ~beside /\ crashes = 0 => \A s \in Srv : Live(s) => record = s

\* Who is told that the preview is stopped or failed has nothing running.
StoppedIsStopped ==
  Quiet /\ ~beside /\ crashes = 0 /\ state \in {"stopped", "failed"} => ~\E s \in Srv : Live(s)

\* "A preview of this very worktree that lost its record is still ours: end it
\* before starting another": an operation that finds no live server on record
\* and one listening off record, and ends without an error, leaves that one dead,
\* whatever was killed or polled before or meanwhile.  For a command that listens
\* itself: LaunchedEnded below is what is said, of every command.
OrphansEnded ==
  [][\A t \in Web :
       ~wraps /\ lock = t /\ lock' = None /\ pc[t] = "end" /\ found # None => ~Live(found)]_vars

-----------------------------------------------------------------------------
(* What the source says and the code does not do: TLC finds a              *)
(* counterexample, which the README tells.                                 *)

\* _start_unlocked takes care that "the first status poll" does not "clear the
\* claim, and orphan a live server": a poll takes away no live server's record.
PollsHarmless ==
  [][\A t \in Poll : pc[t] = "clear" /\ pc'[t] = "mark" => ~Live(record)]_vars

\* "lead its own process group, as every preview this module launches does": what was
\* launched here and lost its record is ended, whatever command was configured.
LaunchedEnded ==
  [][\A t \in Web : lock = t /\ lock' = None /\ pc[t] = "end" /\ found # None => ~Live(found)]_vars
=============================================================================
