# Verification of lmloop

lmloop drives a coding agent, iteration by iteration, in a git worktree of its
own, unattended and for hours. Its state is files: a run directory with a claim,
sentinels, a status, counters, a plan, a handoff, an event log and the agent's
streams. Several programs touch those files at once (the loop, a second `lmloop
resume`, another run's loop that sweeps, the dashboard's threads, the operator's
shell), any of them may be killed between two operations, and the agent and the
model server may fail at any moment. This directory holds TLA+ models of that
behaviour, the TLC runs that check them and the TLAPS proofs about them. Paths
below are relative to the repository; `loop.py:318` is a line of it.

## The system

| Part | State it keeps | Operations | Talks to |
|---|---|---|---|
| Run ownership (`rundir.py` claim/release/holder, `runrecord.holder`) | `loop.pid`, `resume.lock` | claim, release, holder | every process that wants to be the loop |
| Starting a run (`service.start_run`, `create_project`, `lmloop.py` cmd_run, `_detach`, close; `loop.py` `_free_run_id`, `prepare`) | run names, `info/exclude`, branches, worktrees, detached logs | look for a name, take it, link, clear away | git, the dashboard |
| Run driver (`loop.py` `Run.attach/start/_finalise`) | counters in memory, `run-state.json`, `status.json`, `lmloop.log` | one iteration, review rounds, waits, finalise | agent, model server, git, sentinels |
| One iteration (`loop.py` `iterate`, `record`; `rundir.py`) | `plan.md`, `handoff.md`, thrash counts, defects | prompt, gate, checks, handoff, commit | the agent |
| Policy (`policy.py`) | none | budget, abort_reason, backoff_delay, repeating_call | called by driver and supervisor |
| Supervisor (`pi_runner.py`, `runner_stream.py`) | one `_Stream` under a lock, reader threads | poll, kill, classify | the agent process |
| Run record readers (`runrecord.py`, `run_history.py`, `web/runs.py`) | none | read the files, list the runs | driver and dashboard |
| Operator controls (`display.py` keys, `attach.py`) | `PAUSE`, `STOP`, `STOP-NOW` | touch, remove | the driver polls |
| Dashboard operations (`web/service.py`, `web/workspace.py`) | archive directories, the `approval` field of `status.json` | continue, archive, delete, merge, approve, PR | run directory, git, a child `lmloop resume` |
| Preview (`preview.py`) | `preview.pid`, `preview.state`, a lock | start, stop, status, restart | the process table |
| Prune (`prune.py`) | compressed streams | sweep | run directories of all runs |
| Web Push (`web/push_store.py`, `webpush.py`) | `push_subscriptions.json` | subscribe, unsubscribe, announce | dashboard threads and every ending loop |
| Review (`review.py`, `decision_model.py`), gate and checks (`checks.py`), git (`gitops.py`), models (`models.py`), harnesses (`harness_*.py`), prompts | none of their own | select, parse, look, translate | the driver |
| Other notifications, auth, HTTP, front end, Android | sessions, caches | deliver, route, render | the dashboard |

What is hard about it, and what each part has to get right:

* *Ownership.* Two loops in one worktree commit over each other. A claim must be
  exclusive, must never be taken from a live owner, must be given back by every
  process that ends by itself, and a stale one must not lock the run out.
* *Launch.* A name is looked for and taken later, by several starts at once, and
  `git worktree add` is two steps. Each run must get a worktree and a branch of
  its own, and what is linked into it must not be committed.
* *Driver.* Its counters live in memory and in a file that is written at some
  points only. Over kills, resumes, outages and pauses the guards (turn ceiling,
  no-diff streak, review rounds) must stay bounds, no iteration may be skipped or
  run again once it is finished, and the operator's stop and pause must be heard in
  every wait.
* *Iteration.* What one agent leaves (plan, handoff, worktree) is what the next
  one starts from: accounts must be attributed to who gave them and counts to the
  step they are about, whatever the agent does to the plan meanwhile.
* *Supervisor.* Clocks, an operator's stop and the agent's own end race; the
  reader thread feeds the clocks; a child may hold the pipe open.
* *Dashboard.* Each operation looks for a holder and acts later; archive copies
  and then deletes; approval reads, merges and writes back.
* *Preview.* A process must never be signalled on the strength of a pid alone,
  and never be left running without a record of it.
* *Prune.* A stream must not lose a line by being compressed, beside its loop,
  another sweep, an archive or a kill.
* *Push store.* A read-modify-write of one file, from threads and processes.

`PROJECT.json` lists each component with its status and each hazard with its line
and the properties aimed at it.

## The modules

| Module | What it is |
|---|---|
| `RunOwner` | Abstract: a run has at most one owner, acquired only when free. |
| `RunClaim` | The claim protocol, file operation by file operation, with everything that leads to it and away from it. Refines `RunOwner`. |
| `RunLoop` | The driver of one run over several processes, one after the other. |
| `Iteration` | What one iteration reads, writes and hands to the next. |
| `Supervisor` | One agent under `pi_runner.run`: poll loop, reader thread, clocks, signals. |
| `Attempt` | `Iteration` with its agent under `Supervisor`: composes the two, and implements `Iteration`. |
| `Launch` | Several starts of one objective, and what clearing up leaves for the next. |
| `RunStore` | A run's record: streams, sweeps, archive, delete, listing. |
| `Approval` | A finished run on offer: the dashboard's answers beside a loop. |
| `Preview` | The preview server of one run: start, stop, restart and status as threads of the dashboard. |
| `Subscriptions` | Abstract: a list whose changes are made one at a time. |
| `Push` | The list of Web Push subscriptions, in a file. Implements `Subscriptions`. |
| `RunClaim_proofs`, `RunLoop_proofs`, `Attempt_proofs` (with the theorems of `Iteration` and `Supervisor`), `Launch_proofs`, `RunStore_proofs`, `Approval_proofs`, `Preview_proofs`, `Push_proofs` | Theorems for every value of the constants. |
| `MC*` | Instances for TLC: symmetry sets and the constants a cfg cannot write. |

Each module has its own view of what the others do to its files. `RunClaim` has
two loops at once and reduces a loop's work to one place; `RunLoop`, `Iteration`,
`Supervisor`, `RunStore` and `Approval` have one loop at a time, which is what
`RunClaim` establishes for processes that own the run. `RunLoop` takes the outcome of
an iteration as a choice, `Supervisor` says how it is come to, `Iteration` what it
does to plan, handoff and branch, and `Attempt` puts these two together. `Approval` and `RunStore` have the loop as far as
`status.json` and the streams go.

### RunClaim

A process goes from `idle` through `unstop` (`cmd_resume`), `check`
(`Run.attach`'s look for a holder), the steps of `RunDir.claim` (`lock`, `clear`,
`open`, `probe`, `unlink`, `write`, `unlock`), `attach` and `late` (set-up inside
and outside a `try`), `start` and `work` (the loop), to `terminal`, `release`,
`drop` and `sweep` (`_finalise`) and `exit`. One operation on one file is one step.
`os` is the process table, so that a pid can be freed and reused; `verdict` is what
`claim()` came to: `owned` for True, `stray` for False, which both callers
ignore, `refused` for `SystemExit`. A dashboard thread's continue is three steps:
look, clear, spawn. Signals are handled as `_on_interrupt` does: the first is
remembered, the second ends the driver, another one ends `_finalise`.

The loop's work is as much as `status.json` needs. `Iterate` begins an iteration and
writes nothing (`begun`, while this process has said nothing yet); `Report` is
`_on_progress`, which writes "working" once an agent is there to report on, and
`EndIteration` may come without one; `AwaitServer` is the pause that
`_wait_for_server` writes. So after a resume the old terminal status stands until the
first report, and through a review round too. The heartbeat's restamp
(`rundir.py:455-468`) writes back what it read and changes nothing here, and a
`status.json` that cannot be written, which `write_status` passes over, is left out.

### RunLoop

`pc` is the place in `Run.start`; every pass goes through `boundary` (the look at
`PAUSE`) and `decide` (`_budget`, `policy.abort_reason` in its order), then
a review round, or `preflight`, `work`, `commit`, `record` (saves
`run-state.json`), `end` (logs `iteration:end`) and `after`, where start() decides
what the iteration was. `saved` is `run-state.json`: it changes only where
`_save_run_state` is called. `Crash` throws the memory away and `Resume` rebuilds
it as `Run.attach` does, with a bare resume's turns or with an explicit count. The
agent may end in any way and edit plan and worktree; the server answers or not at
each look, independently; the operator touches and removes sentinels at any time.
Whether a saved transcript can be read, and whether the wall clock is spent, are
choices. A stash that fails is left out, and the "decision" persona, which may ask a
model of its own and start no agent, counts as a reviewer that starts one. The
variables from `begun` on are history: they record what happened for
the properties to talk about and no guard reads them except the bound on `starts`.
`begun` counts the agents that start under a PAUSE, those of iterations and those of
reviewers apart; `bought` is the ceiling a process starts with and `grown` what the
plan made of it; `owed` is the number that an outage ended without a commit, be it the
server's (`provider`) or the connection's (`transport`), and `known` says where that is
still known: in the process, in `run-state.json`, or nowhere.

### Iteration

One iteration is `Begin` (the role, the prompt's task, the step in play), whatever
the agent does in its time (`Agent`: files, plan lines, the handoff, a compaction),
and then the calls of `iterate` in their order: outcome and thrash count, gate and
checks, handoff, commit, `Save`, `End`. A plan is a sequence of lines with a text
and a tick, so that an agent may drop, repeat and tick any of them. An account is
known by the iteration that gave it, by whether the agent wrote it and by whether it
is longer than what `read_handoff` reads of it, in which case the first line read is
the loop's own marker (`LineOne`); an agent may also leave an empty file (`Blank`),
which gives no subject. `Roles` is a choice where the code looks at the text of a
plan.md without steps: with text in it, it is no planning.
`Killed` forgets what the process remembers, `Resume` reads `run-state.json`; the
last outcome and the defects are not in it. An exception inside `iterate` (`Raises`)
ends the process too, but `_finalise` saves on that way what it knows (`SaveRunState`),
a thrashing iteration that never came to its record among it. `End` takes the next
number, or the same one again after a pause, a lost transcript or a lost server.

### Supervisor

The poll loop is `poll`, `sleep`, `look`, the clean-up `cleanup` and `grace`
(`_terminate`), then `join` and `judge`; `fled` is a signal that left the clean-up
itself. A sleep is one tick of every clock. The agent writes events into a bounded
pipe, and the reader takes them one by one; a child keeps the pipe open after
the agent is gone. `Looks` is the chain of tests in the code's order, `Repeating`
is `policy.repeating_call`. The ten seconds of `join` are modelled as: the
reader has taken what is in the pipe. A line past the buffer's ceiling loses its
front and is no event any more (`shortened`); past the raw stream's ceiling nothing is
parsed (`skipped`). `told` is what all that the agent wrote says, read or not, and
`Verdict` is what the code makes of such a summary. The thread that copies stderr and
the display's feed are left out.

### Attempt

`Iteration` lets an agent change plan, handoff and worktree as long as the loop is
"at" the agent, and takes what `run()` returned as a choice; `Supervisor` is one call
of `run()`. `Attempt` is `iterate()` around it: `Starts` is `Begin` and a new
supervisor with a new agent; `Works` lets that agent change things for as long as its
*process* is there, wherever the loop has got to; `Returned` is `AgentEnds` with the
outcome the supervisor came to, once `run()` is over; `Fails` is an exception out of
`run()` or after it, `LoopKilled` leaves the agent running, and every other step of
the iteration goes on whatever the agent's process does. That an agent cannot change
the worktree under the gate and the commit is then a consequence of the supervisor's
steps and not of the model's shape (`AgentsAreAwaited`).

Two things end the composition's view: an agent that outlives its loop (a kill, or
a signal inside the clean-up: `pc = "fled"`) is not followed, although a resumed loop
may start another beside it; nor are the processes an agent leaves behind, which may
write too.

### Launch

A start goes through the look for a free name (`tree?`, `branch?`, each a look of
its own), `log` (a detached parent opens `<run id>.log`), `tree`, `exclude`,
`append`, `add` and `checkout` (git makes the branch, then the worktree), `create`
and `link`. Everybody has the same objective on the same day, so they derive the same
names; `Lanes` is how many there are (99 in the code). Between two steps anybody
else may go on, the operator may remove the trees and branches of runs that are
over, and `lmloop close` may write to a log.

### RunStore

A stream is 0 (opened) or 1 (written), in up to three files: `plain`, `gz` and
`part`, the last two with the sweeps that have them open, so that a rename under a
writer keeps its meaning. A sweep is `list`, then per stream `OpenBoth`, `Copied`,
`Replace`, `Unlink`; an archive is `copy` (a stream at a time), `verify`,
`publish`, `remove`, `git` and `restore`. `remove` is `shutil.rmtree`, a stream at a
time: it may raise before, between and after them, and cannot end while a sweep or a
loop has made a file again. `git` may raise too (a link that cannot be removed, a git
that cannot be started), and so may the copy that brings the record back, half-way.
`raised` remembers that, and `torn` the streams removed under a sweep. `List` is a
listing of the runs, one place per step. `due` is what a reader should find.

### Approval

A request is read, checked and written back in separate steps with what was read
in `copy`; `alone` and `stale` remember whether anything overlapped. The loop
resumes, writes progress, commits, reviews, waits for its server, offers or stops. A
reviewer's edits are stashed but its commits stay, so `Commit` needs no progress
before it; a reviewer or an agent whose model cannot be reached ends in
`AwaitServer`, which writes all of `status.json`. `offer` is what the last loop
offered, until that is decided; it is `lost` when `status.json` no longer says so
(emptied by a kill in a write, or written over by that wait), and `passed` when a later
loop committed while `status.json` still showed it. The heartbeat writes back
what it read. Changes that are recorded as requested count as an answer.

### Preview

A thread that operates goes through `lock`, and then, for a stop, `stop` (`adopt`)
`drop`, for a start the status steps, `adopt`, `launch` and `write`; a restart is
the one and then the other. A thread that asks for the status takes the same
status steps without the lock: `meta` and `state` (the two files are read one
after the other), `look` (the process table), `clear` (the unlink of a stale
record). Each ends in `_set_state`, which is two steps, `mark` (write
`preview.state.tmp`) and `put` (rename it), because all writers share that
name: who comes second to the rename fails (`raised`). `srv` is the process
table as `_identity` sees it: a process is known by pid and start time, so
`record` names a server; nothing in the model can signal another process, since
`_terminate` and `_adopt_orphan` check what they are about to signal. The servers
outlive a kill of the dashboard; another program may take the port. `wraps` says
that the configured command leaves the listening to a child (`npm run`, `sh -c`): then
the process that listens leads no group, `_orphan` does not accept it, and `Adopt`
ends nothing (`Adoptable`). A server and what it started are one process otherwise:
`_terminate` signals the group, and what outlives its leader is left out.

### Push

A change is `lock` (threads only), `read`, `open` (the shared `.json.tmp` is
emptied), `write`, `replace`. A file knows who has it open: a writer writes to the
file it opened, under whatever name that has by now. `answered` is the list the
requests that got through add up to; `mixed` says two processes have overlapped.
`Subscriptions` is the list as its users may think of it, up to that moment: a
writer asks, and later the change is made, at once and to the list as it then is. It
fails in one way only: its process (`Process`: all threads of the dashboard, or one
loop) is killed, and that is counted (`kills`), so that a change of a living writer
that came to nothing is no step of `Subscriptions`. A disk that is full or read-only is
left out.

## What the runs check

| Run | Instance | Shows |
|---|---|---|
| `claim` | 2 processes with pids of their own, 2 dashboard threads, 2 kills | types; a claim is kept and given back; the lock is returned; what a loop has said in `status.json` stands; the files implement `RunOwner`; claiming never waits |
| `loop` | 2 processes in sequence, 1 planned step plus review findings, limit 2, floor 1, ceiling 2, no retry allowance, 1 review round, 2 personas, 1 backoff, resume with 1 turn or bare | the guards hold over restarts; a growing plan buys turns once; numbers are kept; a pause takes hold |
| `loop_live` | 1 process, limit 1, ceiling 1, 1 persona | a stop ends it; a run nobody holds paused ends |
| `iteration` | 2 steps, 2 plan lines, 2 numbers, 1 kill, a gate that does not block, an agent that can resume a session | a commit's subject is that iteration's own; a step that thrashed is split, with its count |
| `supervisor` | tool, stall and time limits 1, 1, 2 sleeps; 3 events, pipe of 2, ceiling of 2 events, 2 signals | the agent is gone when run() returns; the outcome is that of all the agent wrote, but for lines that did not fit; stalled means silent; run() returns |
| `launch` | 3 starts, 1 repository, 2 names, 1 link | own trees and branches; links excluded; only a race ends at a taken name |
| `store` | 1 stream, 2 sweepers, 1 archiving thread, 2 loops, 1 kill | every line readable somewhere; no worktree without its whole record, unless an archive raised; a listing misses no run |
| `approval` | 2 threads, 2 commits, 2 open items, 1 kill | a run on offer can be answered; an answer is for the work on offer |
| `preview` | 2 servers, 2 operating threads, 1 polling thread, 1 kill, symmetry | no server is left off record by operations alone; what is called stopped is; a start or stop ends a server that lost its record and leads its own group |
| `push` | 2 threads, 1 loop, 2 endpoints, 2 kills | what was answered is in the file, and the file and its lock implement `Subscriptions`, unless another process wrote beside it |
| `one_loop`, `handoff_kept` | the smallest instance that shows it | one counterexample each, see below |

*Bounds.* Two processes in `claim` are an owner and a prober; two kills make one
stale claim and one left-over lock; the proofs have no bound. In `loop` two
processes give one crash or stop and one resume; `PlanSize` bounds the steps an
agent plans, while reviews add theirs freely, at most `MaxRounds * Personas`.
Iteration numbers need no bound: the ceiling is one, and the second process, which may
resume with a floor that reaches it, is the one whose ceiling the plan moves. Limits
are small (`Limit` 2, `Retries` 1, `MinExtra` 1) so that each of them is reached, and
two personas let a second reviewer start under a PAUSE. In `iteration` two
steps and two lines let an agent repeat, swap or drop the step in play, and two
numbers let a count made by one iteration be read by the next. In `supervisor`
three events are enough to hit every limit (two equal calls, two compactions, one
event past the ceiling), and clocks stop one past their limit, beyond which
nothing tells them apart. Three starts and two names in `launch` let two race for
one name while a third finds none left. In `store` two sweepers share a partial
file, and the second loop writes a stream again that the first one left; streams
do not interact, so one is enough. Two commits in `approval` are the one offered
and the one that was not; two items are the plan's and a requested change. Two
servers in `preview` are one that lost its record and one that a second operation
starts (`Preview_proofs` has any number); `Srv` bounds the launches, and `LaunchFails`
is always possible, so that nothing waits for it. Two kills in `push` are one of each
process.

*Exceptions.* Some properties hold but for a case that the code leaves open, and
name it; nearly every one has a counterpart without its exception, which TLC refutes
(next section).

* `ReleasedWhenOver` excepts a signal inside `_finalise` (`cut`) and the unguarded last
  calls of `attach` (`late`).
* `PlanBuysOnce` excepts the one move of a ceiling that is no higher than the floor,
  which is the default (20 and 20): the plan then sets it once.
* `PauseHolds` allows one iteration with its drift reviewer, or the reviewers of a
  round in hand.
* `NumbersKept` excepts a number that only the process knew of and that went with it
  (`known`: a transport failure is not saved as pending).
* `NoDiffGuard` is about a gate that does not block commits.
* `SubjectIsOwn` excepts an account too long to be read whole, whose first line is then
  the loop's marker.
* `OutcomeOfTheWhole` excepts the two ceilings of the reader, `StalledIsSilent` that of
  the raw stream; `ReapedWhenOver` excepts a signal inside the clean-up (`fled`).
* `RecordKept` excepts a stream written to while it was compressed, a shared partial,
  and a resume after an archive's verification. `TreeHasRecord` excepts these streams,
  one removed under a sweep that went on with it in the restored directory, an archive
  that raised after it had published, and kills.
* `DecidableWhenOffered` excepts a loop that offered without a status of its own, a
  `status.json` emptied by a kill in the middle of a write or written over by a loop
  that waits for its server, and requests that overlapped; `DecidesTheOffer` the last,
  and a commit of a later loop before that loop wrote `status.json`.
* `OnRecord` and `StoppedIsStopped` are about operations among themselves, without a
  poll or a kill; `OrphansEnded` says how the next operation repairs both, for a
  command that listens itself.
* `DeadEndsAreRaces` excepts any start that was raced. `AnswersKept` and
  `ListImplemented` except two processes at once (`mixed`): what the loop that removes
  dead endpoints does beside the dashboard is not covered by them.

*Fairness.* `claim` assumes that a process which is not killed takes its
next step (weak fairness of each process's `Step`): no step of claiming waits for
anybody. `loop_live` assumes weak fairness of `Drive`, the process's own steps:
it includes the agent's end, which `timeout_seconds` guarantees, and the end of a
backoff's sleep. `supervisor` assumes weak fairness of the supervising thread and of the
reader, and nothing of the agent, its children or the operator. The operator, the
signals, the wall clock and kills have no fairness anywhere. `RunEnds` is
conditional: an operator who pauses for ever has a run that waits for ever, by
design.

The run `push` asks for no type invariant, which `Push_proofs` proves.

*Attempt* has no run of its own: its state space is the product of two that the runs
`iteration` and `supervisor` explore, and what it adds is proved. `Attempt.cfg` is an
instance for TLC (`tlc -config Attempt.cfg Attempt.tla`: one step, no measured windows,
a limit of 0 on every clock, one iteration, one kill, two signals; 2.6 million
states) with which its formulas were tried before they were proved.

*Deadlock* is not checked: a run, a request or a launch that is over has nothing
left to do, and the bounds end the rest.

## Where the code and its documentation part

Two have a run whose counterexample TLC prints.

* `one_loop`: `claim()` returns False on a busy `resume.lock`, and when the stale
  `loop.pid` it was about to remove is already gone; `attach` and `prepare` ignore
  it (`loop.py:318`, `loop.py:263`) and the process drives the run without owning it.
* `handoff_kept`: `iterate` gives the synthesis the diff against the run's base
  commit (`loop.py:791`, `loop.py:942`), so after the run's first change an
  iteration that did nothing takes away the account of the one before it, against
  `rundir.py:275` and `rundir.py:280`.

The following are stated in the modules too; given as a PROPERTY or INVARIANT of
the module's instance, TLC refutes each.

* `RunClaim!StopKept`: `cmd_resume` and continue remove STOP before they know whether
  they are refused, so a refused resume takes the running loop's stop away.
* `RunClaim!RecycledPidNeverLocksOut`: `claim()` asks `os.kill(pid, 0)` only; a
  recycled pid does lock the run out, against `runrecord.py:120`.
* `RunClaim!StatusCurrent`: after a resume the old `stopped` stays in `status.json`
  until the first report of an agent, through preflight and review rounds, against
  "what the run is doing right now" (`rundir.py:471`).
* `RunLoop!CeilingFinal`: `_budget` raises a ceiling that is no higher than the floor
  with the plan (`loop.py:413-420`), also with the defaults of 20 and 20
  (`config_defaults.py:269-270`), against "no amount of plan growth can argue past"
  (`policy.py:73`, `loop.py:404-407`, `config_defaults.py:278`).
* `RunLoop!PauseLetsOneStart`: reviewers of a round start one after another under a
  PAUSE (`loop.py:1508-1528`), and a drift reviewer after the iteration
  (`loop.py:1615-1628`), against `docs/operations.md:46`.
* `RunLoop!OutagesKeepNumbers`: the number of a transport failure is reused by the
  process that met it only (`loop.py:1384-1392`); after a give-up, a stop in the
  backoff or a kill, the next one skips it.
* `RunLoop!SessionKeepsNumber`: an interrupted iteration whose pause is over before
  start() looks is counted; its transcript is resumed under the next number.
* `RunLoop!OutagesNeverCombine`: the backoff count is never reset by success.
* `RunLoop!NoDiffGuard` with `Blocking = TRUE`: with `blocks_commit`, left-over
  changes clear the no-diff streak.
* `Preview!PollsHarmless`: a poll removes the record of a server started since it
  read; a late status also writes its old answer over the newer state.
* `Preview!LaunchedEnded`: a launched command that leaves the listening to a child is
  never adopted (`preview.py:225-239`, against `preview.py:229-230`); with its record
  lost, a stop answers "stopped" while it serves on.
* `Approval!OffersOutlive`: a kill while `status.json` is written empties it, and a
  later loop that waits for its server writes over it (`loop.py:1863-1872`); no button
  is left for work that nobody decided on.
* `Approval!DecidesWhatWasOffered`: a reviewer, or an agent nobody reported on, commits
  while `status.json` still shows the earlier offer; after a kill, an approval merges
  what was not offered.
* `Approval!OfferedIsDecidable`: the terminal status keeps the earlier answer
  (`rundir.py:508-522`); after a reject, a continue and a loop that offers again
  without an iteration's progress in between, every answer is refused
  (`service.py:518-519`).
* `Approval!DecidedOnce`: two overlapping answers are both recorded.
* `Launch!OutcomeKept`: a detached start opens the log of its name with `wb`; a
  run closed under that name, of this or another repository, loses its outcome.
* `Push!NoneLost`: a loop that removes dead endpoints does so without the
  dashboard's lock, and a subscription made meanwhile is lost.
* `RunStore!SweepLosesNothing`: a loop that writes to a stream while it is compressed
  loses lines, and so do two sweeps that share `.gz.partial`.
* `RunStore!TreeAlwaysWhole`: `shutil.rmtree` (`service.py:264`) and what follows it may
  raise, and `restore_source` is never called, against `service.py:274`.
* `Supervisor!OutcomeOfEverything`: what is past either ceiling of the reader
  (`runner_stream.py:233-235`, `runner_stream.py:249-254`) is not judged.
* `Iteration!SubjectIsTheAccount`: of a handoff over 4000 characters line one is
  "[earlier handoff truncated]" (`rundir.py:208-210`, against `loop.py:955`).
* `Supervisor!ReapedOnEveryPath`: a further signal in the clean-up leaves the
  agent alive. `Supervisor!AnyByteIsFresh`: past the raw-stream ceiling bytes no
  longer restart the stall clock.

Seen while reading, and not checked:

* the branch of `iterate` that saves the session of a `provider-unavailable`
  attempt (`loop.py:901`) cannot be taken, since the outcome becomes that only
  afterwards (`loop.py:905`); docs/review.md's retry of a missing verdict does not
  exist; a stop during a review round adds a finding and spends the round; a round
  whose reviewer was never reached is spent too, against docs/review.md:62-64; the
  drift reviewer's stash puts away work a blocking gate left uncommitted;
* defects and the last outcome are not saved: the first prompt after a resume
  neither asks for a repair nor uses the wider model; a resumed session's prompt
  is only "continue"; a second attempt at a number truncates its stream;
* `_terminate` returns once the leader has exited, before SIGKILL reaches what is
  left of the group; `stream_error` is never read, though `runner_stream.py:46`
  says the outcome records the reason; with calls in parallel the first end
  stops the tool clock of the others; a `node --check` that times out raises
  out of the checks;
* an archive of a run that was archived and restored after git's refusal is
  answered 409 for good, because the first copy is still there; a kill while
  `status.json` is written empties it; a refused request for changes keeps its plan
  items, and a retry adds them again; a loop that resumes the run its predecessor
  is still sweeping has its stream compressed underneath it;
* `create_project` that fails leaves a directory that makes every retry a 409; a
  run that fails in its set-up leaves worktree and branch; `lmloop close base`
  closes base-2 when only that has a log;
* with `port = "auto"` a dashboard killed between launch and record forgets the
  port, and nothing finds that server again; a failure in the last four calls of
  `attach` leaves `loop.pid` behind (fate `late` in `RunClaim`), as does a signal
  inside `_finalise` (`cut`).

## What is proved

All for every value of the constants that the named assumption of the module
allows; the bounds of the instances do not matter to any of them.

`RunClaim_proofs`, for any set of processes, pids and dashboard threads and
any number of kills, under `ClaimAssumption` (every process has a pid, no two
processes the same one, and the special values are distinct from pids and
processes): `TypeCorrect`, `ClaimIsKept`, `ClaimIsExclusive`, `OwnersRelease`,
`LockIsReturned`, `StatusIsHonest` and `OwnershipImplemented`. The safety
properties are not inductive. That a claim is kept depends on who can
remove `loop.pid`: only a process that probed it, under the lock, and found
it stale. The lock is what makes that sound, so the invariant ties the two files
to the places of the processes: whoever is inside `claim()` is the one `resume.lock`
names; from `probe` on the file is not a live claim's; a file that is `Empty`
belongs to the one at `write`; an owner's pid stays in the file until its own `drop`.
`ClaimInit` and `ClaimStep` prove it inductive, action by action; `EndInit` and
`EndStep` add what a finished process leaves behind; `OwnerStep` derives the
refinement.

`RunLoop_proofs`, under `LoopAssumption` (the counts are natural numbers, the
ceiling is at least the floor): `TypeCorrect`, `CeilingHolds`,
`RoundsAreBounded`, `PausesHold`, `NumbersAreKept` and, for a gate that does not
block, `NoDiffHolds`. The invariant says what the files still know when the memory
is gone: `RoundsSaved` (every round begun is in `saved` before a reviewer is
asked), `Bounded` (the ceiling is what the process started with, or what the plan made
of it once, after which it stays above the floor; what is about to run is within it),
`Paused` (where the process stands decides how many agents may still start), `Numbered`
(at every place, what the log's highest end and the saved pending number say about the
number that comes next, and that what is owed is known in memory or pending on disk
unless it went with its process),
and `Streaked` (the iterations without a change are at most the streak and one per
resume).

`Attempt_proofs` has three parts. Of `Iteration`, under `IterationAssumption`:
`TypeCorrect`, `SubjectsAreOwn`, `ThrashedAreSplit`. The invariant says whose account
handoff.md is while an iteration is under way, and that it is that agent's own when the
file was written in its time (`Own`), and that the count in
`run-state.json` is what has been recorded while the one in memory is that or, for a
thrashing iteration between its end and its record, one more (`Counted`). `Least` and
`StepInPlay` are about `CurrentStep`, which chooses the first line without a tick.

Of `Supervisor`, under `LimitAssumption`: `SupervisorTypeCorrect`, `OverIsReaped`,
`OutcomesAreWhole`, `StalledMeansSilent`. From the join on the agent is gone (`Gone`);
the stall clock is never ahead of the silence (`Heard`); and the stream is judged with
an empty pipe that nobody can fill again (`Drained`). `Kept` is the heart of the
outcome: as long as no event was lost, all that the agent has said is in `_Stream` or
still in the pipe, in order (`Messaged`, of the last message), so that with an empty pipe
what is judged is what was told. `FirstCut` is about the order of the looks,
`HandleType` about one event.

Of the two together, under both: `AwaitedOnly` (`AgentsAreAwaited`: an agent that lives
is one the loop waits for), `IterationImplemented` (`AttemptSpec => Spec`: every step of
the composition is a step of `Iteration` or changes nothing of it) and, from these,
`AttemptsAreWhole`: what was proved of each holds of both. The refinement is not by
shape: `Works` has no guard on the place of the loop, and is an agent's step of
`Iteration` only because the supervisor's invariant says that a call that is over
has reaped its agent, on the way of a result and of a signal both.

`Launch_proofs`, under `LaunchAssumption`: `TypeCorrect`, `TreesAreOwn`,
`LinksAreExcluded`, `OnlyRacesEnd`. The invariant follows a name from the look to the
worktree: who is past `add` made the branch of its lane, who is past `checkout` its
tree, a tree whose maker is at work is not removed, what was read of the exclude file
is still in it since everybody only appends, and somebody who looked and found a name
free either still finds it free or has been raced.

`Approval_proofs`, under `BoundAssumption`: `TypeCorrect`, `OffersAreDecidable`,
`AnswersAreForTheOffer`. As long as nobody who was overlapped has written: what is
offered after an iteration, and not lost, stands in the status, with the changes
requested since and nothing else (`Standing`), and what is lost has left an empty status
(`Blanked`), which nobody can answer; changes that are not delivered have a request that delivers
them or takes them back (`Carried`), which is why a quiet dashboard shows the buttons
again; buttons that are shown stand for the branch as it is, or for one that a later
loop has gone past (`Shown`), and so does a
request that came alone (`Held`), because then there is no loop to move the branch
(`Solitary`).

`Preview_proofs`, under `PreviewAssumption`: `TypeCorrect`, `ServersAreOnRecord`,
`StoppedMeansStopped`, `OrphansAreEnded`. Who operates holds the lock (`Mutex`). As
long as no poll ran beside an operation and nothing was killed, a live server is on
record or about to be (`Tracked`), whoever looks has it in its hands (`Known`), nothing is
up where a thread clears, adopts or launches or is about to say so (`Gone`), and the
temporary file says what its writer means (`Written`). `Orphan` needs none of this: it
follows the server that an operation found without a record to its end, past polls that
remove records, since a removed record cannot be a live server's again; that it is
ended rests on `Adoptable`, for a command that listens itself.

`Push_proofs`, under `PushAssumption`: `TypeCorrect`, `AnswersAreKept`, `StoreIsAtomic`. The
invariant says who holds the lock while a thread changes the list, that a change
under way is known, and that as long as processes have not overlapped there is one
writer, whose list is what it read with its change done. The refinement's steps follow from
it: `Make` is the rename and nothing else is seen of a change, a kill takes the requests
of one process and no others, and a rename that failed would be no step at all of
`Subscriptions`: it does not happen, since what is renamed is there and whole
(`ReplacePromised`).

`RunStore_proofs`, under `BoundAssumption` (streams are numbered from 1, and the value
that stands for "no file" is none that a file can hold): `TypeCorrect`,
`RecordsAreKept`, `TreesHaveRecords`, `ListingsShowRuns`. `RecordKept` is not
inductive: a stream that can be read now says nothing of a sweep about to unlink it or
of an archive about to remove the directory. The invariant follows each stream that
nothing has excused. Who may have a compressed file open is a sweep that is copying to
it, or died so (`Opened`); there is one sweep at it at a time (`Single`), and at each of
its steps whatever it is about to throw away is elsewhere (`Compressed`): the plain file
until the rename, both until the unlink. `Safe` is where a stream no longer depends on
the run directory, because the archive has it or it was deleted. An archive that has
verified a copy has all of it, or the stream has been excused since (`Archived`); a
directory that is gone was published first, for each stream (`Gone`) and for the run as a
whole (`Removed`), the first for `RecordKept` and the second for the listing. `Here` and
`Bare` follow what the run directory itself has of a stream through a removal and the
copy that brings it back: all of it, unless it has been taken out or one of the
exceptions holds (`Intact`). `Listed`
says that a listing which has passed the run directory will find the archive, and
`Pending` that a worktree without a record has a thread that has yet to ask git or to
bring the record back. Each part is proved step by step, `Streams` before archives,
since the archives' part rests on what a directory holds.

Not proved, only model-checked: the liveness properties `EveryClaimDecides`,
`StopEnds`, `RunEnds` and `Returns`. They need fairness and ENABLED, which is outside
the prover's reach. Every other property of every passing run is stated by a theorem.

## Not modelled

* Configuration: parsing and defaults; what the loop depends on are CONSTANTS.
* Prompts: which task an iteration is sent is in `Iteration`; the wording is not.
* Review: selection of personas and parsing of verdicts are text; a verdict is a choice.
* Gate and checks: what a check looks for is text; that it finds something is a choice.
* Harness adapters: translation of argv and of event formats.
* ETA, environment and browser probe: no state that lives past a call.
* Pull requests, ntfy and command hooks: one best-effort call each.
* HTTP, sessions and cryptography, the front end, the Android client, layout.
* Preview with `port = "auto"` and the disabled preview; notes and log wording.

## The plan

1. Done: the modules and proofs above.
2. Agents that outlive their loop, beside a loop that resumes, in `Attempt`.
3. `Preview` with `port = "auto"`.
4. The dashboard's reading of a run's state from several files (`web/runs.py`),
   beside a loop that writes them one after the other.
5. The front end's polls beside its actions; the Android run watch.
