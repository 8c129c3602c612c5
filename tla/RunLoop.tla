------------------------------- MODULE RunLoop -------------------------------
(***************************************************************************)
(* The driver of one run: Run.start, what iterate, record, the review gate *)
(* and the provider wait do to its counters and to its files, and          *)
(* Run.attach, which rebuilds the counters from the files after the        *)
(* process ended or was killed.  One process at a time drives the run:     *)
(* RunClaim is about two.                                                  *)
(*                                                                         *)
(* The agent, the model server and the operator are the environment: an    *)
(* agent may end in any way at any moment and edit plan and worktree, the  *)
(* server may be there at one look and gone at the next, sentinels appear  *)
(* and PAUSE goes away.                                                    *)
(***************************************************************************)
EXTENDS Integers

CONSTANTS
  Floor, Ceiling,  \* initial_turns and hard_turn_ceiling
  Allowance,       \* retry_allowance
  MinExtra,        \* what a bare resume buys at least: 5 in the code
  Explicit,        \* counts an operator may resume with (--iterations)
  Retries,         \* backoffs before giving up: 3 in the code
  FollowPlan,      \* budget_follows_plan
  Limit,           \* no_diff_iterations
  MaxRounds,       \* [review] max_rounds
  Personas,        \* how many reviewers look at a finished plan
  Blocking,        \* gate.blocks_commit, with a gate that can fail
  ServerWait,      \* models.server_wait_seconds is not 0
  PlanSize,        \* bound: steps the agent ever plans
  MaxStarts        \* bound: processes that drive the run, one after the other

ASSUME LoopAssumption ==
  /\ {Floor, Limit, Personas} \subseteq Nat \ {0}
  /\ {Allowance, MinExtra, Retries, MaxRounds, PlanSize, MaxStarts} \subseteq Nat
  /\ Ceiling \in Nat /\ Ceiling >= Floor /\ Explicit \subseteq Nat
  /\ {FollowPlan, Blocking, ServerWait} \subseteq BOOLEAN

VARIABLES
  \* Files.
  stop,         \* "none", "stop" (STOP), "now" (STOP-NOW), or "signal": the flag
                \* Run.interrupted, which asks for as much as both files
  pause,        \* PAUSE exists
  plan,         \* plan.md: steps done, steps in all
  dirty,        \* the worktree has changes that are not committed
  saved,        \* run-state.json
  ended,        \* highest iteration:end in the event log
  reason,       \* why the last process stopped, in status.json
  \* The process.
  pc,           \* where start() is
  num,          \* iteration
  floor, ceiling, streak, pending, session, round, errors, fresh,
  try,          \* the iteration in hand: outcome, commit, resumed, moved
  left,         \* reviewers of this round still to be asked
  asked,        \* whether one of them asked for changes
  \* History.
  begun,        \* agents started since PAUSE is there: working, reviewing
  bought,       \* the ceiling this process started with
  grown,        \* where the plan first put that ceiling, if it has
  starts,       \* processes so far
  owed,         \* number an outage ended without a commit, not tried again yet
  known,        \* where it is known of: "memory", "disk", or "lost" with a process
  settled,      \* highest number that is done with
  barren,       \* iterations since the last one that changed anything
  rounds,       \* review rounds begun
  worked        \* an iteration got through since errors was 0

counters == <<floor, ceiling, streak, pending, session, round, errors, fresh>>
reviewing == <<left, asked>>
history == <<bought, grown, starts, owed, known, settled, barren, rounds, worked>>
files == <<plan, dirty, saved, ended>>
vars == <<stop, pause, begun, files, reason, pc, num, counters, try, reviewing,
          history>>

-----------------------------------------------------------------------------
Max2(a, b) == IF a >= b THEN a ELSE b
Min2(a, b) == IF a <= b THEN a ELSE b

Asked == stop # "none"

Nothing == [outcome |-> "none", commit |-> FALSE, resumed |-> FALSE, moved |-> FALSE]

\* An agent starts; under a PAUSE it is counted.
Begins(kind) == begun' = IF pause THEN [begun EXCEPT ![kind] = @ + 1] ELSE begun

\* The process is gone, its memory with it.
Gone ==
  /\ pc' = "off"
  /\ num' = 0 /\ floor' = 0 /\ ceiling' = 0 /\ streak' = 0 /\ pending' = 0
  /\ session' = 0 /\ round' = 0 /\ errors' = 0
  /\ fresh' = FALSE
  /\ try' = Nothing /\ left' = 0 /\ asked' = FALSE
  /\ known' = IF owed # 0 /\ known = "memory" THEN "lost" ELSE known

\* _save_run_state.
Save == saved' = [streak |-> streak', ceiling |-> ceiling', pending |-> pending',
                  session |-> session', round |-> round']

\* The loop ends and says why.
Finish(why) == pc' = "final" /\ reason' = why

\* Back to the head of the loop, for iteration n.
Again(n) == pc' = "boundary" /\ num' = n /\ try' = Nothing

Init ==
  /\ stop = "none" /\ pause = FALSE /\ begun = [work |-> 0, review |-> 0] /\ dirty = FALSE
  /\ plan = [done |-> 0, total |-> 0]
  /\ saved = [streak |-> 0, ceiling |-> 0, pending |-> 0, session |-> 0, round |-> 0]
  /\ ended = 0 /\ reason = "none"
  /\ pc = "boundary" /\ num = 1
  /\ floor = Floor /\ ceiling = Ceiling
  /\ streak = 0 /\ pending = 0 /\ session = 0 /\ round = 0 /\ errors = 0
  /\ fresh = FALSE
  /\ try = Nothing /\ left = 0 /\ asked = FALSE
  /\ bought = Ceiling /\ grown = 0
  /\ starts = 1 /\ owed = 0 /\ known = "memory" /\ settled = 0 /\ barren = 0 /\ rounds = 0
  /\ worked = FALSE

-----------------------------------------------------------------------------
(* Run.attach: the counters of the next process.                           *)

\* Mutant: the pending iteration is taken off the log's whether there is one or not.
DoneUnguarded == Min2(ended, saved.pending - 1)

\* An outage or a pause left an iteration to be done again; the log may end it.
Done == IF saved.pending # 0 THEN Min2(ended, saved.pending - 1) ELSE ended

\* A bare resume buys what the plan still needs, and some.
BareExtra ==
  IF plan.total > plan.done THEN plan.total - plan.done + Allowance
  ELSE Max2(MinExtra, Allowance)

\* Mutant: a resume forgets the streak.
CarriedNothing == 0

\* A tripped streak is carried one below the limit: one iteration to prove it.
Carried == Min2(saved.streak, Limit - 1)

\* Iterations beyond those done, and headroom for a plan that grows
Buys(extra, headroom) ==
  /\ ceiling' = Max2(Done, saved.ceiling) + extra + headroom
  /\ floor' = Min2(ceiling', Done + extra)
  /\ bought' = ceiling' /\ grown' = 0

Resume ==
  /\ pc = "off"
  /\ starts < MaxStarts
  /\ stop' = "none"
  /\ num' = Done + 1
  /\ \/ Buys(BareExtra, IF FollowPlan THEN Allowance ELSE 0)
     \/ \E extra \in Explicit : Buys(extra, 0)
  /\ streak' = Carried
  /\ pending' = saved.pending
  /\ session' = saved.session
  /\ round' = saved.round
  /\ pc' = "boundary"
  /\ reason' = "none"
  /\ starts' = starts + 1
  /\ UNCHANGED <<pause, begun, files, errors, fresh, try, reviewing,
                 owed, known, settled, barren, rounds, worked>>

-----------------------------------------------------------------------------
(* The head of the loop.                                                   *)

\* Mutant: the boundary does not look at PAUSE.
BoundaryDeaf ==
  /\ pc = "boundary"
  /\ pc' = "decide"
  /\ UNCHANGED <<stop, pause, begun, files, reason, num, counters, try,
                 reviewing, history>>

\* wait_while_paused, at the iteration boundary.
Boundary ==
  /\ pc = "boundary"
  /\ ~pause \/ Asked
  /\ pc' = "decide"
  /\ UNCHANGED <<stop, pause, begun, files, reason, num, counters, try,
                 reviewing, history>>

\* One attempt for each open step, and some, beyond what is spent.
Wanted == num - 1 + (plan.total - plan.done) + Allowance

\* Mutant: the ceiling follows the plan on every pass.
RaisedAlways == IF FollowPlan /\ plan.total > 0 THEN Max2(ceiling, Wanted) ELSE ceiling

\* Run._budget: a ceiling that is no higher than the floor follows the plan.
Raised ==
  IF FollowPlan /\ ceiling <= floor /\ plan.total > 0 THEN Max2(ceiling, Wanted) ELSE ceiling

\* policy.budget, for a run that follows its plan.
Budget ==
  IF ~FollowPlan THEN floor
  ELSE Max2(floor, Min2(IF plan.total = 0 THEN num + 1 ELSE Wanted, Raised))

PlanComplete == plan.total > 0 /\ plan.done >= plan.total /\ num > 1

\* What every pass does before it decides.
Deciding ==
  /\ pc = "decide"
  /\ ceiling' = Raised
  /\ grown' = IF grown = 0 /\ ceiling' # ceiling THEN ceiling' ELSE grown
  /\ UNCHANGED <<stop, pause, begun, plan, dirty, ended, num, floor, streak, pending, session,
                 errors, fresh, try, bought, starts, owed, known, settled, barren,
                 worked>>

\* policy.abort_reason, in its order: the operator first ...
StopAsked ==
  /\ Deciding
  /\ Asked
  /\ Finish("asked")
  /\ UNCHANGED <<saved, round, reviewing, rounds>>

\* ... then a finished plan, which goes to _review_gate ...
ReviewSpent ==
  /\ Deciding
  /\ ~Asked /\ PlanComplete
  /\ round >= MaxRounds
  /\ Finish(IF MaxRounds = 0 THEN "approval" ELSE "unresolved")
  /\ UNCHANGED <<saved, round, reviewing, rounds>>

\* Mutant: the round is counted in memory only.
ReviewBeginsUnsaved ==
  /\ Deciding
  /\ ~Asked /\ PlanComplete
  /\ round < MaxRounds
  /\ round' = round + 1
  /\ rounds' = rounds + 1
  /\ pc' = "review" /\ left' = Personas /\ asked' = FALSE
  /\ UNCHANGED <<saved, reason>>

ReviewBegins ==
  /\ Deciding
  /\ ~Asked /\ PlanComplete
  /\ round < MaxRounds
  /\ round' = round + 1
  /\ rounds' = rounds + 1
  /\ Save
  /\ pc' = "review" /\ left' = Personas /\ asked' = FALSE
  /\ UNCHANGED reason

\* ... then the turns, the wall clock and the no-diff streak.
TurnsSpent ==
  /\ Deciding
  /\ ~Asked /\ ~PlanComplete
  /\ num > Budget
  /\ Finish("spent")
  /\ UNCHANGED <<saved, round, reviewing, rounds>>

WallClock ==
  /\ Deciding
  /\ ~Asked /\ ~PlanComplete
  /\ num <= Budget
  /\ Finish("spent")
  /\ UNCHANGED <<saved, round, reviewing, rounds>>

NoDiff ==
  /\ Deciding
  /\ ~Asked /\ ~PlanComplete
  /\ num <= Budget
  /\ streak >= Limit
  /\ Finish("spent")
  /\ UNCHANGED <<saved, round, reviewing, rounds>>

IterationDue ==
  /\ Deciding
  /\ ~Asked /\ ~PlanComplete
  /\ num <= Budget
  /\ streak < Limit
  /\ pc' = "preflight"
  /\ UNCHANGED <<reason, saved, round, reviewing, rounds>>

-----------------------------------------------------------------------------
(* One review round: each persona in turn, each with its own preflight.    *)

\* A reviewer's agent starts, with no look at PAUSE or STOP since the one before
\* it.  It approves, or its findings become open steps of the plan.  A
\* reviewer cut short by a stop, or one that edits, counts as asking too, and a
\* worktree that is dirty after it, by whoever's edits, is stashed.  (The
\* "decision" persona may ask a model of its own instead of starting an agent.)
Reviewed(approves) ==
  /\ pc = "review"
  /\ left > 0
  /\ left' = left - 1
  /\ asked' = (asked \/ ~approves)
  /\ plan' = IF approves THEN plan ELSE [plan EXCEPT !.total = @ + 1]
  /\ dirty' \in {dirty, FALSE}
  /\ approves => dirty' = dirty
  /\ Begins("review")
  /\ UNCHANGED <<stop, pause, saved, ended, reason, pc, num, counters,
                 try, history>>

ReviewUnreachable ==
  /\ pc = "review"
  /\ left > 0
  /\ pc' = "backoff" /\ left' = 0 /\ asked' = FALSE
  /\ UNCHANGED <<stop, pause, begun, files, reason, num, counters, try, history>>

\* A round is not an iteration: the number is not spent.
RoundOver ==
  /\ pc = "review"
  /\ left = 0
  /\ asked' = FALSE
  /\ \/ asked /\ Again(num) /\ UNCHANGED reason
     \/ ~asked /\ Finish("approval") /\ UNCHANGED <<num, try>>
  /\ UNCHANGED <<stop, pause, begun, files, counters, left, history>>

-----------------------------------------------------------------------------
(* Run.iterate.                                                            *)

PreflightFails ==
  /\ pc = "preflight"
  /\ pc' = "backoff"
  /\ UNCHANGED <<stop, pause, begun, files, reason, num, counters, try,
                 reviewing, history>>

\* Mutant: the transcript stays the one to resume.
AgentStartsAgain ==
  /\ pc = "preflight"
  /\ pc' = "work"
  /\ \E readable \in BOOLEAN :
       try' = [Nothing EXCEPT !.resumed = session # 0 /\ readable]
  /\ owed' = 0 /\ known' = "memory"
  /\ Begins("work")
  /\ UNCHANGED <<stop, pause, files, reason, num, floor, ceiling, streak, pending, session,
                 round, errors, fresh, reviewing, bought, grown, starts, settled,
                 barren, rounds, worked>>

\* The agent starts, from a saved transcript if there is one it can read.
AgentStarts ==
  /\ pc = "preflight"
  /\ pc' = "work"
  /\ \E readable \in BOOLEAN :
       try' = [Nothing EXCEPT !.resumed = session # 0 /\ readable]
  /\ session' = 0
  /\ owed' = 0 /\ known' = "memory"
  /\ Begins("work")
  /\ UNCHANGED <<stop, pause, files, reason, num, floor, ceiling, streak, pending,
                 round, errors, fresh, reviewing, bought, grown, starts, settled,
                 barren, rounds, worked>>

\* should_stop, as pi_runner.run polls it.
CutShort == stop \in {"now", "signal"} \/ pause

\* What pi_runner.run may come back with; "transport" is an agent error whose
\* wording names the connection, "overrun" a clock or a limit of lmloop's own.
Outcomes == {"ok", "agent-error", "transport", "overrun"}
              \cup (IF CutShort THEN {"interrupted"} ELSE {})

\* _classify_provider_loss: a server that does not answer is to blame.
Classified(outcome) ==
  CASE outcome \in {"agent-error", "overrun"} -> {"failed", "provider"}
    [] outcome = "transport" -> {"transport", "provider"}
    [] OTHER -> {outcome}

\* The agent may have moved the plan and the worktree.
Edits ==
  {p \in [done : 0 .. plan.total + 1, total : plan.total .. plan.total + 1] :
     /\ plan.done <= p.done /\ p.done <= p.total
     /\ p.total > plan.total => p.total <= PlanSize}

AgentEnds ==
  /\ pc = "work"
  /\ \E outcome \in Outcomes, moved \in BOOLEAN, transcript \in BOOLEAN, p \in Edits :
       /\ \E told \in Classified(outcome) :
            try' = [try EXCEPT !.outcome = told, !.moved = moved, !.resumed = FALSE]
       /\ dirty' = (dirty \/ moved)
       /\ plan' = p
       /\ fresh' = (try.resumed /\ outcome \in {"agent-error", "transport"})
       /\ \/ /\ outcome = "interrupted" /\ transcript
             /\ session' = num
             /\ UNCHANGED <<floor, ceiling, streak, pending, round, errors>>
             /\ Save
          \/ /\ ~(outcome = "interrupted" /\ transcript)
             /\ UNCHANGED <<floor, ceiling, streak, pending, session, round, errors, saved>>
       /\ barren' = IF moved THEN 0 ELSE barren
  /\ pc' = "commit"
  /\ UNCHANGED <<stop, pause, begun, ended, reason, num, reviewing,
                 bought, grown, starts, owed, known, settled, rounds, worked>>

\* run_gate and commit: everything in the worktree, unless the gate blocks it.
Commit ==
  /\ pc = "commit"
  /\ \E blocked \in {FALSE, Blocking} :
       /\ try' = [try EXCEPT !.commit = dirty /\ ~blocked]
       /\ dirty' = (dirty /\ blocked)
  /\ pc' = "record"
  /\ UNCHANGED <<stop, pause, begun, plan, saved, ended, reason, num, counters,
                 reviewing, history>>

\* record: the no-diff streak, saved before the iteration:end event.
Streak ==
  IF try.commit \/ dirty THEN 0
  ELSE IF try.outcome = "ok" THEN streak + 1
  ELSE streak

Record ==
  /\ pc = "record"
  /\ streak' = Streak
  /\ UNCHANGED <<floor, ceiling, pending, session, round, errors, fresh>>
  /\ Save
  /\ barren' = IF try.outcome = "ok" /\ ~try.moved THEN barren + 1 ELSE barren
  /\ try' = [try EXCEPT !.moved = FALSE]
  /\ pc' = "end"
  /\ UNCHANGED <<stop, pause, begun, plan, dirty, ended, reason, num,
                 reviewing, bought, grown, starts, owed, known, settled, rounds, worked>>

\* The server failed the iteration before it came to a commit.
Outage == try.outcome \in {"transport", "provider"} /\ ~try.commit

RecordEnd ==
  /\ pc = "end"
  /\ ended' = Max2(ended, num)
  /\ owed' = IF Outage THEN num ELSE 0
  /\ pc' = "after"
  /\ UNCHANGED <<stop, pause, begun, plan, dirty, saved, reason, num, counters, try, reviewing,
                 bought, grown, starts, known, settled, barren, rounds, worked>>

-----------------------------------------------------------------------------
(* What start() makes of an iteration.                                     *)

\* A pause cut it short: the same number again, once the pause is over.
HoldIteration ==
  /\ pc = "after"
  /\ try.outcome = "interrupted" /\ pause
  /\ pending' = num
  /\ UNCHANGED <<floor, ceiling, streak, session, round, errors, fresh>>
  /\ Save
  /\ pc' = "held"
  /\ UNCHANGED <<stop, pause, begun, plan, dirty, ended, reason, num, try,
                 reviewing, history>>

HeldOver ==
  /\ pc = "held"
  /\ ~pause \/ Asked
  /\ IF Asked THEN Finish("asked") /\ UNCHANGED <<num, try>>
     ELSE Again(num) /\ UNCHANGED reason
  /\ UNCHANGED <<stop, pause, begun, files, counters, reviewing, history>>

\* A transcript that could not be resumed: the same number, from scratch.
FreshRetry ==
  /\ pc = "after"
  /\ ~(try.outcome = "interrupted" /\ pause)
  /\ fresh
  /\ fresh' = FALSE
  /\ Again(num)
  /\ UNCHANGED <<stop, pause, begun, files, reason, floor, ceiling, streak, pending, session,
                 round, errors, reviewing, history>>

\* _wait_for_server: the loop sets PAUSE itself and waits for the operator.
WaitForServer ==
  IF ServerWait
  THEN pause' = TRUE /\ pc' = "server" /\ UNCHANGED reason
  ELSE Finish("unreachable") /\ UNCHANGED pause

\* Mutant: the owed iteration is not written down.
ProviderLostUnsaved ==
  /\ pc = "after"
  /\ ~fresh
  /\ try.outcome = "provider"
  /\ pending' = IF try.commit THEN 0 ELSE num
  /\ UNCHANGED <<floor, ceiling, streak, session, round, errors, fresh>>
  /\ UNCHANGED saved
  /\ known' = IF try.commit THEN known ELSE "disk"
  /\ settled' = IF try.commit THEN Max2(settled, num) ELSE settled
  /\ WaitForServer
  /\ UNCHANGED <<stop, begun, plan, dirty, ended, num, try, reviewing,
                 bought, grown, starts, owed, barren, rounds, worked>>

\* The server went: partial work is kept, an empty iteration is owed.
ProviderLost ==
  /\ pc = "after"
  /\ ~fresh
  /\ try.outcome = "provider"
  /\ pending' = IF try.commit THEN 0 ELSE num
  /\ UNCHANGED <<floor, ceiling, streak, session, round, errors, fresh>>
  /\ Save
  /\ known' = IF try.commit THEN known ELSE "disk"
  /\ settled' = IF try.commit THEN Max2(settled, num) ELSE settled
  /\ WaitForServer
  /\ UNCHANGED <<stop, begun, plan, dirty, ended, num, try, reviewing,
                 bought, grown, starts, owed, barren, rounds, worked>>

\* The iteration counts.
Counts ==
  /\ pc = "after"
  /\ ~(try.outcome = "interrupted" /\ pause)
  /\ ~fresh
  /\ try.outcome # "provider"
  /\ pending' = 0
  /\ UNCHANGED <<floor, ceiling, streak, session, round, errors, fresh>>
  /\ IF pending # 0 THEN Save ELSE UNCHANGED saved
  /\ pc' = "checks"
  /\ UNCHANGED <<stop, pause, begun, plan, dirty, ended, reason, num, try,
                 reviewing, history>>

\* _transport_failure: the server, not the work, unless there is a commit.
Transport == try.outcome = "transport" /\ ~try.commit

\* The drift and decision checks may add steps to the plan, and never block.  The
\* drift reviewer is an agent like any other reviewer, and no PAUSE is looked for.
Checks ==
  /\ pc = "checks"
  /\ \/ UNCHANGED <<dirty, begun>>
     \/ /\ ~Asked
        /\ Begins("review")
        /\ dirty' \in {dirty, FALSE}
  /\ \/ UNCHANGED plan
     \/ /\ ~Asked
        /\ plan.total < PlanSize
        /\ plan' = [plan EXCEPT !.total = @ + 1]
  /\ \/ /\ Transport
        /\ pc' = "backoff"
        /\ UNCHANGED <<num, try, settled, worked>>
     \/ /\ ~Transport
        /\ Again(num + 1)
        /\ settled' = Max2(settled, num)
        /\ worked' = (worked \/ errors > 0)
  /\ UNCHANGED <<stop, pause, saved, ended, reason, counters, reviewing,
                 bought, grown, starts, owed, known, barren, rounds>>

-----------------------------------------------------------------------------
(* Waiting for the server.                                                 *)

\* _backoff: gone altogether, and the wait is the operator's to end ...
BackoffAbsent ==
  /\ pc = "backoff"
  /\ WaitForServer
  /\ UNCHANGED <<stop, begun, files, num, counters, try, reviewing, history>>

\* ... or there and failing: 1m, 2m, 4m, then give up.
BackoffFailing ==
  /\ pc = "backoff"
  /\ errors' = errors + 1
  /\ IF errors < Retries THEN pc' = "sleep" /\ UNCHANGED reason ELSE Finish("unreachable")
  /\ UNCHANGED <<stop, pause, begun, files, num, floor, ceiling, streak, pending, session, round,
                 fresh, try, reviewing, history>>

SleepOver ==
  /\ pc = "sleep"
  /\ IF Asked THEN Finish("asked") /\ UNCHANGED <<num, try>>
     ELSE Again(num) /\ UNCHANGED reason
  /\ UNCHANGED <<stop, pause, begun, files, counters, reviewing, history>>

\* The number to go on with: useful partial work is not repeated.
AfterWait == IF try.outcome = "provider" /\ try.commit THEN num + 1 ELSE num

\* Mutant: only the end of PAUSE ends the wait.
ServerOverDeaf ==
  /\ pc = "server"
  /\ ~pause
  /\ IF Asked
     THEN Finish("asked") /\ UNCHANGED <<num, try, errors, worked>>
     ELSE /\ Again(AfterWait)
          /\ \/ errors' = 0 /\ worked' = FALSE
             \/ UNCHANGED <<errors, worked>>
          /\ UNCHANGED reason
  /\ UNCHANGED <<stop, pause, begun, files, floor, ceiling, streak, pending, session, round, fresh,
                 reviewing, bought, grown, starts, owed, known, settled, barren, rounds>>

ServerOver ==
  /\ pc = "server"
  /\ ~pause \/ Asked
  /\ IF Asked
     THEN Finish("asked") /\ UNCHANGED <<num, try, errors, worked>>
     ELSE /\ Again(AfterWait)
          /\ \/ errors' = 0 /\ worked' = FALSE
             \/ UNCHANGED <<errors, worked>>
          /\ UNCHANGED reason
  /\ UNCHANGED <<stop, pause, begun, files, floor, ceiling, streak, pending, session, round, fresh,
                 reviewing, bought, grown, starts, owed, known, settled, barren, rounds>>

-----------------------------------------------------------------------------
(* The end of a process.                                                   *)

\* _finalise: the state is saved, and the process is over.
Finalise ==
  /\ pc = "final"
  /\ saved' = [streak |-> streak, ceiling |-> ceiling, pending |-> pending,
               session |-> session, round |-> round]
  /\ Gone
  /\ worked' = FALSE
  /\ UNCHANGED <<stop, pause, begun, plan, dirty, ended, reason, bought, grown, starts, owed,
                 settled, barren, rounds>>

\* The process is killed.  An attempt that is not in the log yet is neither owed
\* nor settled.
Crash ==
  /\ pc # "off"
  /\ starts < MaxStarts
  /\ Gone
  /\ reason' = "killed"
  /\ worked' = FALSE
  /\ UNCHANGED <<stop, pause, begun, files, bought, grown, starts, owed, settled, barren, rounds>>

-----------------------------------------------------------------------------
(* The operator and the server.                                            *)

Pause ==
  /\ pc # "off" \/ starts < MaxStarts
  /\ pause' = ~pause
  /\ begun' = [work |-> 0, review |-> 0]
  /\ UNCHANGED <<stop, files, reason, pc, num, counters, try, reviewing, history>>

AskStop ==
  /\ pc # "off"
  /\ \/ stop = "none" /\ stop' \in {"stop", "now"}
     \/ stop = "stop" /\ stop' = "now"
  /\ UNCHANGED <<pause, begun, files, reason, pc, num, counters, try, reviewing, history>>

\* The first signal is remembered, the second ends the loop where it is.
Signal ==
  /\ pc \notin {"off", "final"}
  /\ \/ stop # "signal" /\ stop' = "signal" /\ UNCHANGED <<pc, reason>>
     \/ stop = "signal" /\ Finish("asked") /\ UNCHANGED stop
  /\ UNCHANGED <<pause, begun, files, num, counters, try, reviewing, history>>

-----------------------------------------------------------------------------
Head == Boundary \/ StopAsked \/ ReviewSpent \/ ReviewBegins \/ TurnsSpent \/ NoDiff \/ IterationDue

Review == ReviewUnreachable \/ RoundOver \/ \E approves \in BOOLEAN : Reviewed(approves)

Iterate == PreflightFails \/ AgentStarts \/ AgentEnds \/ Commit \/ Record \/ RecordEnd

After ==
  \/ HoldIteration \/ HeldOver \/ FreshRetry \/ ProviderLost \/ Counts \/ Checks
  \/ BackoffAbsent \/ BackoffFailing \/ SleepOver \/ ServerOver
  \/ Finalise

\* What the process does by itself.
Drive == Head \/ Review \/ Iterate \/ After

Next == Drive \/ WallClock \/ Resume \/ Crash \/ Pause \/ AskStop \/ Signal

\* The process runs on; the agent's clocks (timeout_seconds) end every iteration.
Spec == Init /\ [][Next]_vars /\ WF_vars(Drive)

-----------------------------------------------------------------------------
(* Properties.                                                             *)

Stages == {"off", "boundary", "decide", "review", "preflight", "work", "commit", "record", "end",
           "after", "held", "checks", "backoff", "sleep", "server", "final"}

Reasons == {"none", "asked", "approval", "unresolved", "spent", "unreachable", "killed"}

\* Type correctness of every variable of the model.
TypeOK ==
  /\ stop \in {"none", "stop", "now", "signal"} /\ pause \in BOOLEAN
  /\ dirty \in BOOLEAN
  /\ plan \in [done : Nat, total : Nat] /\ plan.done <= plan.total
  /\ saved \in [streak : Nat, ceiling : Nat, pending : Nat, session : Nat, round : Nat]
  /\ ended \in Nat /\ reason \in Reasons
  /\ pc \in Stages
  /\ num \in Nat /\ (pc = "off" <=> num = 0)
  /\ floor \in Nat /\ ceiling \in Nat /\ streak \in Nat /\ pending \in Nat
  /\ session \in Nat /\ round \in Nat /\ errors \in Nat /\ fresh \in BOOLEAN
  /\ try \in [outcome : {"none", "ok", "interrupted", "failed", "transport", "provider"},
              commit : BOOLEAN, resumed : BOOLEAN, moved : BOOLEAN]
  /\ left \in Nat /\ asked \in BOOLEAN
  /\ begun \in [work : Nat, review : Nat] /\ bought \in Nat /\ grown \in Nat
  /\ starts \in Nat /\ owed \in Nat /\ known \in {"memory", "disk", "lost"} /\ settled \in Nat
  /\ barren \in Nat /\ rounds \in Nat /\ worked \in BOOLEAN

\* _budget: growing the plan "never buys an unbounded run".  No agent runs past
\* the ceiling its process started with, unless that was no higher than the floor
\* (as by default): then the plan moves it once, to what it then still needs, and
\* no later growth lets an agent past that, over retries and review rounds alike.
PlanBuysOnce ==
  pc = "work" => num <= bought \/ (bought <= floor /\ num <= grown)

\* The iteration numbers across outages, pauses, stops, resumes and kills: one
\* that an outage emptied is the next one tried ("a provider outage does not
\* consume an empty iteration"), in the process that knows of it and, once it is
\* pending in run-state.json, in every later one; and one that was finished is
\* never run again ("useful partial work should not be repeated").
NumbersKept ==
  [][pc = "preflight" /\ pc' = "work" =>
       (known # "lost" => owed \in {0, num}) /\ num > settled]_vars

\* "The one guard that never lies": agents that finish without having changed
\* anything are given up on after the limit, and a resume buys one more only.
NoDiffGuard == barren < Limit + starts

\* Review is bounded, kills and resumes included: "two local models do not
\* argue all night".
RoundsBounded == rounds <= MaxRounds

\* A pause takes hold at the next boundary, whoever set it.  Until then one
\* iteration may slip in, with a drift reviewer after it, or the reviewers start
\* that a round in hand still has; then nothing more does.
PauseHolds ==
  \/ begun.work <= 1 /\ begun.review <= 1
  \/ begun.work = 0 /\ begun.review <= Personas

\* A stop, by file or by signal, ends the process, whatever it waits for.
StopEnds == Asked /\ pc # "off" ~> pc = "off"

\* Once the operator leaves PAUSE alone and absent, the run comes to its end:
\* retries, review rounds and a growing plan do not keep it going for ever.
RunEnds == <>[]~pause => <>[](pc = "off")

-----------------------------------------------------------------------------
(* What the source says and the code does not do: TLC finds a              *)
(* counterexample to each, which the README tells.                         *)

\* policy.budget: "Capped by iteration_ceiling, which no amount of plan growth can
\* argue past".
CeilingFinal == pc = "work" => num <= bought

\* docs/operations.md: "hold at the next iteration boundary", so that a PAUSE lets
\* no more than the agent in the making start.
PauseLetsOneStart == begun.work + begun.review <= 1

\* start(), of a transport failure: "the iteration number is reused", here over
\* a give-up, a stop in the backoff or a kill, too.
OutagesKeepNumbers == [][pc = "preflight" /\ pc' = "work" => owed \in {0, num}]_vars

\* docs/operations.md: an interrupted agent is resumed from its transcript "on
\* the same iteration".
SessionKeepsNumber == [][pc = "preflight" /\ try'.resumed => session = num]_vars

\* policy.backoff_delay: the count is of consecutive failures, so "three
\* separate outages across one run never combine into a false give-up".
OutagesNeverCombine == reason = "unreachable" /\ errors > Retries => ~worked

=============================================================================
