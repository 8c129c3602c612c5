----------------------------- MODULE Iteration ------------------------------
(***************************************************************************)
(* What one iteration hands to the next: the plan, the handoff, the branch *)
(* and what the loop remembers of the steps that went wrong (Run.iterate,  *)
(* RunDir).  Which number comes next, and when the run ends, is RunLoop's. *)
(***************************************************************************)
EXTENDS Naturals, Sequences, FiniteSets

CONSTANTS
    Step,               \* texts of plan steps
    EditRoom, PlanRoom, \* measured windows of model and planner_model, 0 for none
    Planner,            \* a planner_model is configured
    Blocking,           \* gate.blocks_commit
    Marker,             \* the agent's adapter knows a compaction in its stream
    Resumes,            \* the agent can take up an interrupted session
    MaxLines,           \* bound: lines of the plan
    MaxNumber,          \* bound: iterations
    MaxKills,           \* bound: processes that end before the run does
    None

ASSUME IterationAssumption ==
    /\ {EditRoom, PlanRoom, MaxLines, MaxKills} \subseteq Nat /\ MaxNumber \in Nat \ {0}
    /\ {Planner, Blocking, Marker, Resumes} \subseteq BOOLEAN /\ None \notin Step
    /\ PlanRoom > 0 => Planner

Numbers == 0..MaxNumber    \* 0 stands for "no iteration"

VARIABLES
    plan,     \* plan.md: its lines with a checkbox
    handoff,  \* handoff.md: whose account it holds, whether the agent wrote it, and
              \* whether it is longer than what is read of it
    commits,  \* the branch differs from the run's base commit
    dirty,    \* the worktree differs from the branch
    broken,   \* a file the run touched does not pass the structural checks
    saved,    \* run-state.json: how often each step thrashed, an interrupted session
    at,       \* where the loop is; "none" without one
    number,   \* the iteration
    last,     \* how the last iteration of this process ended
    thrashed, \* this process: how often each step thrashed
    session,  \* this process: there is an interrupted session
    defects,  \* this process: the last checks found something
    sent,     \* the agent: its model, what its prompt asks for and how often it did
    before,   \* the iteration: the step in play and the steps ticked at its start
    now,      \* the iteration: handoff.md written, files touched, a compaction in its stream
    blocked,  \* the iteration: the gate blocks its commit
    commit,   \* the iteration: what the subject of its commit is, and whose
    kills,    \* processes that ended so
    recorded  \* history: how often each step thrashed in a recorded iteration

disk == <<plan, handoff, commits, dirty, broken>>
memory == <<last, thrashed, session, defects>>
iteration == <<sent, before, now, blocked, commit>>
vars == <<disk, saved, at, number, memory, iteration, kills, recorded>>

Lines == [step : Step, done : BOOLEAN]
Never == [s \in Step |-> 0]
Account(by, own, long) == [by |-> by, own |-> own, long |-> long]
Blank == Account(0, TRUE, FALSE)    \* the agent has emptied the file
Subject(kind, by) == [kind |-> kind, by |-> by]
Untouched == [handoff |-> FALSE, files |-> FALSE, summary |-> FALSE]

NoPrompt == [role |-> "none", task |-> "none", times |-> 0]

NoIteration ==
    /\ sent' = NoPrompt
    /\ before' = [step |-> None, ticked |-> {}] /\ now' = Untouched
    /\ blocked' = FALSE /\ commit' = Subject("none", 0)

Init ==
    /\ plan = <<>> /\ handoff = Account(0, FALSE, FALSE)
    /\ commits = FALSE /\ dirty = FALSE /\ broken = FALSE
    /\ saved = [steps |-> Never, session |-> FALSE] /\ at = "new" /\ number = 1
    /\ last = "none" /\ thrashed = Never /\ session = FALSE /\ defects = FALSE
    /\ sent = NoPrompt
    /\ before = [step |-> None, ticked |-> {}] /\ now = Untouched
    /\ blocked = FALSE /\ commit = Subject("none", 0)
    /\ kills = 0 /\ recorded = Never

-----------------------------------------------------------------------------
(* The plan, as the loop reads it. *)

Ticked == { plan[i].step : i \in { j \in DOMAIN plan : plan[j].done } }

\* current_step: the first line without a tick
CurrentStep ==
    LET unticked == { i \in DOMAIN plan : ~plan[i].done }
    IN IF unticked = {} THEN None
       ELSE plan[CHOOSE i \in unticked : \A j \in unticked : i <= j].step

\* plan_problems: a step that is there twice, ticked or not
PlanProblems == Cardinality({ plan[i].step : i \in DOMAIN plan }) < Len(plan)

-----------------------------------------------------------------------------
(* The beginning. *)

Gates == {"pass", "fail", "misconfigured"}

\* probe_gate, once, on the untouched worktree: one that cannot run ends the run.
ProbeGate ==
    /\ at = "new" /\ \E result \in Gates : at' = IF result = "misconfigured" THEN "over" ELSE "idle"
    /\ UNCHANGED <<disk, saved, number, memory, iteration, kills, recorded>>

\* _wider_model: the planner's, when both are measured and it has more room
Wider == EditRoom > 0 /\ PlanRoom > EditRoom

\* roles: a plan.md without a step may still have text, and then it is no planning.
Roles ==
    {IF last = "thrashing" /\ Wider THEN "retry" ELSE "editing"}
        \cup (IF plan = <<>> /\ Planner THEN {"planning"} ELSE {})

\* _retry_step: the step in play, if it has thrashed
RetryStep == CurrentStep # None /\ thrashed[CurrentStep] > 0

\* A broken file outranks the plan, and a step that did not fit outranks doing it.
Task == IF defects THEN "repair" ELSE IF RetryStep THEN "split" ELSE "step"
Times == IF Task = "split" THEN thrashed[CurrentStep] ELSE 0

Prompt(role) == [role |-> role, task |-> Task, times |-> Times]

\* resume_session_available: pi and omp, and the transcript is still there.
Resumable == session /\ Resumes
Continued(role) == [role |-> role, task |-> "continue", times |-> 0]

\* The prompt is built, or an interrupted session continued if it is still there;
\* the stream of that number is begun anew.  (A model that does not answer
\* leaves everything as it is.)
Begin ==
    /\ at = "idle" /\ number <= MaxNumber /\ at' = "agent"
    /\ \E role \in Roles :
         \/ sent' = Prompt(role)
         \/ Resumable /\ sent' = Continued(role)
    /\ session' = FALSE
    /\ before' = [step |-> CurrentStep, ticked |-> Ticked]
    /\ UNCHANGED <<plan, handoff, commits, dirty, broken, saved, number, last, thrashed, defects,
                   now, blocked, commit, kills, recorded>>

-----------------------------------------------------------------------------
(* What an agent does in its time. *)

Loop == <<saved, at, number, memory, sent, before, blocked, commit, kills, recorded>>

EditsFiles ==
    /\ dirty' = TRUE /\ broken' \in BOOLEAN
    /\ now' = [now EXCEPT !.files = TRUE]
    /\ UNCHANGED <<Loop, plan, handoff, commits>>

Adds(s) == Len(plan) < MaxLines /\ plan' = Append(plan, [step |-> s, done |-> FALSE])
Ticks(i) == plan' = [plan EXCEPT ![i].done = TRUE]
Drops(i) == plan' = SubSeq(plan, 1, i - 1) \o SubSeq(plan, i + 1, Len(plan))

EditsPlan ==
    /\ \/ \E s \in Step : Adds(s)
       \/ \E i \in DOMAIN plan : Ticks(i) \/ Drops(i)
    /\ UNCHANGED <<Loop, handoff, commits, dirty, broken, now>>

\* A long account, a short one, or an empty file
WritesHandoff ==
    /\ \/ \E long \in BOOLEAN : handoff' = Account(number, TRUE, long)
       \/ handoff' = Blank
    /\ now' = [now EXCEPT !.handoff = TRUE]
    /\ UNCHANGED <<Loop, plan, commits, dirty, broken>>

Compacts ==
    /\ Marker /\ now' = [now EXCEPT !.summary = TRUE]
    /\ UNCHANGED <<Loop, disk>>

Edits == EditsFiles \/ EditsPlan \/ WritesHandoff \/ Compacts

\* The operator, or the dashboard with "changes requested"
OperatorAdds ==
    /\ at \in {"none", "idle"} /\ \E s \in Step : Adds(s)
    /\ UNCHANGED <<Loop, handoff, commits, dirty, broken, now>>

-----------------------------------------------------------------------------
(* The end. *)

\* An interrupted iteration leaves a session, which is saved at once.
Leaves(outcome) ==
    /\ last' = outcome /\ session' \in {FALSE, outcome = "interrupted"}
    /\ saved' = [saved EXCEPT !.session = session' \/ saved.session]

CountAgainst(step, outcome) ==
    thrashed' = IF outcome = "thrashing" /\ step # None
                  THEN [thrashed EXCEPT ![step] = thrashed[step] + 1] ELSE thrashed

\* run_gate: what fails may block the commit, what passes or cannot run does not.
RunGate == blocked' \in {FALSE, Blocking}

\* checks.run and plan_problems
Checks == defects' = (broken \/ PlanProblems)

\* A thrashing iteration counts against the step it began with.  The gate and
\* the checks look at the worktree and change nothing on disk.
AgentEnds ==
    /\ at = "agent" /\ at' = "handoff" /\ sent' = NoPrompt
    /\ \E outcome \in {"ok", "thrashing", "interrupted"} :
         Leaves(outcome) /\ CountAgainst(before.step, outcome)
    /\ RunGate /\ Checks
    /\ UNCHANGED <<disk, number, before, now, commit, kills, recorded>>

\* diff_shortstat: against the base commit, with what is not committed
Diff == commits \/ dirty

\* last_compaction_summary: the agent's own, in this iteration's stream
Carried == Marker /\ now.summary

\* read_handoff cuts the account and keeps whose it is
Previous == handoff.by

\* write_synthetic_handoff: the summary, or the handoff there is when there is
\* no diff, or nothing but the diff
Synthetic ==
    Account(IF Carried THEN number ELSE IF Diff THEN 0 ELSE Previous, FALSE, FALSE)

\* Mutant: the time of handoff.md is looked at when it has been synthesised.
HandoffLate ==
    /\ at = "handoff" /\ at' = "commit"
    /\ handoff' = IF now.handoff THEN handoff ELSE Synthetic
    /\ now' = [now EXCEPT !.handoff = TRUE]
    /\ UNCHANGED <<plan, commits, dirty, broken, saved, number, memory, sent, before, blocked,
                   commit, kills, recorded>>

Handoff ==
    /\ at = "handoff" /\ at' = "commit"
    /\ handoff' = IF now.handoff THEN handoff ELSE Synthetic
    /\ UNCHANGED <<plan, commits, dirty, broken, saved, number, memory, iteration, kills,
                   recorded>>

\* Line one of what read_handoff gives: of a long account it gives the end, under
\* a line of its own, "[earlier handoff truncated]", which is nobody's.
LineOne == IF handoff.long THEN 0 ELSE handoff.by

\* _subject: the agent's line, the one step ticked, the files, or the outcome
SubjectOf ==
    IF now.handoff /\ handoff # Blank THEN Subject("handoff", LineOne)
    ELSE IF Cardinality(Ticked \ before.ticked) = 1 THEN Subject("step", 0)
    ELSE IF now.files THEN Subject("files", 0)
    ELSE Subject("outcome", 0)

Commit ==
    /\ at = "commit" /\ at' = "record"
    /\ \/ (blocked \/ ~dirty) /\ UNCHANGED <<commits, dirty, commit>>
       \/ ~blocked /\ dirty /\ dirty' = FALSE /\ commits' = TRUE /\ commit' = SubjectOf
    /\ now' = Untouched /\ blocked' = FALSE
    /\ UNCHANGED <<plan, handoff, broken, saved, number, memory, sent, before, kills, recorded>>

\* A thrashing iteration that has been counted in memory only
Unrecorded(s) == at \in {"handoff", "commit", "record"} /\ last = "thrashing" /\ before.step = s

\* _save_run_state
SaveRunState ==
    /\ saved' = [steps |-> thrashed, session |-> session]
    /\ recorded' = [s \in Step |-> IF Unrecorded(s) THEN recorded[s] + 1 ELSE recorded[s]]

\* record
Save ==
    /\ at = "record" /\ at' = "end" /\ SaveRunState /\ NoIteration
    /\ UNCHANGED <<disk, number, memory, kills>>

\* Mutant: an interrupted iteration is taken off the count.
EndBack ==
    /\ at = "end" /\ at' = "idle"
    /\ \/ last = "interrupted" /\ number' = number - 1
       \/ number' = number + 1
    /\ UNCHANGED <<disk, saved, memory, iteration, kills, recorded>>

\* iteration:end; one that was interrupted, or that the server failed, may be taken
\* up again under its number.
End ==
    /\ at = "end" /\ at' = "idle"
    /\ \/ last # "thrashing" /\ UNCHANGED number
       \/ number' = number + 1
    /\ UNCHANGED <<disk, saved, memory, iteration, kills, recorded>>

-----------------------------------------------------------------------------

\* The process is gone, and with it what only it knew.
ProcessEnds ==
    /\ kills < MaxKills /\ kills' = kills + 1
    /\ at' = "none" /\ NoIteration
    /\ last' = "none" /\ thrashed' = Never /\ session' = FALSE /\ defects' = FALSE
    /\ UNCHANGED <<disk, number>>

\* A kill, or the end of the process between two iterations
Killed == at \notin {"none", "new", "over"} /\ ProcessEnds /\ UNCHANGED <<saved, recorded>>

\* An exception in iterate, a second Ctrl-C among them: start() passes it on, and
\* _finalise saves what the process knows.
Raises == at \in {"agent", "handoff", "commit", "record"} /\ ProcessEnds /\ SaveRunState

\* Mutant: the counts are not restored.
ResumeForgets ==
    /\ at = "none" /\ at' = "idle" /\ UNCHANGED thrashed /\ session' = saved.session
    /\ UNCHANGED <<disk, saved, number, last, defects, iteration, kills, recorded>>

\* attach: run-state.json has the counts and the session; the last outcome and
\* the defects it has not.
Resume ==
    /\ at = "none" /\ at' = "idle" /\ thrashed' = saved.steps /\ session' = saved.session
    /\ UNCHANGED <<disk, saved, number, last, defects, iteration, kills, recorded>>

Agent == at = "agent" /\ Edits

Iterate ==
    Begin \/ AgentEnds \/ Handoff \/ Commit \/ Save \/ End

Next == ProbeGate \/ Iterate \/ Agent \/ OperatorAdds \/ Killed \/ Raises \/ Resume

Spec == Init /\ [][Next]_vars

-----------------------------------------------------------------------------

Counts == [Step -> Nat]

TypeOK ==
    /\ plan \in Seq(Lines) /\ Len(plan) <= MaxLines
    /\ handoff \in [by : Numbers, own : BOOLEAN, long : BOOLEAN]
    /\ {commits, dirty, broken, session, defects} \subseteq BOOLEAN
    /\ saved \in [steps : Counts, session : BOOLEAN] /\ thrashed \in Counts /\ recorded \in Counts
    /\ commit \in [kind : {"none", "handoff", "step", "files", "outcome"}, by : Numbers]
    /\ at \in {"new", "over", "none", "idle", "agent", "handoff", "commit",
               "record", "end"}
    /\ number \in 1..(MaxNumber + 1)
    /\ sent \in [role : {"none", "planning", "retry", "editing"},
                 task : {"none", "repair", "split", "step", "continue"}, times : Nat]
    /\ last \in {"none", "ok", "thrashing", "interrupted"} /\ blocked \in BOOLEAN
    /\ before \in [step : Step \cup {None}, ticked : SUBSET Step]
    /\ now \in [handoff : BOOLEAN, files : BOOLEAN, summary : BOOLEAN] /\ kills \in 0..MaxKills

\* A subject taken from the handoff is of what the agent of that very iteration
\* wrote, never of an account left by an earlier one or put there by the loop:
\* "a synthesised handoff is not trusted for the subject" (loop.py:964).  It is
\* the account's first line unless the account was too long to be read whole.
SubjectIsOwn ==
    commit.kind = "handoff" => handoff.own /\ (commit.by = number \/ handoff.long)

\* Without the exception: "Line 1 of the handoff is the right answer when the agent
\* wrote one" (loop.py:955).  TLC refutes it.
SubjectIsTheAccount == commit.kind = "handoff" => commit.by = number

\* An iteration that is sent anew to a step that has thrashed is told to split
\* it, and how often it has, over kills, resumes and interrupted sessions, whatever
\* became of the plan meanwhile: "it will name the wrong one" (rundir.py:180).
ThrashedIsSplit ==
    [][at = "idle" /\ at' = "agent" /\ ~defects /\ CurrentStep # None /\ sent'.task # "continue" =>
         IF recorded[CurrentStep] > 0
           THEN sent'.task = "split" /\ sent'.times = recorded[CurrentStep]
           ELSE sent'.task = "step"]_vars

\* "The one thing this must never do is *subtract*" (rundir.py:275): an
\* iteration that gave no account and touched no file leaves the last one.
HandoffKept ==
    [][at = "handoff" /\ ~now.handoff /\ ~now.files /\ ~Carried =>
         handoff'.by = handoff.by]_vars

=============================================================================
