--------------------------- MODULE Attempt_proofs ---------------------------
(***************************************************************************)
(* Theorems about an iteration (Iteration), about the supervision of its   *)
(* agent (Supervisor), and about the two together (Attempt), for any steps, *)
(* any plan an agent may leave, every limit, and any number of iterations, *)
(* events, signals and kills.                                              *)
(***************************************************************************)
EXTENDS Attempt, SequenceTheorems, WellFoundedInduction, TLAPS

(***************************************************************************)
(* Part one: Iteration.                                                    *)
(***************************************************************************)

-----------------------------------------------------------------------------
(* The plan. *)

\* A set of natural numbers that is not empty has a least member.
LEMMA Least ==
    ASSUME NEW S, S \subseteq Nat, S # {}
    PROVE  \E i \in S : \A j \in S : i <= j
<1>1. PICK i \in S : \A j \in S : ~(<<j, i>> \in OpToRel(<, Nat))
  BY WFMin, NatLessThanWellFounded, Zenon
<1>2. \A j \in S : ~(j < i) BY <1>1 DEF OpToRel
<1> QED BY <1>2

\* The step in play is a step of the plan, or there is none.
LEMMA StepInPlay ==
    ASSUME plan \in Seq(Lines) PROVE CurrentStep \in Step \cup {None}
<1> DEFINE unticked == { i \in DOMAIN plan : ~plan[i].done }
           least == CHOOSE i \in unticked : \A j \in unticked : i <= j
<1>1. CASE unticked = {} BY <1>1 DEF CurrentStep
<1>2. CASE unticked # {}
  <2>1. unticked \subseteq Nat BY LenProperties
  <2>2. \E i \in unticked : \A j \in unticked : i <= j BY <1>2, <2>1, Least
  <2>3. least \in unticked BY <2>2
  <2>4. plan[least] \in Lines BY <2>3, ElementOfSeq, LenProperties
  <2>5. CurrentStep = plan[least].step BY <1>2 DEF CurrentStep
  <2> QED BY <2>4, <2>5 DEF Lines
<1> QED BY <1>1, <1>2

\* Whatever is ticked is a step.
LEMMA TickedSteps ==
    ASSUME plan \in Seq(Lines) PROVE Ticked \subseteq Step
<1>1. \A i \in DOMAIN plan : plan[i] \in Lines BY ElementOfSeq, LenProperties
<1> QED BY <1>1 DEF Ticked, Lines

\* A line that is added, ticked or dropped leaves a plan.
LEMMA Edited ==
    ASSUME plan \in Seq(Lines), Len(plan) <= MaxLines,
           (\E s \in Step : Adds(s)) \/ (\E i \in DOMAIN plan : Ticks(i) \/ Drops(i))
    PROVE  plan' \in Seq(Lines) /\ Len(plan') <= MaxLines
<1>1. CASE \E s \in Step : Adds(s)
  <2>1. PICK s \in Step : Adds(s) BY <1>1
  <2>2. [step |-> s, done |-> FALSE] \in Lines BY DEF Lines
  <2>3. Len(plan') = Len(plan) + 1 /\ plan' \in Seq(Lines)
    BY <2>1, <2>2, AppendProperties DEF Adds
  <2>4. Len(plan) \in Nat BY LenProperties
  <2> QED BY <2>1, <2>3, <2>4, IterationAssumption DEF Adds
<1>2. ASSUME NEW i \in DOMAIN plan, Ticks(i) PROVE plan' \in Seq(Lines) /\ Len(plan') <= MaxLines
  <2>1. i \in 1..Len(plan) /\ plan[i] \in Lines BY ElementOfSeq, LenProperties
  <2>2. [plan[i] EXCEPT !.done = TRUE] \in Lines BY <2>1 DEF Lines
  <2>3. plan' = [plan EXCEPT ![i] = [plan[i] EXCEPT !.done = TRUE]] BY <1>2 DEF Ticks
  <2> QED BY <2>1, <2>2, <2>3, ExceptSeq
<1>3. ASSUME NEW i \in DOMAIN plan, Drops(i) PROVE plan' \in Seq(Lines) /\ Len(plan') <= MaxLines
  <2>1. i \in 1..Len(plan) /\ Len(plan) \in Nat BY LenProperties
  <2>2. SubSeq(plan, 1, i - 1) \in Seq(Lines) /\ Len(SubSeq(plan, 1, i - 1)) = i - 1
    BY <2>1, SubSeqProperties
  <2>3. /\ SubSeq(plan, i + 1, Len(plan)) \in Seq(Lines)
        /\ Len(SubSeq(plan, i + 1, Len(plan))) = Len(plan) - i
    BY <2>1, SubSeqProperties
  <2>4. plan' \in Seq(Lines) /\ Len(plan') = (i - 1) + (Len(plan) - i)
    BY <1>3, <2>2, <2>3, ConcatProperties DEF Drops
  <2> QED BY <2>1, <2>4, IterationAssumption
<1> QED BY <1>1, <1>2, <1>3

-----------------------------------------------------------------------------
(* Types: what counts and names, what is a flag, and what is made of both:  *)
(* no prover is good at all of them at once.                               *)

Prompts == [role : {"none", "planning", "retry", "editing"},
            task : {"none", "repair", "split", "step", "continue"}, times : Nat]

Subjects == [kind : {"none", "handoff", "step", "files", "outcome"}, by : Numbers]

Values ==
    /\ plan \in Seq(Lines) /\ Len(plan) <= MaxLines
    /\ thrashed \in Counts /\ recorded \in Counts /\ commit \in Subjects
    /\ at \in {"new", "over", "none", "idle", "agent", "handoff", "commit",
               "record", "end"}
    /\ number \in 1..(MaxNumber + 1) /\ sent \in Prompts
    /\ last \in {"none", "ok", "thrashing", "interrupted"}
    /\ before \in [step : Step \cup {None}, ticked : SUBSET Step]
    /\ kills \in 0..MaxKills

Flags ==
    /\ commits \in BOOLEAN /\ dirty \in BOOLEAN /\ broken \in BOOLEAN
    /\ session \in BOOLEAN /\ defects \in BOOLEAN /\ blocked \in BOOLEAN

Records ==
    /\ handoff \in [by : Numbers, own : BOOLEAN, long : BOOLEAN]
    /\ saved \in [steps : Counts, session : BOOLEAN]
    /\ now \in [handoff : BOOLEAN, files : BOOLEAN, summary : BOOLEAN]

LEMMA Bounds ==
    MaxLines \in Nat /\ MaxKills \in Nat /\ MaxNumber \in Nat \ {0} /\ None \notin Step
BY IterationAssumption

LEMMA Gated == Blocking \in BOOLEAN
BY IterationAssumption

LEMMA TypeParts == TypeOK <=> Values /\ Flags /\ Records
BY DEF TypeOK, Values, Flags, Records, Prompts, Subjects

-----------------------------------------------------------------------------
(* What the loop and the files know of each other. *)

\* An account of this iteration's agent is the agent's, and this iteration's, or
\* empty; a subject is there between the commit and the record.
Own ==
    /\ now.handoff => /\ at \in {"agent", "handoff", "commit"}
                      /\ handoff.own /\ (handoff = Blank \/ handoff.by = number)
    /\ commit.kind = "handoff" => /\ at = "record" /\ handoff.own
                                  /\ (commit.by = number \/ handoff.long)

\* The file knows what is recorded; so does the memory, and what is to come.
Counted ==
    /\ saved.steps = recorded
    /\ \A s \in Step :
         thrashed[s] = IF at = "none" THEN 0
                         ELSE IF Unrecorded(s) THEN recorded[s] + 1 ELSE recorded[s]

\* An iteration under way has a number that there is.
Within == at \in {"agent", "handoff", "commit", "record", "end"} => number <= MaxNumber

Inv == Values /\ Flags /\ Records /\ Own /\ Counted /\ Within

-----------------------------------------------------------------------------

LEMMA InvInit == Init => Inv
<1> SUFFICES ASSUME Init PROVE Inv OBVIOUS
<1> USE DEF Init, Numbers, Never, Account, Subject, Untouched, NoPrompt
<1>1. Values
  <2>1. plan \in Seq(Lines) /\ Len(plan) <= MaxLines BY Bounds
  <2>2. commit \in Subjects /\ sent \in Prompts BY Bounds DEF Subjects, Prompts
  <2>3. number \in 1..(MaxNumber + 1) /\ kills \in 0..MaxKills BY Bounds
  <2> QED BY <2>1, <2>2, <2>3 DEF Values, Counts
<1>2. Flags BY DEF Flags
<1>3. Records BY Bounds DEF Records, Counts
<1>4. Own BY DEF Own
<1>5. Counted BY DEF Counted, Unrecorded
<1>6. Within BY DEF Within
<1> QED BY <1>1, <1>2, <1>3, <1>4, <1>5, <1>6 DEF Inv

-----------------------------------------------------------------------------
(* One lemma per step of an iteration. *)

LEMMA ProbeGateInv == ASSUME Inv, ProbeGate PROVE Inv'
<1> USE DEF ProbeGate, disk, memory, iteration
<1>1. Values' BY Bounds DEF Inv, Values
<1>2. Flags' BY DEF Inv, Flags
<1>3. Records' BY DEF Inv, Records
<1>4. Own' BY DEF Inv, Own
<1>5. Counted' BY DEF Inv, Values, Counted, Unrecorded
<1>6. Within' BY DEF Inv, Within
<1> QED BY <1>1, <1>2, <1>3, <1>4, <1>5, <1>6 DEF Inv

LEMMA BeginInv == ASSUME Inv, Begin PROVE Inv'
<1> USE DEF Begin
<1>1. Values'
  <2>1. CurrentStep \in Step \cup {None} /\ Ticked \subseteq Step
    BY StepInPlay, TickedSteps DEF Inv, Values
  <2>2. sent' \in Prompts
    <3>1. Roles \subseteq {"planning", "retry", "editing"} BY DEF Roles
    <3>2. Task \in {"repair", "split", "step"} BY DEF Task
    <3>3. Times \in Nat BY <2>1 DEF Times, Task, RetryStep, Inv, Values, Counts
    <3>4. \A role \in Roles : Prompt(role) \in Prompts /\ Continued(role) \in Prompts
      BY <3>1, <3>2, <3>3 DEF Prompt, Continued, Prompts
    <3> QED BY <3>4
  <2> QED BY <2>1, <2>2 DEF Inv, Values
<1>2. Flags' BY DEF Inv, Flags
<1>3. Records' BY DEF Inv, Records
<1>4. Own' BY DEF Inv, Own
<1>5. Counted' BY DEF Inv, Values, Counted, Unrecorded
<1>6. Within' BY DEF Inv, Within
<1> QED BY <1>1, <1>2, <1>3, <1>4, <1>5, <1>6 DEF Inv

\* The agent, and the operator, change the plan and the worktree only.
LEMMA PlanInv ==
    ASSUME Inv, EditsPlan \/ OperatorAdds
    PROVE  Inv'
<1>1. plan' \in Seq(Lines) /\ Len(plan') <= MaxLines
  BY Edited DEF EditsPlan, OperatorAdds, Inv, Values
<1>2. UNCHANGED <<Loop, handoff, commits, dirty, broken, now>> BY DEF EditsPlan, OperatorAdds
<1> USE <1>1, <1>2 DEF Loop, memory
<1>3. Values' BY DEF Inv, Values
<1>4. Flags' /\ Records' BY DEF Inv, Flags, Records
<1>5. Own' /\ Within' BY DEF Inv, Own, Within
<1>6. Counted' BY DEF Inv, Counted, Unrecorded
<1> QED BY <1>3, <1>4, <1>5, <1>6 DEF Inv

LEMMA FilesInv == ASSUME Inv, at = "agent", EditsFiles PROVE Inv'
<1> USE DEF EditsFiles, Loop, memory
<1>1. Values' BY Bounds DEF Inv, Values
<1>2. Flags' BY DEF Inv, Flags
<1>3. Records' BY DEF Inv, Records
<1>4. Own' BY DEF Inv, Own, Records
<1>5. Counted' BY DEF Inv, Counted, Unrecorded
<1>6. Within' BY DEF Inv, Within
<1> QED BY <1>1, <1>2, <1>3, <1>4, <1>5, <1>6 DEF Inv

LEMMA HandoffWrittenInv == ASSUME Inv, at = "agent", WritesHandoff PROVE Inv'
<1> USE DEF WritesHandoff, Loop, memory, Account, Blank
<1>1. Values' BY Bounds DEF Inv, Values
<1>2. Flags' BY DEF Inv, Flags
<1>3. Records'
  <2>1. number \in Numbers /\ 0 \in Numbers BY Bounds DEF Inv, Values, Numbers, Within
  <2>2. ASSUME NEW by \in Numbers, NEW long \in BOOLEAN
        PROVE  [by |-> by, own |-> TRUE, long |-> long] \in [by : Numbers, own : BOOLEAN, long : BOOLEAN]
    OBVIOUS
  <2>3. handoff' \in [by : Numbers, own : BOOLEAN, long : BOOLEAN]
    <3>1. CASE handoff' = Blank BY <2>1, <2>2, <3>1
    <3>2. ASSUME NEW long \in BOOLEAN, handoff' = Account(number, TRUE, long)
          PROVE  handoff' \in [by : Numbers, own : BOOLEAN, long : BOOLEAN]
      BY <2>1, <2>2, <3>2
    <3> QED BY <3>1, <3>2
  <2>4. UNCHANGED saved OBVIOUS
  <2>5. now' \in [handoff : BOOLEAN, files : BOOLEAN, summary : BOOLEAN] BY DEF Inv, Records
  <2> QED BY <2>3, <2>4, <2>5 DEF Inv, Records
<1>4. Own' BY DEF Inv, Own, Records
<1>5. Counted' BY DEF Inv, Counted, Unrecorded
<1>6. Within' BY DEF Inv, Within
<1> QED BY <1>1, <1>2, <1>3, <1>4, <1>5, <1>6 DEF Inv

LEMMA CompactsInv == ASSUME Inv, at = "agent", Compacts PROVE Inv'
<1> USE DEF Compacts, Loop, memory, disk
<1>1. Values' BY Bounds DEF Inv, Values
<1>2. Flags' BY DEF Inv, Flags
<1>3. Records' BY DEF Inv, Records
<1>4. Own' BY DEF Inv, Own, Records
<1>5. Counted' BY DEF Inv, Counted, Unrecorded
<1>6. Within' BY DEF Inv, Within
<1> QED BY <1>1, <1>2, <1>3, <1>4, <1>5, <1>6 DEF Inv

LEMMA AgentEndsInv == ASSUME Inv, AgentEnds PROVE Inv'
<1>1. PICK result \in {"ok", "thrashing", "interrupted"} :
        Leaves(result) /\ CountAgainst(before.step, result)
  BY DEF AgentEnds
<1>2. saved'.steps = saved.steps /\ saved' \in [steps : Counts, session : BOOLEAN]
  BY <1>1 DEF Leaves, Inv, Records
<1>3. session' \in BOOLEAN /\ last' = result BY <1>1 DEF Leaves
<1> USE DEF AgentEnds, RunGate, Checks, disk
<1>4. thrashed' \in Counts
  BY <1>1 DEF CountAgainst, Inv, Values, Counts
<1>5. Values'
  <2>1. sent' \in Prompts BY DEF NoPrompt, Prompts
  <2> QED BY <1>3, <1>4, <2>1 DEF Inv, Values
<1>6. Flags'
  <2>1. blocked' \in BOOLEAN BY Gated
  <2>2. defects' \in BOOLEAN BY DEF PlanProblems, Inv, Flags
  <2> QED BY <2>1, <2>2, <1>3 DEF Inv, Flags
<1>7. Records' BY <1>2 DEF Inv, Records
<1>8. Own' /\ Within' BY DEF Inv, Own, Within
<1>9. Counted'
  BY <1>1, <1>2, <1>3, Bounds DEF CountAgainst, Inv, Values, Counts, Counted, Unrecorded
<1> QED BY <1>5, <1>6, <1>7, <1>8, <1>9 DEF Inv

LEMMA HandoffInv == ASSUME Inv, Handoff PROVE Inv'
<1> USE DEF Handoff, memory, iteration
<1>1. Values' BY Bounds DEF Inv, Values
<1>2. Flags' BY DEF Inv, Flags
<1>3. Records'
  <2>1. number \in Numbers BY Bounds DEF Inv, Values, Numbers, Within
  <2>2. Synthetic \in [by : Numbers, own : BOOLEAN, long : BOOLEAN]
    BY <2>1, Bounds DEF Synthetic, Account, Previous, Numbers, Inv, Records
  <2> QED BY <2>2 DEF Inv, Records
<1>4. Own' BY DEF Inv, Own
<1>5. Counted' BY DEF Inv, Counted, Unrecorded
<1>6. Within' BY DEF Inv, Within
<1> QED BY <1>1, <1>2, <1>3, <1>4, <1>5, <1>6 DEF Inv

LEMMA CommitInv == ASSUME Inv, Commit PROVE Inv'
<1> USE DEF Commit, memory, Untouched
<1>1. Values'
  <2>1. LineOne \in Numbers BY Bounds DEF Inv, Records, LineOne, Numbers
  <2>2. 0 \in Numbers BY Bounds DEF Numbers
  <2>3. SubjectOf \in Subjects BY <2>1, <2>2 DEF SubjectOf, Subject, Subjects
  <2> QED BY <2>3 DEF Inv, Values
<1>2. Flags' BY DEF Inv, Flags
<1>3. Records' BY DEF Inv, Records
<1>4. Own'
  <2>1. SubjectOf.kind = "handoff" =>
          handoff.own /\ (SubjectOf.by = number \/ handoff.long)
    BY DEF SubjectOf, LineOne, Subject, Inv, Own
  <2> QED BY <2>1 DEF Inv, Own
<1>5. Counted' BY DEF Inv, Counted, Unrecorded
<1>6. Within' BY DEF Inv, Within
<1> QED BY <1>1, <1>2, <1>3, <1>4, <1>5, <1>6 DEF Inv

\* What run-state.json is told is what the memory counts.
LEMMA SavedState ==
    ASSUME Inv, at # "none", SaveRunState
    PROVE  thrashed = recorded' /\ saved'.steps = recorded' /\ recorded' \in Counts
           /\ saved' \in [steps : Counts, session : BOOLEAN]
<1> USE DEF SaveRunState
<1>1. thrashed \in [Step -> Nat] /\ recorded \in [Step -> Nat] BY DEF Inv, Values, Counts
<1>2. recorded' \in [Step -> Nat] BY <1>1
<1>3. \A s \in Step : thrashed[s] = recorded'[s] BY <1>1 DEF Inv, Counted, Unrecorded
<1>4. thrashed = recorded' BY <1>1, <1>2, <1>3
<1>5. session \in BOOLEAN BY DEF Inv, Flags
<1> QED BY <1>1, <1>2, <1>4, <1>5 DEF Counts

LEMMA SaveInv == ASSUME Inv, Save PROVE Inv'
<1> USE DEF Save, NoIteration, memory, disk, NoPrompt, Untouched, Subject
<1>1. /\ thrashed = recorded' /\ saved'.steps = recorded' /\ recorded' \in Counts
      /\ saved' \in [steps : Counts, session : BOOLEAN]
  BY SavedState
<1>2. Values'
  <2>1. sent' \in Prompts BY DEF Prompts
  <2>2. commit' \in Subjects BY Bounds DEF Subjects, Numbers
  <2> QED BY <1>1, <2>1, <2>2 DEF Inv, Values
<1>3. Flags' BY DEF Inv, Flags
<1>4. Records' BY <1>1 DEF Inv, Records
<1>5. Own' BY DEF Inv, Own
<1>6. Counted' BY <1>1 DEF Inv, Counted, Unrecorded
<1>7. Within' BY DEF Inv, Within
<1> QED BY <1>2, <1>3, <1>4, <1>5, <1>6, <1>7 DEF Inv

LEMMA EndInv == ASSUME Inv, End PROVE Inv'
<1> USE DEF End, memory, iteration, disk
<1>1. Values' BY Bounds DEF Inv, Values, Within
<1>2. Flags' BY DEF Inv, Flags
<1>3. Records' BY DEF Inv, Records
<1>4. Own' BY DEF Inv, Own
<1>5. Counted' BY DEF Inv, Counted, Unrecorded
<1>6. Within' BY DEF Within
<1> QED BY <1>1, <1>2, <1>3, <1>4, <1>5, <1>6 DEF Inv

\* However a process ends, what it leaves is what run-state.json knows.
LEMMA ProcessEndsInv ==
    ASSUME Inv, ProcessEnds, saved'.steps = recorded', recorded' \in Counts,
           saved' \in [steps : Counts, session : BOOLEAN]
    PROVE  Inv'
<1> USE DEF ProcessEnds, NoIteration, disk, NoPrompt, Untouched, Subject, Never
<1>1. Values'
  <2>1. sent' \in Prompts BY DEF Prompts
  <2>2. commit' \in Subjects BY Bounds DEF Subjects, Numbers
  <2> QED BY <2>1, <2>2, Bounds DEF Inv, Values, Counts
<1>2. Flags' BY DEF Inv, Flags
<1>3. Records' BY DEF Inv, Records
<1>4. Own' BY DEF Inv, Own
<1>5. Counted' BY DEF Inv, Values, Counted, Unrecorded
<1>6. Within' BY DEF Within
<1> QED BY <1>1, <1>2, <1>3, <1>4, <1>5, <1>6 DEF Inv

LEMMA KilledInv == ASSUME Inv, Killed PROVE Inv'
<1>1. saved'.steps = recorded' /\ recorded' \in Counts BY DEF Killed, Inv, Counted, Values
<1>2. saved' \in [steps : Counts, session : BOOLEAN] BY DEF Killed, Inv, Records
<1> QED BY <1>1, <1>2, ProcessEndsInv DEF Killed

LEMMA RaisesInv == ASSUME Inv, Raises PROVE Inv'
BY SavedState, ProcessEndsInv DEF Raises

LEMMA ResumeInv == ASSUME Inv, Resume PROVE Inv'
<1> USE DEF Resume, disk, iteration
<1>1. Values' BY DEF Inv, Values, Records
<1>2. Flags' BY DEF Inv, Flags, Records
<1>3. Records' BY DEF Inv, Records
<1>4. Own' BY DEF Inv, Own
<1>5. Counted' BY DEF Inv, Values, Counted, Unrecorded
<1>6. Within' BY DEF Within
<1> QED BY <1>1, <1>2, <1>3, <1>4, <1>5, <1>6 DEF Inv

LEMMA StepInv == Inv /\ [Next]_vars => Inv'
<1> SUFFICES ASSUME Inv, [Next]_vars PROVE Inv' OBVIOUS
<1>1. CASE UNCHANGED vars
  <2> USE <1>1 DEF vars, disk, memory, iteration
  <2>1. Values' BY DEF Inv, Values
  <2>2. Flags' /\ Records' BY DEF Inv, Flags, Records
  <2>3. Own' /\ Within' BY DEF Inv, Own, Within
  <2>4. Counted' BY DEF Inv, Counted, Unrecorded
  <2> QED BY <2>1, <2>2, <2>3, <2>4 DEF Inv
<1> QED
  BY <1>1, ProbeGateInv, BeginInv, PlanInv, FilesInv, HandoffWrittenInv, CompactsInv,
     AgentEndsInv, HandoffInv, CommitInv, SaveInv, EndInv, KilledInv, RaisesInv, ResumeInv
  DEF Next, Iterate, Agent, Edits

LEMMA Invariant == Spec => []Inv
<1> QED BY InvInit, StepInv, PTL DEF Spec

-----------------------------------------------------------------------------

\* The plan, the accounts, the counts and the places of an iteration stay well
\* typed, whatever an agent does to its plan.
THEOREM TypeCorrect == Spec => []TypeOK
<1>1. Inv => TypeOK BY TypeParts DEF Inv
<1> QED BY <1>1, Invariant, PTL

\* Whatever was left in handoff.md, a commit's subject that is taken from it is of
\* what the agent of that iteration wrote: its first line, unless it was too long to
\* be read whole (Run._subject, loop.py:964; RunDir.read_handoff, rundir.py:208).
THEOREM SubjectsAreOwn == Spec => []SubjectIsOwn
<1>1. Inv => SubjectIsOwn BY DEF Inv, Own, SubjectIsOwn
<1> QED BY <1>1, Invariant, PTL

\* A step that has thrashed is asked to be split, with the right count, over
\* kills, resumes, interrupted sessions and edits of the plan (loop.py:914).
THEOREM ThrashedAreSplit == Spec => ThrashedIsSplit
<1> DEFINE A == at = "idle" /\ at' = "agent" /\ ~defects /\ CurrentStep # None
                  /\ sent'.task # "continue" =>
                IF recorded[CurrentStep] > 0
                  THEN sent'.task = "split" /\ sent'.times = recorded[CurrentStep]
                  ELSE sent'.task = "step"
<1>1. Inv /\ [Next]_vars => [A]_vars
  <2> SUFFICES ASSUME Inv, Next, at = "idle", at' = "agent", ~defects, CurrentStep # None,
                      sent'.task # "continue"
               PROVE  A
    OBVIOUS
  <2>1. Begin
    BY DEF Next, Iterate, Agent, Edits, ProbeGate, EditsFiles, EditsPlan, WritesHandoff, Compacts,
           OperatorAdds, Loop, AgentEnds, Handoff, Commit, Save, End, Killed, Raises, ProcessEnds,
           Resume
  <2>2. PICK role \in Roles : sent' = Prompt(role) BY <2>1 DEF Begin, Continued
  <2>3. CurrentStep \in Step BY StepInPlay DEF Inv, Values
  <2>4. thrashed[CurrentStep] = recorded[CurrentStep] BY <2>3 DEF Inv, Counted, Unrecorded
  <2> QED BY <2>2, <2>4 DEF Prompt, Task, Times, RetryStep
<1> QED BY <1>1, Invariant, PTL DEF Spec, ThrashedIsSplit

(***************************************************************************)
(* Part two: Supervisor.                                                   *)
(***************************************************************************)

-----------------------------------------------------------------------------
(* Types, by kind. *)

SupervisorValues ==
    /\ pc \in {"poll", "sleep", "look", "cleanup", "grace", "join", "judge", "over", "fled"}
    /\ killed \in Cuts \cup {"none", "stopped"}
    /\ outcome \in Cuts \cup {"none", "interrupted", "agent-error", "truncated", "no-action", "ok"}
    /\ agent \in {"up", "dying", "gone"} /\ child \in {"none", "up", "gone"}
    /\ reader \in {"reading", "ended"}

Clocks ==
    /\ elapsed \in 0..(Timeout + 1) /\ silent \in 0..(Stall + 1) /\ signals \in 0..MaxSignals
    /\ raw \in 0..RawCeiling /\ said \in 0..MaxSaid /\ flying \in 0..said

Marks ==
    /\ raised \in BOOLEAN /\ skipped \in BOOLEAN /\ shortened \in BOOLEAN
    /\ told \in [reason : Messages \cup {"none"}, called : BOOLEAN, wrote : BOOLEAN]

Pipe == pipe \in Seq(Events) /\ Len(pipe) <= MaxPipe

Typed == SupervisorValues /\ Clocks /\ Marks /\ Pipe /\ stream \in Streams

LEMMA TypedParts == Typed => SupervisorTypeOK
BY LimitAssumption DEF SupervisorTypeOK, Typed, SupervisorValues, Clocks, Marks, Pipe

LEMMA Limits ==
    /\ Timeout \in Nat /\ ToolLimit \in Nat /\ Stall \in Nat /\ RawCeiling \in Nat
    /\ MaxSaid \in Nat /\ MaxPipe \in Nat /\ MaxSignals \in Nat
BY LimitAssumption

-----------------------------------------------------------------------------
(* The invariant. *)

\* From the join on the agent is known to be gone.
Gone == pc \in {"join", "judge", "over"} => agent = "gone"

\* The stall clock is never ahead of the silence, unless the reader gave up.
Heard == ~skipped => stream.quiet <= silent

\* The stream is judged with an empty pipe, which nobody fills any more, and its
\* judgement stands.
Drained ==
    /\ reader = "ended" => pipe = <<>> /\ agent = "gone"
    /\ pc = "judge" \/ outcome # "none" => pipe = <<>>
    /\ outcome # "none" => pc = "over" /\ outcome = Judged(stream)

\* What the agent has said is in _Stream or still in the pipe, and the last message
\* end in the pipe is the last there was.
Messaged ==
    \/ \E i \in DOMAIN pipe :
         /\ pipe[i] \in Messages /\ told.reason = pipe[i]
         /\ \A j \in DOMAIN pipe : j > i => pipe[j] \notin Messages
    \/ /\ told.reason = stream.reason
       /\ \A i \in DOMAIN pipe : pipe[i] \notin Messages

Kept ==
    ~skipped /\ ~shortened =>
        /\ told.called <=> (stream.calls # <<>> \/ \E i \in DOMAIN pipe : pipe[i] \in Tools)
        /\ told.wrote <=> (Wrote(stream) \/ \E i \in DOMAIN pipe : pipe[i] = "edit")
        /\ Messaged

SupervisorInv == Typed /\ Gone /\ Heard /\ Drained /\ Kept

-----------------------------------------------------------------------------
(* Helpers. *)

Older(age, limit) == IF age > limit THEN age ELSE age + 1

LEMMA OlderType ==
    ASSUME NEW limit \in Nat, NEW age \in 0..(limit + 1)
    PROVE  Older(age, limit) \in 0..(limit + 1)
BY DEF Older

\* What an event does to _Stream leaves the clocks that note_output has reset.
LEMMA HandleType ==
    ASSUME NEW s \in Streams, NEW e \in Events
    PROVE  Note(s, e) \in Streams /\ Handle(s, e) \in Streams /\ Handle(s, e).quiet = s.quiet
<1>1. Note(s, e) \in Streams
  <2>1. 0 \in 0..(Stall + 1) BY Limits
  <2>2. ASSUME NEW b \in BOOLEAN PROVE [s EXCEPT !.quiet = 0, !.first = b] \in Streams
    BY <2>1, Zenon DEF Streams
  <2> QED BY <2>2 DEF Note, Active
<1>2. CASE e \in Tools
  <2>1. Append(s.calls, e) \in Seq(Tools) BY <1>2 DEF Streams
  <2>2. 0 \in {NoTool} \cup 0..(ToolLimit + 1) BY Limits
  <2>3. CASE ReportsToolEnds
    <3>1. Handle(s, e) = [s EXCEPT !.calls = Append(s.calls, e), !.tool = 0] BY <1>2, <2>3 DEF Handle, Tools, Messages, Streams
    <3> QED BY <1>1, <2>1, <2>2, <3>1 DEF Streams
  <2>4. CASE ~ReportsToolEnds
    <3>1. Handle(s, e) = [s EXCEPT !.calls = Append(s.calls, e)] BY <1>2, <2>4 DEF Handle, Tools, Messages, Streams
    <3> QED BY <1>1, <2>1, <3>1 DEF Streams
  <2> QED BY <2>3, <2>4
<1>3. CASE e \in Messages BY <1>1, <1>3 DEF Streams, Handle, Messages, Tools
<1>4. CASE e = "tool_end" BY <1>1, <1>4 DEF Streams, Handle, Messages, Tools
<1>5. CASE e = "compaction"
  <2>1. s.compactions + 1 \in Nat BY DEF Streams
  <2> QED BY <1>1, <1>5, <2>1 DEF Streams, Handle, Messages, Tools
<1>6. CASE e = "bytes" BY <1>1, <1>6 DEF Streams, Handle, Messages, Tools
<1> QED BY <1>2, <1>3, <1>4, <1>5, <1>6 DEF Events

\* The look that comes first names the cut.
LEMMA FirstCut ==
    ASSUME NEW s \in Streams
    PROVE  /\ First(Looks(s)) \in Cuts \cup {"none", "stopped"}
           /\ First(Looks(s)) = "stalled" => s.first /\ s.quiet > Stall
<1> DEFINE looks == Looks(s)
           P(i) == looks[i].holds /\ \A j \in 1..(i - 1) : ~looks[j].holds
<1>1. DOMAIN looks = 1..6 BY DEF Looks
<1>2. /\ \A i \in 1..6 : looks[i].cut \in Cuts \cup {"stopped"}
      /\ \A i \in 1..6 : looks[i].cut = "stalled" => i = 3
      /\ looks[3].holds = (s.first /\ s.quiet > Stall)
  BY DEF Looks, Cuts
<1> HIDE DEF looks
<1>3. CASE \E i \in 1..6 : looks[i].holds
  <2>1. \E i \in 1..6 : P(i)
    <3>1. CASE P(1) BY <3>1
    <3>2. CASE P(2) BY <3>2
    <3>3. CASE P(3) BY <3>3
    <3>4. CASE P(4) BY <3>4
    <3>5. CASE P(5) BY <3>5
    <3>6. CASE P(6) BY <3>6
    <3> QED BY <1>3, <3>1, <3>2, <3>3, <3>4, <3>5, <3>6
  <2>2. PICK i \in 1..6 : P(i) /\ First(looks) = looks[i].cut
    BY <1>1, <1>3, <2>1 DEF First
  <2> QED BY <1>2, <2>2 DEF looks
<1>4. CASE ~\E i \in 1..6 : looks[i].holds
  BY <1>1, <1>4 DEF First, looks
<1> QED BY <1>3, <1>4

\* What an event does to the calls and to the reason of _Stream.
LEMMA HandleEffect ==
    ASSUME NEW s \in Streams, NEW e \in Events
    PROVE  /\ Handle(Note(s, e), e).calls # <<>> <=> s.calls # <<>> \/ e \in Tools
           /\ Wrote(Handle(Note(s, e), e)) <=> Wrote(s) \/ e = "edit"
           /\ Handle(Note(s, e), e).reason = IF e \in Messages THEN e ELSE s.reason
<1> DEFINE n == Note(s, e)
           h == Handle(n, e)
<1>1. n \in Streams BY HandleType
<1>2. n.calls = s.calls /\ n.reason = s.reason BY DEF Note, Streams
<1> HIDE DEF n
<1>3. h.reason = IF e \in Messages THEN e ELSE n.reason
  BY <1>1 DEF Handle, Events, Tools, Messages, Streams
<1>4. CASE e \in Tools
  <2>1. h.calls = Append(n.calls, e) BY <1>1, <1>4 DEF Handle, Tools, Messages, Streams
  <2>2. n.calls \in Seq(Tools) BY <1>1 DEF Streams
  <2>3. /\ DOMAIN h.calls = 1..(Len(n.calls) + 1) /\ h.calls[Len(n.calls) + 1] = e
        /\ \A i \in 1..Len(n.calls) : h.calls[i] = n.calls[i]
        /\ Len(n.calls) \in Nat /\ DOMAIN n.calls = 1..Len(n.calls)
    BY <1>4, <2>1, <2>2, AppendProperties, LenProperties
  <2>4. h.calls # <<>> BY <2>3
  <2>5. Wrote(h) <=> Wrote(n) \/ e = "edit" BY <2>3 DEF Wrote
  <2> QED BY <1>2, <1>3, <1>4, <2>4, <2>5 DEF Wrote, n
<1>5. CASE e \notin Tools
  <2>1. h.calls = n.calls BY <1>1, <1>5 DEF Handle, Events, Tools, Messages, Streams
  <2>2. e # "edit" BY <1>5 DEF Tools
  <2> QED BY <1>2, <1>3, <1>5, <2>1, <2>2 DEF Wrote, n
<1> QED BY <1>4, <1>5

-----------------------------------------------------------------------------
(* Every step. *)

LEMMA TypedInit == SupervisorInit => Typed
<1> SUFFICES ASSUME SupervisorInit PROVE Typed
  OBVIOUS
<1>1. SupervisorValues BY DEF SupervisorInit, SupervisorValues
<1>2. Clocks BY Limits DEF SupervisorInit, Clocks
<1>3. Marks BY DEF SupervisorInit, Marks, Untold
<1>4. Pipe BY Limits DEF SupervisorInit, Pipe
<1>5. stream \in Streams
  <2>1. 0 \in 0..(Stall + 1) /\ <<>> \in Seq(Tools) /\ 0 \in Nat BY Limits
  <2>2. stream = Fresh BY DEF SupervisorInit
  <2> QED BY <2>1, <2>2 DEF Fresh, Streams
<1> QED BY <1>1, <1>2, <1>3, <1>4, <1>5 DEF Typed

LEMMA ValuesStep == Typed /\ [SupervisorNext]_supervisorVars => SupervisorValues'
<1> SUFFICES ASSUME Typed, [SupervisorNext]_supervisorVars PROVE SupervisorValues'
  OBVIOUS
<1> USE DEF Typed, SupervisorValues
<1>1. CASE Look BY <1>1, FirstCut DEF Look, procs
<1>2. CASE Judge BY <1>2 DEF Judge, Judged, Verdict, Cuts, procs
<1>3. CASE Supervise /\ ~Look /\ ~Judge
  BY <1>3 DEF Supervise, Poll, Sleep, Cleanup, Grace, Join, Reaped, procs
<1>4. CASE Reading BY <1>4 DEF Reading, Read, ReadEnd
<1>5. CASE Signal BY <1>5 DEF Signal, Clocks, procs
<1>6. CASE AgentExits \/ Child \/ \E e \in Events : Say(e) BY <1>6 DEF AgentExits, Child, Say
<1>7. CASE UNCHANGED supervisorVars BY <1>7 DEF supervisorVars
<1> QED BY <1>1, <1>2, <1>3, <1>4, <1>5, <1>6, <1>7 DEF SupervisorNext, Supervise, World

LEMMA CountsStep == Typed /\ [SupervisorNext]_supervisorVars => Clocks'
<1> SUFFICES ASSUME Typed, [SupervisorNext]_supervisorVars PROVE Clocks'
  OBVIOUS
<1> USE DEF Typed, Clocks
<1>1. CASE Sleep BY <1>1, Limits DEF Sleep
<1>2. CASE Supervise /\ ~Sleep
  BY <1>2 DEF Supervise, Poll, Look, Cleanup, Grace, Join, Judge, procs
<1>3. CASE Read BY <1>3, Limits DEF Read
<1>4. CASE ReadEnd BY <1>4 DEF ReadEnd
<1>5. CASE Signal BY <1>5, Limits DEF Signal, procs
<1>6. CASE AgentExits \/ Child BY <1>6 DEF AgentExits, Child
<1>7. ASSUME NEW e \in Events, Say(e) PROVE Clocks'
  <2>1. said < MaxSaid /\ said' = said + 1 BY <1>7 DEF Say
  <2>2. flying' \in {flying, flying + 1, flying - 1} /\ (flying' = flying - 1 => flying > 0)
    BY <1>7 DEF Say, Tools
  <2>3. flying' \in 0..said' BY <2>1, <2>2
  <2>4. UNCHANGED <<elapsed, silent, signals, raw>> BY <1>7 DEF Say
  <2> QED BY <2>1, <2>3, <2>4, Limits
<1>8. CASE UNCHANGED supervisorVars BY <1>8 DEF supervisorVars
<1> QED BY <1>1, <1>2, <1>3, <1>4, <1>5, <1>6, <1>7, <1>8 DEF SupervisorNext, Reading, World

LEMMA FlagsStep == Typed /\ [SupervisorNext]_supervisorVars => Marks'
<1> SUFFICES ASSUME Typed, [SupervisorNext]_supervisorVars PROVE Marks'
  OBVIOUS
<1> USE DEF Typed, Marks
<1>1. CASE Read BY <1>1 DEF Read
<1>2. CASE Signal
  <2>1. raised' = (signals > 0) /\ UNCHANGED <<skipped, shortened, told>>
    BY <1>2 DEF Signal, procs, history
  <2>2. CASE signals > 0 BY <2>1, <2>2
  <2>3. CASE ~(signals > 0) BY <2>1, <2>3
  <2> QED BY <2>2, <2>3
<1>3. CASE Supervise \/ ReadEnd \/ AgentExits \/ Child \/ UNCHANGED supervisorVars
  BY <1>3 DEF Supervise, Poll, Sleep, Look, Cleanup, Grace, Join, Judge, ReadEnd, AgentExits, Child,
              procs, history, supervisorVars
<1>4. ASSUME NEW e \in Events, Say(e) PROVE Marks'
  <2>1. UNCHANGED <<raised, skipped, shortened>> BY <1>4 DEF Say
  <2>2. told' = [reason |-> IF e \in Messages THEN e ELSE told.reason,
                 called |-> told.called \/ e \in Tools, wrote |-> told.wrote \/ e = "edit"]
    BY <1>4 DEF Say
  <2>3. (told.called \/ e \in Tools) \in BOOLEAN /\ (told.wrote \/ e = "edit") \in BOOLEAN
    OBVIOUS
  <2>4. (IF e \in Messages THEN e ELSE told.reason) \in Messages \cup {"none"} OBVIOUS
  <2> HIDE DEF Marks
  <2>5. told' \in [reason : Messages \cup {"none"}, called : BOOLEAN, wrote : BOOLEAN]
    BY <2>2, <2>3, <2>4, Zenon
  <2> QED BY <2>1, <2>5 DEF Marks
<1> QED BY <1>1, <1>2, <1>3, <1>4 DEF SupervisorNext, Reading, World

LEMMA PipeStep == Typed /\ [SupervisorNext]_supervisorVars => Pipe'
<1> SUFFICES ASSUME Typed, [SupervisorNext]_supervisorVars PROVE Pipe'
  OBVIOUS
<1> USE DEF Typed, Pipe
<1>1. CASE Read
  <2>1. pipe # <<>> /\ pipe' = Tail(pipe) BY <1>1 DEF Read
  <2>2. Tail(pipe) \in Seq(Events) /\ Len(Tail(pipe)) = Len(pipe) - 1
    BY <2>1, HeadTailProperties
  <2> QED BY <2>1, <2>2, LenProperties, Limits
<1>2. ASSUME NEW e \in Events, Say(e) PROVE Pipe'
  <2>1. Len(pipe) < MaxPipe /\ pipe' = Append(pipe, e) BY <1>2 DEF Say
  <2> QED BY <2>1, AppendProperties, Limits
<1>3. CASE Supervise \/ ReadEnd \/ Signal \/ AgentExits \/ Child \/ UNCHANGED supervisorVars
  BY <1>3 DEF Supervise, Poll, Sleep, Look, Cleanup, Grace, Join, Judge, ReadEnd, Signal, AgentExits,
              Child, procs, supervisorVars
<1> QED BY <1>1, <1>2, <1>3 DEF SupervisorNext, Reading, World

\* A sleep lets no clock of _Stream run away.
LEMMA SleepStream ==
    ASSUME Typed, Sleep
    PROVE  /\ stream' \in Streams /\ stream'.quiet = Older(stream.quiet, Stall)
           /\ stream'.calls = stream.calls /\ stream'.reason = stream.reason
<1>1. Older(stream.quiet, Stall) \in 0..(Stall + 1) BY Limits, OlderType DEF Typed, Streams
<1>2. ASSUME stream.tool # NoTool PROVE Older(stream.tool, ToolLimit) \in 0..(ToolLimit + 1)
  BY <1>2, Limits, OlderType DEF Typed, Streams
<1>3. stream' = [stream EXCEPT !.quiet = Older(stream.quiet, Stall),
                   !.tool = IF stream.tool = NoTool THEN NoTool ELSE Older(stream.tool, ToolLimit)]
  BY DEF Sleep, Older, Typed, Streams
<1> QED BY <1>1, <1>2, <1>3 DEF Typed, Streams

\* A read is what the events do, or a thing of the past.
LEMMA ReadStream ==
    ASSUME Typed, Read
    PROVE  stream' \in Streams /\ (skipped' \/ stream'.quiet = 0)
<1>1. CASE raw < RawCeiling
  <2>1. Head(pipe) \in Events BY HeadTailProperties DEF Typed, Pipe, Read
  <2>2. Note(stream, Head(pipe)) \in Streams BY <2>1, HandleType DEF Typed
  <2>3. Note(stream, Head(pipe)).quiet = 0 BY DEF Note, Typed, Streams
  <2>4. "bytes" \in Events BY DEF Events
  <2>5. Note(stream, "bytes") \in Streams /\ Note(stream, "bytes").quiet = 0
    BY <2>4, HandleType DEF Note, Typed, Streams
  <2>6. stream' \in {Handle(Note(stream, Head(pipe)), Head(pipe)), Note(stream, Head(pipe)),
                     Note(stream, "bytes")}
    BY <1>1 DEF Read
  <2> QED BY <2>1, <2>2, <2>3, <2>5, <2>6, HandleType
<1>2. CASE ~(raw < RawCeiling)
  BY <1>2 DEF Read, Typed
<1> QED BY <1>1, <1>2

LEMMA OtherStreams ==
    ASSUME [SupervisorNext]_supervisorVars, ~Sleep, ~Read
    PROVE  UNCHANGED <<stream, silent, skipped, shortened>>
BY DEF SupervisorNext, Supervise, Poll, Look, Cleanup, Grace, Join, Judge, Reading, ReadEnd, World, Signal,
       AgentExits, Child, Say, procs, history, supervisorVars

LEMMA TypedStep == Typed /\ [SupervisorNext]_supervisorVars => Typed'
<1> SUFFICES ASSUME Typed, [SupervisorNext]_supervisorVars PROVE Typed'
  OBVIOUS
<1>1. stream' \in Streams BY SleepStream, ReadStream, OtherStreams DEF Typed
<1> QED BY <1>1, ValuesStep, CountsStep, FlagsStep, PipeStep DEF Typed

LEMMA GoneStep == Typed /\ Gone /\ [SupervisorNext]_supervisorVars => Gone'
<1> SUFFICES ASSUME Typed, Gone, [SupervisorNext]_supervisorVars PROVE Gone'
  OBVIOUS
<1> USE DEF Typed, SupervisorValues, Gone
<1>1. CASE Supervise
  BY <1>1 DEF Supervise, Poll, Sleep, Look, Cleanup, Grace, Join, Judge, Reaped, procs
<1>2. CASE Reading BY <1>2 DEF Reading, Read, ReadEnd
<1>3. CASE Signal BY <1>3 DEF Signal, Clocks, procs
<1>4. CASE AgentExits \/ Child \/ \E e \in Events : Say(e) BY <1>4 DEF AgentExits, Child, Say
<1>5. CASE UNCHANGED supervisorVars BY <1>5 DEF supervisorVars
<1> QED BY <1>1, <1>2, <1>3, <1>4, <1>5 DEF SupervisorNext, World

LEMMA HeardStep == Typed /\ Heard /\ [SupervisorNext]_supervisorVars => Heard'
<1> SUFFICES ASSUME Typed, Heard, [SupervisorNext]_supervisorVars PROVE Heard'
  OBVIOUS
<1>1. stream.quiet \in 0..(Stall + 1) /\ silent \in 0..(Stall + 1)
  BY DEF Typed, Clocks, Streams
<1>2. CASE Sleep
  <2>1. silent' = Older(silent, Stall) /\ skipped' = skipped BY <1>2 DEF Sleep, Older, history
  <2>2. stream'.quiet = Older(stream.quiet, Stall) BY <1>2, SleepStream
  <2>3. ASSUME stream.quiet <= silent PROVE stream'.quiet <= silent'
    BY <1>1, <2>1, <2>2, <2>3, Limits DEF Older
  <2> QED BY <2>1, <2>3 DEF Heard
<1>3. CASE Read
  <2>1. silent' = 0 BY <1>3 DEF Read
  <2> QED BY <1>3, <2>1, ReadStream DEF Heard
<1>4. CASE ~Sleep /\ ~Read BY <1>4, OtherStreams DEF Heard
<1> QED BY <1>2, <1>3, <1>4

\* Nothing that is not over has been judged, and nobody writes to a pipe whose
\* writer is gone.
LEMMA DrainedStep == SupervisorInv /\ [SupervisorNext]_supervisorVars => Drained'
<1> SUFFICES ASSUME SupervisorInv, [SupervisorNext]_supervisorVars PROVE Drained'
  OBVIOUS
<1> USE DEF SupervisorInv, Drained, Gone
<1>1. CASE Join BY <1>1 DEF Join, procs
<1>2. CASE Judge BY <1>2 DEF Judge, procs, Judged
<1>3. CASE Supervise /\ ~Join /\ ~Judge
  BY <1>3 DEF Supervise, Poll, Sleep, Look, Cleanup, Grace, Reaped, procs, Judged
<1>4. CASE Reading BY <1>4 DEF Reading, Read, ReadEnd, Judged
<1>5. CASE Signal BY <1>5 DEF Signal, procs, Judged, Typed, Clocks
<1>6. CASE AgentExits \/ Child \/ \E e \in Events : Say(e)
  BY <1>6 DEF AgentExits, Child, Say, Judged
<1>7. CASE UNCHANGED supervisorVars BY <1>7 DEF supervisorVars, Judged
<1> QED BY <1>1, <1>2, <1>3, <1>4, <1>5, <1>6, <1>7 DEF SupervisorNext, World

\* An agent that has said nothing.
LEMMA FreshKept == ASSUME pipe = <<>>, stream = Fresh, told = Untold PROVE Kept
<1>1. DOMAIN pipe = {} OBVIOUS
<1>2. stream.calls = <<>> /\ stream.reason = "none" BY DEF Fresh
<1>3. told.reason = "none" /\ told.called = FALSE /\ told.wrote = FALSE BY DEF Untold
<1>4. ~Wrote(stream) BY <1>2 DEF Wrote
<1> QED BY <1>1, <1>2, <1>3, <1>4 DEF Kept, Messaged

\* What is said goes to the end of the pipe.
LEMMA SayKept == ASSUME Typed, Kept, NEW e \in Events, Say(e) PROVE Kept'
<1>1. pipe \in Seq(Events) /\ pipe' = Append(pipe, e) BY DEF Typed, Pipe, Say
<1>2. /\ Len(pipe) \in Nat /\ DOMAIN pipe = 1..Len(pipe) /\ DOMAIN pipe' = 1..(Len(pipe) + 1)
      /\ pipe'[Len(pipe) + 1] = e /\ \A i \in 1..Len(pipe) : pipe'[i] = pipe[i]
  BY <1>1, AppendProperties, LenProperties
<1>3. UNCHANGED <<stream, skipped, shortened>> BY DEF Say
<1>4. /\ told'.reason = IF e \in Messages THEN e ELSE told.reason
      /\ told'.called <=> told.called \/ e \in Tools
      /\ told'.wrote <=> told.wrote \/ e = "edit"
  BY DEF Say
<1> SUFFICES ASSUME ~skipped, ~shortened PROVE Kept' BY <1>3 DEF Kept
<1>5. \A S : (\E i \in DOMAIN pipe' : pipe'[i] \in S) <=> (\E i \in DOMAIN pipe : pipe[i] \in S) \/ e \in S
  BY <1>2
<1>6. told'.called <=> (stream'.calls # <<>> \/ \E i \in DOMAIN pipe' : pipe'[i] \in Tools)
  BY <1>3, <1>4, <1>5 DEF Kept
<1>7. told'.wrote <=> (Wrote(stream') \/ \E i \in DOMAIN pipe' : pipe'[i] = "edit")
  <2>1. (\E i \in DOMAIN pipe' : pipe'[i] = "edit") <=> (\E i \in DOMAIN pipe : pipe[i] = "edit") \/ e = "edit"
    BY <1>2
  <2>2. Wrote(stream') <=> Wrote(stream) BY <1>3 DEF Wrote
  <2> QED BY <1>4, <2>1, <2>2 DEF Kept
<1>8. Messaged'
  <2>1. CASE e \in Messages BY <1>2, <1>4, <2>1 DEF Messaged
  <2>2. CASE e \notin Messages
    <3>1. told'.reason = told.reason BY <1>4, <2>2
    <3>2. ASSUME NEW i \in DOMAIN pipe, pipe[i] \in Messages, told.reason = pipe[i],
                 \A j \in DOMAIN pipe : j > i => pipe[j] \notin Messages
          PROVE  Messaged'
      <4>1. i \in DOMAIN pipe' /\ pipe'[i] = pipe[i] BY <1>2, <3>2
      <4>2. \A j \in DOMAIN pipe' : j > i => pipe'[j] \notin Messages BY <1>2, <2>2, <3>2
      <4> QED BY <3>1, <3>2, <4>1, <4>2 DEF Messaged
    <3>3. ASSUME told.reason = stream.reason, \A i \in DOMAIN pipe : pipe[i] \notin Messages
          PROVE  Messaged'
      BY <1>2, <1>3, <2>2, <3>1, <3>3 DEF Messaged
    <3> QED BY <3>2, <3>3 DEF Kept, Messaged
  <2> QED BY <2>1, <2>2
<1> QED BY <1>6, <1>7, <1>8 DEF Kept

\* What is read is taken from the front of the pipe to _Stream.
LEMMA ReadKept == ASSUME Typed, Kept, Read PROVE Kept'
<1> DEFINE e == Head(pipe)
<1> SUFFICES ASSUME ~skipped', ~shortened' PROVE Kept' BY DEF Kept
<1>1. pipe \in Seq(Events) /\ pipe # <<>> /\ pipe' = Tail(pipe) /\ told' = told
  BY DEF Typed, Pipe, Read
<1>2. e \in Events BY <1>1, HeadTailProperties
<1>3. /\ Len(pipe) \in Nat \ {0} /\ DOMAIN pipe = 1..Len(pipe) /\ DOMAIN pipe' = 1..(Len(pipe) - 1)
      /\ pipe[1] = e /\ \A i \in 1..(Len(pipe) - 1) : pipe'[i] = pipe[i + 1]
  <2>1. Len(pipe) \in Nat \ {0} /\ DOMAIN pipe = 1..Len(pipe)
    BY <1>1, LenProperties, EmptySeq
  <2>2. Tail(pipe) \in Seq(Events) /\ Len(Tail(pipe)) = Len(pipe) - 1
    BY <1>1, HeadTailProperties
  <2>3. DOMAIN pipe' = 1..(Len(pipe) - 1) BY <1>1, <2>2, LenProperties
  <2> QED BY <1>1, <2>1, <2>2, <2>3
<1>4. ~skipped /\ ~shortened /\ stream' = Handle(Note(stream, e), e) BY DEF Read
<1> HIDE DEF e
<1>5. /\ stream'.calls # <<>> <=> stream.calls # <<>> \/ e \in Tools
      /\ Wrote(stream') <=> Wrote(stream) \/ e = "edit"
      /\ stream'.reason = IF e \in Messages THEN e ELSE stream.reason
  BY <1>2, <1>4, HandleEffect DEF Typed
<1>6. \A S : (\E i \in DOMAIN pipe : pipe[i] \in S) <=> (\E i \in DOMAIN pipe' : pipe'[i] \in S) \/ e \in S
  <2> SUFFICES ASSUME NEW S
               PROVE  (\E i \in DOMAIN pipe : pipe[i] \in S) <=> (\E i \in DOMAIN pipe' : pipe'[i] \in S) \/ e \in S
    OBVIOUS
  <2>1. ASSUME NEW i \in DOMAIN pipe, pipe[i] \in S
        PROVE  (\E k \in DOMAIN pipe' : pipe'[k] \in S) \/ e \in S
    <3>1. CASE i = 1 BY <1>3, <2>1, <3>1
    <3>2. CASE i # 1
      <4>1. i - 1 \in DOMAIN pipe' /\ pipe'[i - 1] = pipe[i] BY <1>3, <3>2
      <4> QED BY <2>1, <4>1
    <3> QED BY <3>1, <3>2
  <2>2. ASSUME NEW i \in DOMAIN pipe', pipe'[i] \in S PROVE \E k \in DOMAIN pipe : pipe[k] \in S
    <3>1. i + 1 \in DOMAIN pipe /\ pipe'[i] = pipe[i + 1] BY <1>3
    <3> QED BY <2>2, <3>1
  <2>3. e \in S => \E k \in DOMAIN pipe : pipe[k] \in S BY <1>3
  <2> QED BY <2>1, <2>2, <2>3
<1>7. told'.called <=> (stream'.calls # <<>> \/ \E i \in DOMAIN pipe' : pipe'[i] \in Tools)
  BY <1>1, <1>4, <1>5, <1>6 DEF Kept
<1>8. told'.wrote <=> (Wrote(stream') \/ \E i \in DOMAIN pipe' : pipe'[i] = "edit")
  <2>1. (\E i \in DOMAIN pipe : pipe[i] \in {"edit"}) <=> (\E i \in DOMAIN pipe' : pipe'[i] \in {"edit"}) \/ e \in {"edit"}
    BY <1>6
  <2>2. told.wrote <=> (Wrote(stream) \/ \E i \in DOMAIN pipe : pipe[i] = "edit")
    BY <1>4 DEF Kept
  <2> QED BY <1>1, <1>5, <2>1, <2>2
<1>9. Messaged'
  <2>1. ASSUME NEW i \in DOMAIN pipe, pipe[i] \in Messages, told.reason = pipe[i],
               \A j \in DOMAIN pipe : j > i => pipe[j] \notin Messages
        PROVE  Messaged'
    <3>1. CASE i = 1
      <4>1. told'.reason = stream'.reason BY <1>1, <1>3, <1>5, <2>1, <3>1
      <4>2. \A j \in DOMAIN pipe' : pipe'[j] \notin Messages
        <5> TAKE j \in DOMAIN pipe'
        <5>1. j + 1 \in DOMAIN pipe /\ j + 1 > i /\ pipe'[j] = pipe[j + 1] BY <1>3, <3>1
        <5> QED BY <2>1, <5>1
      <4> QED BY <4>1, <4>2 DEF Messaged
    <3>2. CASE i # 1
      <4>1. i - 1 \in DOMAIN pipe' /\ pipe'[i - 1] = pipe[i] BY <1>3, <3>2
      <4>2. \A j \in DOMAIN pipe' : j > i - 1 => pipe'[j] \notin Messages
        <5> TAKE j \in DOMAIN pipe'
        <5>1. j + 1 \in DOMAIN pipe /\ (j > i - 1 => j + 1 > i) /\ pipe'[j] = pipe[j + 1]
          BY <1>3
        <5> QED BY <2>1, <5>1
      <4> QED BY <1>1, <2>1, <4>1, <4>2 DEF Messaged
    <3> QED BY <3>1, <3>2
  <2>2. ASSUME told.reason = stream.reason, \A i \in DOMAIN pipe : pipe[i] \notin Messages
        PROVE  Messaged'
    <3>1. e \notin Messages BY <1>3, <2>2
    <3>2. \A j \in DOMAIN pipe' : pipe'[j] \notin Messages
      <4> TAKE j \in DOMAIN pipe'
      <4>1. j + 1 \in DOMAIN pipe /\ pipe'[j] = pipe[j + 1] BY <1>3
      <4> QED BY <2>2, <4>1
    <3> QED BY <1>1, <1>5, <2>2, <3>1, <3>2 DEF Messaged
  <2> QED BY <1>4, <2>1, <2>2 DEF Kept, Messaged
<1> QED BY <1>7, <1>8, <1>9 DEF Kept

LEMMA KeptStep == Typed /\ Kept /\ [SupervisorNext]_supervisorVars => Kept'
<1> SUFFICES ASSUME Typed, Kept, [SupervisorNext]_supervisorVars PROVE Kept'
  OBVIOUS
<1>1. CASE Sleep
  <2>1. UNCHANGED <<pipe, skipped, shortened, told>> BY <1>1 DEF Sleep, history
  <2>2. stream'.calls = stream.calls /\ stream'.reason = stream.reason BY <1>1, SleepStream
  <2>3. Wrote(stream') <=> Wrote(stream) BY <2>2 DEF Wrote
  <2>4. Messaged <=> Messaged' BY <2>1, <2>2 DEF Messaged
  <2> QED BY <2>1, <2>2, <2>3, <2>4 DEF Kept
<1>2. CASE Read BY <1>2, ReadKept
<1>3. CASE \E e \in Events : Say(e) BY <1>3, SayKept
<1>4. CASE ~Sleep /\ ~Read /\ ~\E e \in Events : Say(e)
  <2>1. UNCHANGED <<pipe, stream, skipped, shortened, told>>
    BY <1>4 DEF SupervisorNext, Supervise, Poll, Look, Cleanup, Grace, Join, Judge, Reading, ReadEnd,
       World, Signal, AgentExits, Child, procs, history, supervisorVars
  <2>2. Wrote(stream') <=> Wrote(stream) BY <2>1 DEF Wrote
  <2>3. Messaged <=> Messaged' BY <2>1 DEF Messaged
  <2> QED BY <2>1, <2>2, <2>3 DEF Kept
<1> QED BY <1>1, <1>2, <1>3, <1>4

LEMMA SupervisorInvInit == SupervisorInit => SupervisorInv
<1> SUFFICES ASSUME SupervisorInit PROVE SupervisorInv
  OBVIOUS
<1>1. Gone BY DEF SupervisorInit, Gone
<1>2. Heard BY DEF SupervisorInit, Heard, Fresh
<1>3. Drained BY DEF SupervisorInit, Drained
<1>4. Kept
  <2>1. pipe = <<>> /\ stream = Fresh /\ told = Untold BY DEF SupervisorInit
  <2> QED BY <2>1, FreshKept
<1> QED BY <1>1, <1>2, <1>3, <1>4, TypedInit DEF SupervisorInv

LEMMA SupervisorInvStep == SupervisorInv /\ [SupervisorNext]_supervisorVars => SupervisorInv'
BY TypedStep, GoneStep, HeardStep, DrainedStep, KeptStep DEF SupervisorInv

LEMMA SupervisorInvariant == SupervisorSpec => []SupervisorInv
BY SupervisorInvInit, SupervisorInvStep, PTL DEF SupervisorSpec

-----------------------------------------------------------------------------

\* The clocks, the pipe and _Stream stay well typed, whatever the agent says.
THEOREM SupervisorTypeCorrect == SupervisorSpec => []SupervisorTypeOK
<1>1. SupervisorInv => SupervisorTypeOK BY TypedParts DEF SupervisorInv
<1> QED BY <1>1, SupervisorInvariant, PTL

\* A run() that is over, by a result or by a signal that interrupted its loop,
\* has left no agent (pi_runner.py:244-249).
THEOREM OverIsReaped == SupervisorSpec => []ReapedWhenOver
<1>1. SupervisorInv => ReapedWhenOver BY DEF SupervisorInv, Gone, ReapedWhenOver
<1> QED BY <1>1, SupervisorInvariant, PTL

\* Nothing is left in the pipe when an agent is judged, so all it has said was heard.
LEMMA WholeOutcome == SupervisorInv => OutcomeOfTheWhole
<1> SUFFICES ASSUME SupervisorInv, outcome # "none", killed = "none", ~skipped, ~shortened
             PROVE  outcome = Verdict(told.reason, told.called, told.wrote)
  BY DEF OutcomeOfTheWhole
<1>1. pipe = <<>> /\ outcome = Judged(stream) BY DEF SupervisorInv, Drained
<1>2. DOMAIN pipe = {} BY <1>1
<1>3. told.called <=> stream.calls # <<>> BY <1>2 DEF SupervisorInv, Kept
<1>4. told.wrote <=> Wrote(stream) BY <1>2 DEF SupervisorInv, Kept
<1>5. told.reason = stream.reason BY <1>2 DEF SupervisorInv, Kept, Messaged
<1>6. Judged(stream) = Verdict(stream.reason, stream.calls # <<>>, Wrote(stream)) BY DEF Judged
<1> QED BY <1>1, <1>3, <1>4, <1>5, <1>6 DEF Verdict

\* What is recorded of an agent that was let finish is the verdict on all it has
\* written, for nothing is left in the pipe: whoever judges has joined the reader or
\* waited until it was empty (pi_runner.py:260).  Excepted are an agent that has
\* talked past a ceiling and a line too long for its buffer (runner_stream.py:249).
THEOREM OutcomesAreWhole == SupervisorSpec => []OutcomeOfTheWhole
BY WholeOutcome, SupervisorInvariant, PTL

\* Who is called stalled has been heard, and has been silent for the whole limit,
\* unless the ceiling of the raw stream stopped the clock (runner_stream.py:173).
THEOREM StalledMeansSilent == SupervisorSpec => StalledIsSilent
<1> DEFINE Cut == killed # "stalled" /\ killed' = "stalled" => stream.first /\ (silent > Stall \/ skipped)
<1>1. SupervisorInv /\ [SupervisorNext]_supervisorVars => [Cut]_supervisorVars
  <2> SUFFICES ASSUME SupervisorInv, SupervisorNext, killed # "stalled", killed' = "stalled"
               PROVE  stream.first /\ (silent > Stall \/ skipped)
    OBVIOUS
  <2>1. Look
    BY DEF SupervisorNext, Supervise, Poll, Sleep, Cleanup, Grace, Join, Judge, Reading, Read, ReadEnd, World,
           Signal, AgentExits, Child, Say
  <2>2. killed' = First(Looks(stream)) BY <2>1 DEF Look
  <2>3. stream.first /\ stream.quiet > Stall BY <2>2, FirstCut DEF SupervisorInv, Typed
  <2>4. stream.quiet \in 0..(Stall + 1) /\ silent \in 0..(Stall + 1)
    BY DEF SupervisorInv, Typed, Clocks, Streams
  <2>5. CASE ~skipped BY <2>3, <2>4, <2>5, Limits DEF SupervisorInv, Heard
  <2> QED BY <2>3, <2>5
<1> QED BY <1>1, SupervisorInvariant, PTL DEF SupervisorSpec, StalledIsSilent

(***************************************************************************)
(* Part three: Attempt.                                                    *)
(***************************************************************************)

-----------------------------------------------------------------------------

LEMMA NoAgentInv == NoAgent => SupervisorInv
<1> SUFFICES ASSUME NoAgent PROVE SupervisorInv OBVIOUS
<1> USE DEF NoAgent
<1>1. SupervisorValues BY DEF SupervisorValues
<1>2. Clocks BY Limits DEF Clocks
<1>3. Marks BY DEF Marks, Untold
<1>4. Pipe BY Limits DEF Pipe
<1>5. stream \in Streams
  <2>1. 0 \in 0..(Stall + 1) /\ <<>> \in Seq(Tools) /\ 0 \in Nat BY Limits
  <2> QED BY <2>1 DEF Fresh, Streams
<1>6. Gone /\ Drained BY DEF Gone, Drained
<1>7. Heard BY DEF Heard, Fresh
<1>8. Kept BY FreshKept
<1> QED BY <1>1, <1>2, <1>3, <1>4, <1>5, <1>6, <1>7, <1>8 DEF SupervisorInv, Typed

\* Every attempt begins as Supervisor says.
LEMMA StartsInv == Starts => SupervisorInv'
<1>1. Starts => SupervisorInit' BY DEF Starts, SupervisorInit
<1>2. SupervisorInit' => SupervisorInv' BY SupervisorInvInit, PTL
<1> QED BY <1>1, <1>2

LEMMA LoopKilledInv == ASSUME SupervisorInv, LoopKilled PROVE SupervisorInv'
<1> USE DEF LoopKilled, procs, history
<1>1. SupervisorValues' BY DEF SupervisorInv, Typed, SupervisorValues
<1>2. Clocks' BY DEF SupervisorInv, Typed, Clocks
<1>3. Marks' /\ Pipe' /\ stream' \in Streams BY DEF SupervisorInv, Typed, Marks, Pipe
<1>4. Gone' BY DEF SupervisorInv, Gone
<1>5. Heard' BY DEF SupervisorInv, Heard
<1>6. Drained' BY DEF SupervisorInv, Drained, Judged
<1>7. Kept' BY DEF SupervisorInv, Kept, Messaged, Wrote
<1> QED BY <1>1, <1>2, <1>3, <1>4, <1>5, <1>6, <1>7 DEF SupervisorInv, Typed

\* A run() goes on under the eyes of the iteration that called it.
Awaited == pc \notin {"over", "fled"} => at = "agent"

\* An agent that lives is known to run(), and to the iteration.
LEMMA AwaitedAgents == SupervisorInv /\ Awaited => AgentsAreAwaited
BY DEF SupervisorInv, Gone, Awaited, AgentsAreAwaited

LEMMA AwaitedStep == ASSUME SupervisorInv, Awaited, [AttemptNext]_<<vars, supervisorVars>> PROVE Awaited'
<1> USE DEF Awaited
<1>1. CASE Starts BY <1>1 DEF Starts, Begin
<1>2. CASE Works
  <2>1. UNCHANGED <<at, pc>>
    BY <1>2 DEF Works, supervisorVars, Edits, EditsFiles, EditsPlan, WritesHandoff, Compacts, Loop
  <2> QED BY <2>1
<1>3. CASE Returned \/ Fails BY <1>3 DEF Returned, Fails, Raises, ProcessEnds, supervisorVars
<1>4. CASE LoopKilled BY <1>4 DEF LoopKilled
<1>5. CASE Elsewhere
  <2>1. pc' = pc BY <1>5 DEF Elsewhere, supervisorVars
  <2>2. at # "agent" \/ at' = "agent"
    BY <1>5 DEF Elsewhere, ProbeGate, Handoff, Commit, Save, End, OperatorAdds, Resume
  <2> QED BY <2>1, <2>2
<1>6. CASE SupervisorNext /\ UNCHANGED vars
  <2>1. at' = at BY <1>6 DEF vars
  <2>2. pc \in {"over", "fled"} => pc' = pc
    BY <1>6 DEF SupervisorNext, Supervise, Poll, Sleep, Look, Cleanup, Grace, Join, Judge, Reading,
                Read, ReadEnd, World, Signal, AgentExits, Child, Say
  <2> QED BY <2>1, <2>2
<1>7. CASE UNCHANGED <<vars, supervisorVars>> BY <1>7 DEF vars, supervisorVars
<1> QED BY <1>1, <1>2, <1>3, <1>4, <1>5, <1>6, <1>7 DEF AttemptNext

\* Every step of the two is a step of Iteration or of none of its business.
LEMMA IterationStep ==
    ASSUME SupervisorInv, Awaited, [AttemptNext]_<<vars, supervisorVars>>
    PROVE  [Next]_vars
<1>1. CASE Works
  <2>1. at = "agent" BY <1>1, AwaitedAgents DEF Works, AgentsAreAwaited
  <2> QED BY <1>1, <2>1 DEF Works, Agent, Next
<1>2. CASE Starts \/ Returned BY <1>2 DEF Starts, Returned, Next, Iterate
<1>3. CASE Fails \/ LoopKilled BY <1>3 DEF Fails, LoopKilled, Next
<1>4. CASE Elsewhere BY <1>4 DEF Elsewhere, Next, Iterate
<1>5. CASE UNCHANGED vars BY <1>5
<1> QED BY <1>1, <1>2, <1>3, <1>4, <1>5 DEF AttemptNext

LEMMA SupervisorStep ==
    ASSUME SupervisorInv, [AttemptNext]_<<vars, supervisorVars>>
    PROVE  SupervisorInv'
<1>1. CASE Starts BY <1>1, StartsInv
<1>2. CASE LoopKilled BY <1>2, LoopKilledInv
<1>3. CASE SupervisorNext \/ UNCHANGED supervisorVars BY <1>3, SupervisorInvStep
<1> QED BY <1>1, <1>2, <1>3 DEF AttemptNext, Works, Returned, Fails, Elsewhere

LEMMA AttemptInvariant == AttemptSpec => [](SupervisorInv /\ Awaited)
<1>1. AttemptInit => SupervisorInv /\ Awaited
  BY NoAgentInv DEF AttemptInit, NoAgent, Awaited
<1>2. SupervisorInv /\ Awaited /\ [AttemptNext]_<<vars, supervisorVars>> => (SupervisorInv /\ Awaited)'
  BY SupervisorStep, AwaitedStep
<1> QED BY <1>1, <1>2, PTL DEF AttemptSpec

\* Nobody changes the worktree while it is gated and committed: an agent that
\* lives is one that its iteration waits for (pi_runner.py:244-249).
THEOREM AwaitedOnly == AttemptSpec => []AgentsAreAwaited
BY AttemptInvariant, AwaitedAgents, PTL

\* An agent that works for as long as it lives, under run(), is the agent of
\* Iteration, which works while the loop is at it (loop.py:867).
THEOREM IterationImplemented == AttemptSpec => Spec
<1>1. AttemptInit => Init BY DEF AttemptInit
<1>2. SupervisorInv /\ Awaited /\ [AttemptNext]_<<vars, supervisorVars>> => [Next]_vars
  BY IterationStep
<1> QED BY <1>1, <1>2, AttemptInvariant, PTL DEF AttemptSpec, Spec

\* So a subject is its own iteration's, and what is recorded of an agent is the
\* verdict on all it has written, in every iteration of every run, with the exceptions
\* the three name.
THEOREM AttemptsAreWhole == AttemptSpec => [](SubjectIsOwn /\ OutcomeOfTheWhole /\ ReapedWhenOver)
<1>1. SupervisorInv => OutcomeOfTheWhole /\ ReapedWhenOver
  BY WholeOutcome DEF SupervisorInv, Gone, ReapedWhenOver
<1> QED BY <1>1, AttemptInvariant, IterationImplemented, SubjectsAreOwn, PTL

=============================================================================
