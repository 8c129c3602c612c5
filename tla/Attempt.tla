------------------------------ MODULE Attempt -------------------------------
(***************************************************************************)
(* The loop of Iteration with its agent under the Supervisor: iterate()     *)
(* calls pi_runner.run, which starts the agent, and goes on to the gate,   *)
(* the handoff and the commit when run() returns.  Iteration lets an agent *)
(* change plan and worktree while the loop is "at" the agent; here it does *)
(* so for as long as its process lives, and it is run() that sees to it.   *)
(*                                                                         *)
(* An agent that outlives its loop (a kill, a signal in the clean-up: pc   *)
(* is "fled") and a process an agent leaves behind are not followed.       *)
(***************************************************************************)
EXTENDS Iteration, Supervisor

\* No agent has been started yet.
NoAgent ==
    /\ pc = "over" /\ killed = "none" /\ raised = FALSE /\ outcome = "none"
    /\ elapsed = 0 /\ signals = 0
    /\ agent = "gone" /\ child = "none" /\ pipe = <<>>
    /\ reader = "ended" /\ raw = 0 /\ stream = Fresh
    /\ said = 0 /\ flying = 0 /\ silent = 0
    /\ skipped = FALSE /\ shortened = FALSE /\ told = Untold

AttemptInit == Init /\ NoAgent

\* iterate() calls run(), which starts a new agent: the state is SupervisorInit's.
Starts ==
    /\ Begin
    /\ pc' = "poll" /\ killed' = "none" /\ raised' = FALSE /\ outcome' = "none"
    /\ elapsed' = 0 /\ signals' = 0
    /\ agent' = "up" /\ child' = "none" /\ pipe' = <<>>
    /\ reader' = "reading" /\ raw' = 0 /\ stream' = Fresh
    /\ said' = 0 /\ flying' = 0 /\ silent' = 0
    /\ skipped' = FALSE /\ shortened' = FALSE /\ told' = Untold

\* What an agent does to plan, handoff and worktree, wherever the loop is by then
Works == agent # "gone" /\ pc # "fled" /\ Edits /\ UNCHANGED supervisorVars

\* iterate() has the result of run().
Remembered(result) == IF result \in {"thrashing", "interrupted"} THEN result ELSE "ok"

Returned ==
    /\ pc = "over" /\ ~raised
    /\ AgentEnds /\ last' = Remembered(outcome)
    /\ UNCHANGED supervisorVars

\* What run() raises iterate() does not catch, nor what is raised after it.
Fails ==
    /\ at = "agent" => pc \in {"over", "fled"}
    /\ Raises /\ UNCHANGED supervisorVars

\* A kill of the loop leaves its agent, which has a session of its own.
LoopKilled ==
    /\ Killed /\ pc' = IF pc = "over" THEN pc ELSE "fled"
    /\ UNCHANGED <<killed, raised, outcome, elapsed, signals, procs, silent>>

Elsewhere ==
    /\ ProbeGate \/ Handoff \/ Commit \/ Save \/ End \/ OperatorAdds \/ Resume
    /\ UNCHANGED supervisorVars

AttemptNext ==
    \/ Starts \/ Works \/ Returned \/ Fails \/ LoopKilled \/ Elsewhere
    \/ SupervisorNext /\ UNCHANGED vars

AttemptSpec == AttemptInit /\ [][AttemptNext]_<<vars, supervisorVars>>

-----------------------------------------------------------------------------

\* While the gate runs and the work is committed nobody changes it: an agent that
\* lives is one the loop is waiting for (pi_runner.py:244-249, loop.py:867-931).
AgentsAreAwaited == agent # "gone" /\ pc # "fled" => at = "agent"

=============================================================================
