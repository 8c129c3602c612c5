----------------------------- MODULE Supervisor -----------------------------
(***************************************************************************)
(* One iteration under pi_runner.run: the agent process, what it started,  *)
(* the pipe its events come through, the reader thread that folds them     *)
(* into _Stream (runner_stream.py), and the supervisor that looks at       *)
(* _Stream between two sleeps, cuts the agent short and says afterwards     *)
(* what the iteration was.                                                  *)
(*                                                                         *)
(* One sleep of POLL_SECONDS is one tick of every clock.                   *)
(***************************************************************************)
EXTENDS Integers, SequencesExt

CONSTANTS
    Timeout, ToolLimit, Stall,   \* timeout_seconds, tool_seconds, stall_seconds, in sleeps
    MaxCompactions, MaxRepeats,  \* 0 switches the limit off, as it does tool_seconds
    RawCeiling,                  \* RAW_STREAM_CEILING, in events
    ReportsToolEnds,             \* Agent.reports_tool_ends
    MaxSaid, MaxPipe, MaxSignals \* bounds: events of the agent, room in the pipe, signals

ASSUME LimitAssumption ==
    /\ {Timeout, ToolLimit, Stall, MaxCompactions, MaxRepeats} \subseteq Nat
    /\ {RawCeiling, MaxSaid, MaxPipe, MaxSignals} \subseteq Nat
    /\ ReportsToolEnds \in BOOLEAN

VARIABLES
    pc,        \* where run() is
    killed,    \* why the agent is cut short, "none" while it is not
    raised,    \* a KeyboardInterrupt is on its way out
    outcome,   \* IterationResult.outcome
    elapsed,   \* now - started
    signals,   \* requests to stop so far, see Signal
    agent,     \* the agent process
    child,     \* a process the agent started: same group, same stdout
    pipe,      \* written by the agent, not yet read
    reader,    \* the stdout thread
    raw,       \* raw_written
    stream,    \* _Stream
    said,      \* how much the agent has written
    flying,    \* tool calls announced and not ended
    silent,    \* history: sleeps since the reader last took a byte
    skipped,   \* history: the reader threw an event away, past the ceiling
    shortened, \* history: a line too long for the buffer lost its event
    told       \* history: what all that the agent has written makes of its outcome

history == <<skipped, shortened, told>>
supervisorVars == <<pc, killed, raised, outcome, elapsed, signals, agent, child,
          pipe, reader, raw, stream, said, flying, silent, history>>
procs == <<agent, child, pipe, reader, raw, stream, said, flying, history>>

-----------------------------------------------------------------------------
(* Events. *)

Tools == {"read", "edit"}                  \* a call; edit changes the state
Messages == {"stop", "error", "length"}    \* a message end, by its stop_reason
Events == Tools \cup Messages \cup {"tool_end", "compaction", "bytes"}

\* Agent.activity: the lines that prove a model is answering
Active(e) == e \in Tools \cup Messages \cup {"tool_end"}

NoTool == -1

Fresh == [first |-> FALSE, quiet |-> 0, tool |-> NoTool, calls |-> <<>>,
          compactions |-> 0, reason |-> "none"]

\* Nothing has been written yet.
Untold == [reason |-> "none", called |-> FALSE, wrote |-> FALSE]

Wrote(s) == \E i \in DOMAIN s.calls : s.calls[i] = "edit"

\* Mutant: only what proves a model is answering restarts the stall clock.
NoteActivity(s, e) == IF Active(e) THEN [s EXCEPT !.quiet = 0, !.first = TRUE] ELSE s

\* note_output, note_activity
Note(s, e) == [s EXCEPT !.quiet = 0, !.first = @ \/ Active(e)]

Handle(s, e) ==
    CASE e \in Tools -> [s EXCEPT !.calls = Append(@, e),
                                  !.tool = IF ReportsToolEnds THEN 0 ELSE @]
      [] e = "tool_end" -> [s EXCEPT !.tool = NoTool]
      [] e = "compaction" -> [s EXCEPT !.compactions = @ + 1]
      [] e \in Messages -> [s EXCEPT !.reason = e]
      [] e = "bytes" -> s

\* policy.repeating_call: the newest call, `limit` times since the last other
\* call that changed the state.
Repeating(calls, limit) ==
    LET n == Len(calls)
        moved(i) == \E j \in i..n : calls[j] = "edit" /\ calls[n] # "edit"
    IN  /\ limit >= 2
        /\ Cardinality({i \in 1..n : calls[i] = calls[n] /\ ~moved(i)}) >= limit

-----------------------------------------------------------------------------
(* What the supervisor decides. *)

\* Every look, in this order; the first that holds cuts the agent short.
Looks(s) ==
    << [cut |-> "timeout", holds |-> elapsed > Timeout],
       [cut |-> "tool-timeout", holds |-> ToolLimit > 0 /\ s.tool > ToolLimit],
       [cut |-> "stalled", holds |-> s.first /\ s.quiet > Stall],
       [cut |-> "thrashing",
        holds |-> MaxCompactions > 0 /\ s.compactions >= MaxCompactions /\ ~Wrote(s)],
       [cut |-> "looping", holds |-> Repeating(s.calls, MaxRepeats)],
       [cut |-> "stopped", holds |-> signals > 0] >>

First(looks) ==
    IF \E i \in DOMAIN looks : looks[i].holds
    THEN looks[CHOOSE i \in DOMAIN looks :
                  looks[i].holds /\ \A j \in 1..(i - 1) : ~looks[j].holds].cut
    ELSE "none"

Verdict(reason, called, wrote) ==
    IF reason \in {"error", "none"} THEN "agent-error"
    ELSE IF reason = "length" /\ ~wrote THEN "truncated"
    ELSE IF ~called THEN "no-action"
    ELSE "ok"

Judged(s) ==
    IF killed # "none" THEN (IF killed = "stopped" THEN "interrupted" ELSE killed)
    ELSE Verdict(s.reason, s.calls # <<>>, Wrote(s))

-----------------------------------------------------------------------------

SupervisorInit ==
    /\ pc = "poll" /\ killed = "none" /\ raised = FALSE /\ outcome = "none"
    /\ elapsed = 0 /\ signals = 0
    /\ agent = "up" /\ child = "none" /\ pipe = <<>>
    /\ reader = "reading" /\ raw = 0 /\ stream = Fresh
    /\ said = 0 /\ flying = 0 /\ silent = 0
    /\ skipped = FALSE /\ shortened = FALSE /\ told = Untold

\* while process.poll() is None
Poll ==
    /\ pc = "poll"
    /\ pc' = IF agent = "gone" THEN "cleanup" ELSE "sleep"
    /\ UNCHANGED <<killed, raised, outcome, elapsed, signals, procs, silent>>

\* time.sleep(POLL_SECONDS): every clock goes on, each only as far as it matters
Sleep ==
    LET older(age, limit) == IF age > limit THEN age ELSE age + 1
    IN  /\ pc = "sleep" /\ pc' = "look"
        /\ elapsed' = older(elapsed, Timeout)
        /\ silent' = older(silent, Stall)
        /\ stream' = [stream EXCEPT
              !.quiet = older(@, Stall),
              !.tool = IF @ = NoTool THEN @ ELSE older(@, ToolLimit)]
        /\ UNCHANGED <<killed, raised, outcome, signals, agent, child, pipe,
                       reader, raw, said, flying, history>>

\* The snapshot under the lock and the chain of tests on it
Look ==
    /\ pc = "look"
    /\ killed' = First(Looks(stream))
    /\ pc' = IF killed' = "none" THEN "poll" ELSE "cleanup"
    /\ UNCHANGED <<raised, outcome, elapsed, signals, procs, silent>>

\* The finally block, and process.wait() after it: where control goes when the
\* agent is known to be gone.
Reaped == IF raised THEN "over" ELSE "join"

\* Mutant: the agent is terminated where it is cut, not on every way out.
CleanupCutOnly ==
    /\ pc = "cleanup"
    /\ IF agent = "gone" \/ raised
       THEN pc' = Reaped /\ UNCHANGED <<agent, child>>
       ELSE /\ pc' = "grace" /\ agent' = "dying"
            /\ child' \in IF child = "up" THEN {"up", "gone"} ELSE {child}
    /\ UNCHANGED <<killed, raised, outcome, elapsed, signals, pipe, reader,
                   raw, stream, said, flying, silent, history>>

\* finally: the group is told to end, unless the agent has ended by itself
Cleanup ==
    /\ pc = "cleanup"
    /\ IF agent = "gone"
       THEN pc' = Reaped /\ UNCHANGED <<agent, child>>
       ELSE /\ pc' = "grace" /\ agent' = "dying"
            /\ child' \in IF child = "up" THEN {"up", "gone"} ELSE {child}
    /\ UNCHANGED <<killed, raised, outcome, elapsed, signals, pipe, reader,
                   raw, stream, said, flying, silent, history>>

\* _terminate: SIGTERM was enough, or the grace is over and SIGKILL ends the group
Grace ==
    /\ pc = "grace" /\ pc' = Reaped
    /\ \/ agent = "gone" /\ UNCHANGED <<agent, child>>
       \/ agent = "dying" /\ agent' = "gone" /\ child' = IF child = "up" THEN "gone" ELSE child
    /\ UNCHANGED <<killed, raised, outcome, elapsed, signals, pipe, reader,
                   raw, stream, said, flying, silent, history>>

\* Mutant: join() without a timeout.
JoinForever ==
    /\ pc = "join" /\ pc' = "judge"
    /\ reader = "ended"
    /\ UNCHANGED <<killed, raised, outcome, elapsed, signals, procs, silent>>

\* Mutant: the outcome is taken as soon as the agent is gone.
JoinNobody ==
    /\ pc = "join" /\ pc' = "judge"
    /\ UNCHANGED <<killed, raised, outcome, elapsed, signals, procs, silent>>

\* thread.join(timeout=10): the end of the stream, or ten seconds in which the
\* reader has taken what there is, while a process of the agent's holds the pipe.
Join ==
    /\ pc = "join" /\ pc' = "judge"
    /\ reader = "ended" \/ (pipe = <<>> /\ child = "up")
    /\ UNCHANGED <<killed, raised, outcome, elapsed, signals, procs, silent>>

Judge ==
    /\ pc = "judge" /\ pc' = "over"
    /\ outcome' = Judged(stream)
    /\ UNCHANGED <<killed, raised, elapsed, signals, procs, silent>>

\* Run._on_interrupt: the first request to stop is remembered for should_stop(),
\* as STOP-NOW and PAUSE are; every other signal raises in the supervising
\* thread: inside the try the finally block still runs, in it or after it
\* nothing does.
Signal ==
    /\ signals < MaxSignals /\ pc \notin {"over", "fled"}
    /\ signals' = signals + 1
    /\ raised' = (signals > 0)
    /\ pc' = CASE signals = 0 -> pc
               [] signals > 0 /\ pc \in {"poll", "sleep", "look"} -> "cleanup"
               [] signals > 0 /\ pc \notin {"poll", "sleep", "look"} -> "fled"
    /\ UNCHANGED <<killed, outcome, elapsed, procs, silent>>

-----------------------------------------------------------------------------
(* The reader thread. *)

\* Mutant: one event more than the ceiling allows.
ReadOneMore ==
    LET e == Head(pipe)
    IN  /\ reader = "reading" /\ pipe # <<>>
        /\ pipe' = Tail(pipe) /\ silent' = 0
        /\ \/ /\ raw <= RawCeiling /\ raw' = raw + 1
              /\ \/ stream' = Handle(Note(stream, e), e) /\ UNCHANGED shortened
                 \/ /\ e # "bytes" /\ shortened' = TRUE
                    /\ stream' \in {Note(stream, e), Note(stream, "bytes")}
              /\ UNCHANGED skipped
           \/ ~(raw <= RawCeiling) /\ skipped' = TRUE /\ UNCHANGED <<raw, stream, shortened>>
        /\ UNCHANGED <<pc, killed, raised, outcome, elapsed, signals, agent, child,
                       reader, said, flying, told>>

\* A line that fills the buffer past LINE_BUFFER_CEILING loses its front: it is no
\* event any more, and perhaps no activity.  Past the ceiling of the raw stream the
\* pipe is still emptied, and nothing else is done with it.
Read ==
    LET e == Head(pipe)
    IN  /\ reader = "reading" /\ pipe # <<>>
        /\ pipe' = Tail(pipe) /\ silent' = 0
        /\ \/ /\ raw < RawCeiling /\ raw' = raw + 1
              /\ \/ stream' = Handle(Note(stream, e), e) /\ UNCHANGED shortened
                 \/ /\ e # "bytes" /\ shortened' = TRUE
                    /\ stream' \in {Note(stream, e), Note(stream, "bytes")}
              /\ UNCHANGED skipped
           \/ ~(raw < RawCeiling) /\ skipped' = TRUE /\ UNCHANGED <<raw, stream, shortened>>
        /\ UNCHANGED <<pc, killed, raised, outcome, elapsed, signals, agent, child,
                       reader, said, flying, told>>

\* Nobody has the other end of the pipe any more.
ReadEnd ==
    /\ reader = "reading" /\ pipe = <<>> /\ agent = "gone" /\ child # "up"
    /\ reader' = "ended"
    /\ UNCHANGED <<pc, killed, raised, outcome, elapsed, signals, agent, child,
                   pipe, raw, stream, said, flying, silent, history>>

-----------------------------------------------------------------------------
(* The agent. *)

\* A call may run beside another; one that has been announced may end. What an
\* agent says after run() has been left is not followed.
Say(e) ==
    /\ agent # "gone" /\ pc # "fled" /\ said < MaxSaid /\ Len(pipe) < MaxPipe
    /\ e = "tool_end" => flying > 0
    /\ said' = said + 1 /\ pipe' = Append(pipe, e)
    /\ told' = [reason |-> IF e \in Messages THEN e ELSE told.reason,
                called |-> told.called \/ e \in Tools, wrote |-> told.wrote \/ e = "edit"]
    /\ flying' = CASE e \in Tools -> flying + 1
                   [] e = "tool_end" -> flying - 1
                   [] OTHER -> flying
    /\ UNCHANGED <<pc, killed, raised, outcome, elapsed, signals, agent, child,
                   reader, raw, stream, silent, skipped, shortened>>

AgentExits ==
    /\ agent # "gone" /\ agent' = "gone"
    /\ UNCHANGED <<pc, killed, raised, outcome, elapsed, signals, child, pipe,
                   reader, raw, stream, said, flying, silent, history>>

\* What a tool call leaves running, and its end
Child ==
    /\ \/ agent = "up" /\ child = "none" /\ flying > 0 /\ child' = "up"
       \/ child = "up" /\ child' = "gone"
    /\ pc \notin {"over", "fled"}
    /\ UNCHANGED <<pc, killed, raised, outcome, elapsed, signals, agent, pipe,
                   reader, raw, stream, said, flying, silent, history>>

Supervise == Poll \/ Sleep \/ Look \/ Cleanup \/ Grace \/ Join \/ Judge
Reading == Read \/ ReadEnd
World == Signal \/ AgentExits \/ Child \/ \E e \in Events : Say(e)

SupervisorNext == Supervise \/ Reading \/ World

SupervisorSpec == SupervisorInit /\ [][SupervisorNext]_supervisorVars

\* The two threads of the program run; nothing is assumed of the agent, of what
\* it started, or of the operator.
FairSpec == SupervisorSpec /\ WF_supervisorVars(Supervise) /\ WF_supervisorVars(Reading)

-----------------------------------------------------------------------------

Cuts == {"timeout", "tool-timeout", "stalled", "thrashing", "looping"}

Streams ==
    [first : BOOLEAN, quiet : 0..(Stall + 1), tool : {NoTool} \cup 0..(ToolLimit + 1),
     calls : Seq(Tools), compactions : Nat, reason : Messages \cup {"none"}]

SupervisorTypeOK ==
    /\ pc \in {"poll", "sleep", "look", "cleanup", "grace", "join", "judge", "over", "fled"}
    /\ killed \in Cuts \cup {"none", "stopped"}
    /\ outcome \in Cuts \cup {"none", "interrupted", "agent-error", "truncated", "no-action", "ok"}
    /\ elapsed \in 0..(Timeout + 1) /\ silent \in 0..(Stall + 1)
    /\ {raised, skipped, shortened} \subseteq BOOLEAN
    /\ told \in [reason : Messages \cup {"none"}, called : BOOLEAN, wrote : BOOLEAN]
    /\ signals \in 0..MaxSignals
    /\ agent \in {"up", "dying", "gone"} /\ child \in {"none", "up", "gone"}
    /\ pipe \in Seq(Events) /\ Len(pipe) <= MaxPipe
    /\ reader \in {"reading", "ended"} /\ raw \in 0..RawCeiling
    /\ stream \in Streams
    /\ said \in 0..MaxSaid /\ flying \in 0..MaxSaid

\* When run() is over, by a result or by a signal that interrupted its loop, the
\* agent is gone: nothing goes on writing to the worktree that is gated and
\* committed next (pi_runner.py:244-249).
ReapedWhenOver == pc = "over" => agent = "gone"

\* The same for a signal that arrives in the clean-up itself, as
\* pi_runner.py:245-247 has it: "reaped on every exit path".
ReapedOnEveryPath == pc \in {"over", "fled"} => agent = "gone"

\* An agent is called stalled after it has been heard, and when nothing at all
\* has been read from it for stall_seconds, or it has talked past the ceiling of
\* the raw stream, where the reader stops telling the time.
StalledIsSilent ==
    [][killed # "stalled" /\ killed' = "stalled" =>
          stream.first /\ (silent > Stall \/ skipped)]_supervisorVars

\* The same without the exception: "Any byte from pi. Keeps the stall clock fresh
\* once it is running" (runner_stream.py:173).
AnyByteIsFresh ==
    [][killed # "stalled" /\ killed' = "stalled" => silent > Stall]_supervisorVars

\* What is recorded of an agent that was let finish is what all it has written
\* says, whatever was still in the pipe when it ended (pi_runner.py:249-302):
\* unless the reader gave up at the ceiling of the raw stream, or a line was too
\* long for its buffer.
OutcomeOfTheWhole ==
    outcome # "none" /\ killed = "none" /\ ~skipped /\ ~shortened =>
        outcome = Verdict(told.reason, told.called, told.wrote)

\* "we still read the pipe to exhaustion ... but we stop writing once the ceiling is
\* reached" (runner_stream.py:233-235): what is read counts, without the exceptions.
\* TLC refutes it.
OutcomeOfEverything ==
    outcome # "none" /\ killed = "none" => outcome = Verdict(told.reason, told.called, told.wrote)

\* Supervision comes to an end, with an agent that hangs, ignores SIGTERM or
\* leaves a process behind that keeps its stdout open.
Returns == <>(pc \in {"over", "fled"})

=============================================================================
