---------------------------- MODULE RunLoop_proofs ----------------------------
(***************************************************************************)
(* Theorems about RunLoop, for every configuration, every plan and any     *)
(* number of processes, outages, pauses, stops and kills: the bounds of a  *)
(* run hold over all of its processes, and no iteration is skipped or run  *)
(* again.                                                                  *)
(***************************************************************************)
EXTENDS RunLoop, TLAPS

-----------------------------------------------------------------------------
(* Every variable is well typed.  Numbers and flags are two lemmas, since   *)
(* no prover is good at both.                                               *)

Values ==
  /\ stop \in {"none", "stop", "now", "signal"}
  /\ plan \in [done : Nat, total : Nat] /\ plan.done <= plan.total
  /\ saved \in [streak : Nat, ceiling : Nat, pending : Nat, session : Nat, round : Nat]
  /\ ended \in Nat /\ reason \in Reasons
  /\ pc \in Stages
  /\ num \in Nat /\ (pc = "off" <=> num = 0)
  /\ floor \in Nat /\ ceiling \in Nat /\ streak \in Nat /\ pending \in Nat
  /\ session \in Nat /\ round \in Nat /\ errors \in Nat
  /\ left \in Nat
  /\ begun \in [work : Nat, review : Nat] /\ bought \in Nat /\ grown \in Nat
  /\ starts \in Nat /\ owed \in Nat /\ known \in {"memory", "disk", "lost"} /\ settled \in Nat
  /\ barren \in Nat /\ rounds \in Nat

Tries ==
  [outcome : {"none", "ok", "interrupted", "failed", "transport", "provider"},
   commit : BOOLEAN, resumed : BOOLEAN, moved : BOOLEAN]

Tried == try \in Tries

Flags ==
  pause \in BOOLEAN /\ dirty \in BOOLEAN /\ fresh \in BOOLEAN /\ asked \in BOOLEAN
  /\ worked \in BOOLEAN

LEMMA TypeParts == TypeOK <=> Values /\ Tried /\ Flags
BY DEF TypeOK, Values, Tries, Tried, Flags

LEMMA NothingTried == Nothing \in Tries
BY DEF Nothing, Tries

LEMMA TypeInit == Init => TypeOK
<1> SUFFICES ASSUME Init PROVE TypeOK OBVIOUS
<1>1. Values BY LoopAssumption DEF Init, Values, Stages, Reasons
<1>2. Tried BY NothingTried DEF Init, Tries, Tried
<1>3. Flags BY DEF Init, Flags
<1> QED BY <1>1, <1>2, <1>3, TypeParts

LEMMA HeadValues == ASSUME Values, Head PROVE Values'
<1> USE LoopAssumption DEF Values, Stages, Reasons, counters, reviewing, history, files, Finish, Again, Save, Begins
<1>1. Raised \in Nat BY DEF Raised, Wanted, Max2
<1>2. CASE Boundary BY <1>2 DEF Boundary
<1>3. CASE StopAsked BY <1>3, <1>1 DEF StopAsked, Deciding
<1>4. CASE ReviewSpent BY <1>4, <1>1 DEF ReviewSpent, Deciding
<1>5. CASE ReviewBegins BY <1>5, <1>1 DEF ReviewBegins, Deciding
<1>6. CASE TurnsSpent BY <1>6, <1>1 DEF TurnsSpent, Deciding
<1>7. CASE NoDiff BY <1>7, <1>1 DEF NoDiff, Deciding
<1>8. CASE IterationDue BY <1>8, <1>1 DEF IterationDue, Deciding
<1> QED BY <1>2, <1>3, <1>4, <1>5, <1>6, <1>7, <1>8 DEF Head

LEMMA ReviewValues == ASSUME Values, Review PROVE Values'
<1> USE LoopAssumption DEF Values, Stages, Reasons, counters, reviewing, history, files, Finish, Again, Save, Begins
<1>1. CASE ReviewUnreachable BY <1>1 DEF ReviewUnreachable
<1>2. CASE RoundOver BY <1>2 DEF RoundOver
<1>3. ASSUME NEW approves \in BOOLEAN, Reviewed(approves) PROVE Values' BY <1>3 DEF Reviewed
<1> QED BY <1>1, <1>2, <1>3 DEF Review

LEMMA IterateValues == ASSUME Values, Iterate PROVE Values'
<1> USE LoopAssumption DEF Values, Stages, Reasons, counters, reviewing, history, files, Finish, Again, Save, Begins
<1>1. CASE PreflightFails BY <1>1 DEF PreflightFails
<1>2. CASE AgentStarts BY <1>2 DEF AgentStarts
<1>3. CASE AgentEnds
  <2>1. PICK p \in Edits, moved \in BOOLEAN :
          plan' = p /\ barren' = IF moved THEN 0 ELSE barren
    BY <1>3 DEF AgentEnds
  <2>2. /\ pc' = "commit" /\ num' = num /\ pc = "work" /\ session' \in {session, num}
        /\ UNCHANGED <<stop, begun, ended, reason, left, bought, grown, starts, owed, known,
                       settled, rounds, floor, ceiling, streak, pending, round, errors>>
        /\ \/ UNCHANGED saved
           \/ saved' = [streak |-> streak', ceiling |-> ceiling', pending |-> pending',
                        session |-> session', round |-> round']
    BY <1>3 DEF AgentEnds
  <2>3. p \in [done : Nat, total : Nat] /\ p.done <= p.total BY DEF Edits
  <2> QED BY <2>1, <2>2, <2>3
<1>4. CASE Commit BY <1>4 DEF Commit
<1>5. CASE Record BY <1>5 DEF Record, Streak
<1>6. CASE RecordEnd BY <1>6 DEF RecordEnd, Max2
<1> QED BY <1>1, <1>2, <1>3, <1>4, <1>5, <1>6 DEF Iterate

LEMMA AfterValues == ASSUME Values, After PROVE Values'
<1> USE LoopAssumption DEF Values, Stages, Reasons, counters, reviewing, history, files, Finish, Again, Save, Begins
<1>1. CASE HoldIteration BY <1>1 DEF HoldIteration
<1>2. CASE HeldOver BY <1>2 DEF HeldOver
<1>3. CASE FreshRetry BY <1>3 DEF FreshRetry
<1>4. CASE ProviderLost BY <1>4 DEF ProviderLost, WaitForServer, Max2
<1>5. CASE Counts BY <1>5 DEF Counts
<1>6. CASE Checks
  <2>1. begun' \in [work : Nat, review : Nat]
    <3>1. UNCHANGED begun \/ begun' = IF pause THEN [begun EXCEPT !.review = @ + 1] ELSE begun
      BY <1>6 DEF Checks
    <3>2. CASE begun' = begun BY <3>2
    <3>3. CASE begun' = [begun EXCEPT !.review = @ + 1] BY <3>3
    <3> QED BY <3>1, <3>2, <3>3
  <2>2. plan' \in [done : Nat, total : Nat] /\ plan'.done <= plan'.total
    <3>1. CASE plan' = plan BY <3>1
    <3>2. CASE plan' = [plan EXCEPT !.total = @ + 1] BY <3>2
    <3> QED BY <1>6, <3>1, <3>2 DEF Checks
  <2>3. /\ pc = "checks" /\ pc' \in {"backoff", "boundary"}
        /\ num' \in {num, num + 1} /\ settled' \in {settled, num}
        /\ UNCHANGED <<stop, saved, ended, reason, floor, ceiling, streak, pending, session, round,
                       errors, left, bought, grown, starts, owed, known, barren, rounds>>
    BY <1>6 DEF Checks, Max2
  <2> QED BY <2>1, <2>2, <2>3
<1>7. CASE BackoffAbsent BY <1>7 DEF BackoffAbsent, WaitForServer
<1>8. CASE BackoffFailing BY <1>8 DEF BackoffFailing
<1>9. CASE SleepOver BY <1>9 DEF SleepOver
<1>10. CASE ServerOver BY <1>10 DEF ServerOver, AfterWait
<1>11. CASE Finalise BY <1>11 DEF Finalise, Gone
<1> QED BY <1>1, <1>2, <1>3, <1>4, <1>5, <1>6, <1>7, <1>8, <1>9, <1>10, <1>11 DEF After

Outside == WallClock \/ Resume \/ Crash \/ Pause \/ AskStop \/ Signal

LEMMA OutsideValues == ASSUME Values, Outside PROVE Values'
<1> USE LoopAssumption DEF Values, Stages, Reasons, counters, reviewing, history, files, Finish, Again, Save, Begins
<1>1. CASE WallClock BY <1>1 DEF WallClock, Deciding, Raised, Wanted, Max2
<1>2. CASE Resume BY <1>2 DEF Resume, Done, BareExtra, Buys, Carried, Max2, Min2
<1>3. CASE Crash BY <1>3 DEF Crash, Gone
<1>4. CASE Pause BY <1>4 DEF Pause
<1>5. CASE AskStop BY <1>5 DEF AskStop
<1>6. CASE Signal BY <1>6 DEF Signal
<1> QED BY <1>1, <1>2, <1>3, <1>4, <1>5, <1>6 DEF Outside

LEMMA FlagsStep == ASSUME Tried, Flags, Next PROVE Tried' /\ Flags'
<1> USE DEF Flags, counters, reviewing, history, files, Again
<1>0. ASSUME try' \in {try, Nothing} PROVE Tried' BY <1>0, NothingTried DEF Tried
<1>1. CASE Boundary
  <2>1. try' \in {try, Nothing} BY <1>1 DEF Boundary
  <2>2. Flags' BY <1>1 DEF Boundary
  <2> QED BY <2>1, <2>2, <1>0
<1>2. CASE StopAsked
  <2>1. try' \in {try, Nothing} BY <1>2 DEF StopAsked, Deciding
  <2>2. Flags' BY <1>2 DEF StopAsked, Deciding
  <2> QED BY <2>1, <2>2, <1>0
<1>3. CASE ReviewSpent
  <2>1. try' \in {try, Nothing} BY <1>3 DEF ReviewSpent, Deciding
  <2>2. Flags' BY <1>3 DEF ReviewSpent, Deciding
  <2> QED BY <2>1, <2>2, <1>0
<1>4. CASE ReviewBegins
  <2>1. try' \in {try, Nothing} BY <1>4 DEF ReviewBegins, Deciding
  <2>2. Flags' BY <1>4 DEF ReviewBegins, Deciding
  <2> QED BY <2>1, <2>2, <1>0
<1>5. CASE TurnsSpent
  <2>1. try' \in {try, Nothing} BY <1>5 DEF TurnsSpent, Deciding
  <2>2. Flags' BY <1>5 DEF TurnsSpent, Deciding
  <2> QED BY <2>1, <2>2, <1>0
<1>6. CASE NoDiff
  <2>1. try' \in {try, Nothing} BY <1>6 DEF NoDiff, Deciding
  <2>2. Flags' BY <1>6 DEF NoDiff, Deciding
  <2> QED BY <2>1, <2>2, <1>0
<1>7. CASE IterationDue
  <2>1. try' \in {try, Nothing} BY <1>7 DEF IterationDue, Deciding
  <2>2. Flags' BY <1>7 DEF IterationDue, Deciding
  <2> QED BY <2>1, <2>2, <1>0
<1>8. CASE ReviewUnreachable
  <2>1. try' \in {try, Nothing} BY <1>8 DEF ReviewUnreachable
  <2>2. Flags' BY <1>8 DEF ReviewUnreachable
  <2> QED BY <2>1, <2>2, <1>0
<1>9. CASE RoundOver
  <2>1. try' \in {try, Nothing} BY <1>9 DEF RoundOver
  <2>2. Flags' BY <1>9 DEF RoundOver
  <2> QED BY <2>1, <2>2, <1>0
<1>10. ASSUME NEW approves \in BOOLEAN, Reviewed(approves) PROVE Tried' /\ Flags'
  BY <1>10 DEF Reviewed, Tries, Tried
<1>11. CASE PreflightFails
  <2>1. try' \in {try, Nothing} BY <1>11 DEF PreflightFails
  <2>2. Flags' BY <1>11 DEF PreflightFails
  <2> QED BY <2>1, <2>2, <1>0
<1>12. CASE AgentStarts
  <2>1. PICK readable \in BOOLEAN :
          try' = [Nothing EXCEPT !.resumed = session # 0 /\ readable]
    BY <1>12 DEF AgentStarts
  <2>2. Tried' BY <2>1, NothingTried DEF Tries, Tried
  <2>3. Flags' BY <1>12 DEF AgentStarts
  <2> QED BY <2>2, <2>3
<1>13. CASE AgentEnds
  <2>0. PICK outcome \in Outcomes, moved \in BOOLEAN :
          /\ \E told \in Classified(outcome) :
               try' = [try EXCEPT !.outcome = told, !.moved = moved, !.resumed = FALSE]
          /\ dirty' = (dirty \/ moved)
    BY <1>13 DEF AgentEnds
  <2>9. Classified(outcome) \subseteq {"ok", "interrupted", "failed", "transport", "provider"}
    BY DEF Outcomes, Classified
  <2>1. PICK told \in {"ok", "interrupted", "failed", "transport", "provider"} :
          try' = [try EXCEPT !.outcome = told, !.moved = moved, !.resumed = FALSE]
    BY <2>0, <2>9
  <2>2. Tried' BY <2>1 DEF Tries, Tried
  <2>3. Flags' BY <1>13, <2>0 DEF AgentEnds
  <2> QED BY <2>2, <2>3
<1>14. CASE Commit BY <1>14 DEF Commit, Tries, Tried
<1>15. CASE Record BY <1>15 DEF Record, Tries, Tried
<1>16. CASE RecordEnd
  <2>1. try' \in {try, Nothing} BY <1>16 DEF RecordEnd
  <2>2. Flags' BY <1>16 DEF RecordEnd
  <2> QED BY <2>1, <2>2, <1>0
<1>17. CASE HoldIteration
  <2>1. try' \in {try, Nothing} BY <1>17 DEF HoldIteration
  <2>2. Flags' BY <1>17 DEF HoldIteration
  <2> QED BY <2>1, <2>2, <1>0
<1>18. CASE HeldOver
  <2>1. try' \in {try, Nothing} BY <1>18 DEF HeldOver
  <2>2. Flags' BY <1>18 DEF HeldOver
  <2> QED BY <2>1, <2>2, <1>0
<1>19. CASE FreshRetry
  <2>1. try' \in {try, Nothing} BY <1>19 DEF FreshRetry
  <2>2. Flags' BY <1>19 DEF FreshRetry
  <2> QED BY <2>1, <2>2, <1>0
<1>20. CASE ProviderLost
  <2>1. try' \in {try, Nothing} BY <1>20 DEF ProviderLost, WaitForServer
  <2>2. Flags' BY <1>20 DEF ProviderLost, WaitForServer
  <2> QED BY <2>1, <2>2, <1>0
<1>21. CASE Counts
  <2>1. try' \in {try, Nothing} BY <1>21 DEF Counts
  <2>2. Flags' BY <1>21 DEF Counts
  <2> QED BY <2>1, <2>2, <1>0
<1>22. CASE Checks
  <2>1. try' \in {try, Nothing} BY <1>22 DEF Checks
  <2>2. Flags' BY <1>22 DEF Checks
  <2> QED BY <2>1, <2>2, <1>0
<1>23. CASE BackoffAbsent
  <2>1. try' \in {try, Nothing} BY <1>23 DEF BackoffAbsent, WaitForServer
  <2>2. Flags' BY <1>23 DEF BackoffAbsent, WaitForServer
  <2> QED BY <2>1, <2>2, <1>0
<1>24. CASE BackoffFailing
  <2>1. try' \in {try, Nothing} BY <1>24 DEF BackoffFailing
  <2>2. Flags' BY <1>24 DEF BackoffFailing
  <2> QED BY <2>1, <2>2, <1>0
<1>25. CASE SleepOver
  <2>1. try' \in {try, Nothing} BY <1>25 DEF SleepOver
  <2>2. Flags' BY <1>25 DEF SleepOver
  <2> QED BY <2>1, <2>2, <1>0
<1>26. CASE ServerOver
  <2>1. try' \in {try, Nothing} BY <1>26 DEF ServerOver
  <2>2. Flags' BY <1>26 DEF ServerOver
  <2> QED BY <2>1, <2>2, <1>0
<1>27. CASE Finalise
  <2>1. try' \in {try, Nothing} BY <1>27 DEF Finalise, Gone
  <2>2. Flags' BY <1>27 DEF Finalise, Gone
  <2> QED BY <2>1, <2>2, <1>0
<1>28. CASE WallClock
  <2>1. try' \in {try, Nothing} BY <1>28 DEF WallClock, Deciding
  <2>2. Flags' BY <1>28 DEF WallClock, Deciding
  <2> QED BY <2>1, <2>2, <1>0
<1>29. CASE Resume
  <2>1. try' \in {try, Nothing} BY <1>29 DEF Resume
  <2>2. Flags' BY <1>29 DEF Resume
  <2> QED BY <2>1, <2>2, <1>0
<1>30. CASE Crash
  <2>1. try' \in {try, Nothing} BY <1>30 DEF Crash, Gone
  <2>2. Flags' BY <1>30 DEF Crash, Gone
  <2> QED BY <2>1, <2>2, <1>0
<1>31. CASE Pause
  <2>1. try' \in {try, Nothing} BY <1>31 DEF Pause
  <2>2. Flags' BY <1>31 DEF Pause
  <2> QED BY <2>1, <2>2, <1>0
<1>32. CASE AskStop
  <2>1. try' \in {try, Nothing} BY <1>32 DEF AskStop
  <2>2. Flags' BY <1>32 DEF AskStop
  <2> QED BY <2>1, <2>2, <1>0
<1>33. CASE Signal
  <2>1. try' \in {try, Nothing} BY <1>33 DEF Signal
  <2>2. Flags' BY <1>33 DEF Signal
  <2> QED BY <2>1, <2>2, <1>0
<1> QED
  BY <1>1, <1>2, <1>3, <1>4, <1>5, <1>6, <1>7, <1>8, <1>9, <1>10, <1>11, <1>12, <1>13, <1>14,
     <1>15, <1>16, <1>17, <1>18, <1>19, <1>20, <1>21, <1>22, <1>23, <1>24, <1>25, <1>26, <1>27,
     <1>28, <1>29, <1>30, <1>31, <1>32, <1>33
  DEF Next, Drive, Head, Review, Iterate, After

LEMMA TypeStep == TypeOK /\ [Next]_vars => TypeOK'
<1> SUFFICES ASSUME TypeOK, [Next]_vars PROVE TypeOK' OBVIOUS
<1>1. CASE UNCHANGED vars
  BY <1>1 DEF vars, TypeOK, counters, reviewing, history, files
<1>2. CASE Next
  <2>1. Values /\ Tried /\ Flags BY TypeParts
  <2>2. Values'
    BY <1>2, <2>1, HeadValues, ReviewValues, IterateValues, AfterValues, OutsideValues
    DEF Next, Drive, Outside
  <2>3. Tried' /\ Flags' BY <1>2, <2>1, FlagsStep
  <2> QED BY <2>2, <2>3 DEF TypeOK, Values, Tries, Tried, Flags
<1> QED BY <1>1, <1>2

\* Every reachable state is well typed, for every configuration.
THEOREM TypeCorrect == Spec => []TypeOK
BY TypeInit, TypeStep, PTL DEF Spec

-----------------------------------------------------------------------------
(* What the properties rest on.  A restart rebuilds memory from `saved`, so *)
(* each part says what saved, or the log, still knows of it.                *)

\* The rounds of a review are bounded, and on disk before they begin.
RoundsSaved == rounds <= MaxRounds /\ saved.round = rounds /\ (pc # "off" => round = rounds)

\* The floor stays below the ceiling, which moves once at most, from a start that
\* is no higher than the floor; and what runs is within it.
Bounded ==
  /\ floor <= ceiling
  /\ pc # "off" =>
       /\ floor <= bought
       /\ \/ ceiling = bought /\ grown = 0
          \/ bought <= floor /\ grown = ceiling /\ ceiling > floor
  /\ pc \in {"preflight", "work"} => num <= ceiling

\* An agent that began under a PAUSE leaves the loop at the boundary.
Paused ==
  /\ PauseHolds
  /\ ~pause => begun.work = 0 /\ begun.review = 0
  /\ pc = "preflight" => begun.work = 0 /\ begun.review = 0
  /\ pc = "decide" => Asked \/ (begun.work = 0 /\ begun.review = 0)
  /\ pc = "review" => left <= Personas /\ begun.work = 0 /\ begun.review <= Personas - left
  /\ pc \in {"work", "commit", "record", "end", "after", "checks"} =>
       begun.work <= 1 /\ begun.review = 0

\* Where the iteration in hand is not over yet.
Ahead == Stages \ {"off", "final", "server"}

\* Where a number that an outage took has not been tried again.
Waiting == {"off", "boundary", "decide", "review", "preflight", "backoff", "sleep", "server",
            "final"}

\* The number in hand is beyond what is done with, the pending one too, and the
\* log knows all that is done with; what an outage took is the pending one, or
\* the one in the hands of the process that knows of it.
Numbered ==
  /\ pc # "off" => saved.pending = pending
  /\ saved.pending # 0 => saved.pending > settled
  /\ settled <= ended
  /\ pc \in {"after", "checks", "held"} => num <= ended
  /\ pc \in Ahead => num > settled
  /\ pc = "server" => AfterWait > settled
  /\ pc = "checks" => pending = 0
  /\ pc \in Waiting \ {"server", "final"} => AfterWait = num
  /\ pc \in {"work", "commit", "record", "end"} => owed = 0 /\ known = "memory"
  /\ pc \in {"after", "checks"} => known = "memory"
  /\ pc = "after" /\ owed # 0 => Outage
  /\ pc = "checks" /\ owed # 0 => Transport
  /\ pc = "held" => owed = 0
  /\ owed # 0 /\ known = "disk" =>
       saved.pending = owed /\ owed <= ended /\ pc \in Waiting
  /\ owed # 0 /\ known = "memory" => pc # "off"
  /\ owed # 0 /\ known # "lost" =>
       /\ pc \notin {"off", "final"} => num = owed
       /\ pc = "server" => AfterWait = owed

\* Iterations that changed nothing show in the streak, but for one per restart.
\* Dirt is what an agent has just left, or a killed one before.
Streaked ==
  /\ starts >= 1 /\ streak <= Limit /\ saved.streak <= Limit
  /\ pc \in {"preflight", "work", "commit", "record"} => streak < Limit
  /\ barren <= saved.streak + starts - 1
  /\ pc # "off" => barren <= streak + starts - 1
  /\ dirty => barren = 0 /\ (pc \in {"commit", "final", "off"} \/ starts >= 2)
  /\ pc = "commit" /\ dirty => try.moved \/ starts >= 2
  /\ pc = "record" => ~dirty /\ (try.commit => barren = 0 /\ (try.moved \/ starts >= 2))
  /\ pc \in {"commit", "record"} /\ try.moved => barren = 0

-----------------------------------------------------------------------------
(* Every step keeps them. *)

LEMMA RoundsStep == ASSUME Values, RoundsSaved, Next PROVE RoundsSaved'
<1> USE LoopAssumption DEF Values, RoundsSaved, Finish, Again, Save, counters, reviewing,
      history, files
<1>1. CASE ReviewBegins BY <1>1 DEF ReviewBegins, Deciding
<1>2. CASE AgentEnds BY <1>2 DEF AgentEnds
<1>3. CASE Record BY <1>3 DEF Record, Streak
<1>4. CASE HoldIteration BY <1>4 DEF HoldIteration
<1>5. CASE ProviderLost BY <1>5 DEF ProviderLost, WaitForServer
<1>6. CASE Counts BY <1>6 DEF Counts
<1>7. CASE Finalise BY <1>7 DEF Finalise, Gone
<1>8. CASE Resume BY <1>8 DEF Resume, Done, BareExtra, Buys, Carried
<1>9. CASE Crash BY <1>9 DEF Crash, Gone
<1>10. CASE Boundary \/ StopAsked \/ ReviewSpent \/ TurnsSpent \/ NoDiff \/ IterationDue
  BY <1>10 DEF Boundary, StopAsked, ReviewSpent, TurnsSpent, NoDiff, IterationDue, Deciding
<1>11. CASE ReviewUnreachable \/ RoundOver
  BY <1>11 DEF ReviewUnreachable, RoundOver
<1>12. CASE PreflightFails \/ AgentStarts \/ Commit \/ RecordEnd
  BY <1>12 DEF PreflightFails, AgentStarts, Commit, RecordEnd
<1>13. CASE HeldOver \/ FreshRetry \/ Checks \/ BackoffAbsent \/ BackoffFailing \/ SleepOver \/
        ServerOver
  BY <1>13 DEF HeldOver, FreshRetry, Checks, BackoffAbsent, BackoffFailing, SleepOver,
     ServerOver, WaitForServer, AfterWait
<1>14. CASE WallClock \/ Pause \/ AskStop \/ Signal
  BY <1>14 DEF WallClock, Pause, AskStop, Signal, Deciding
<1>15. ASSUME NEW approves \in BOOLEAN, Reviewed(approves) PROVE RoundsSaved'
  BY <1>15 DEF Reviewed
<1> QED
  BY <1>1, <1>2, <1>3, <1>4, <1>5, <1>6, <1>7, <1>8, <1>9, <1>10, <1>11, <1>12, <1>13, <1>14,
     <1>15
  DEF Next, Drive, Head, Review, Iterate, After

LEMMA BoundedStep == ASSUME Values, Bounded, Next PROVE Bounded'
<1> USE LoopAssumption DEF Values, Bounded, Raised, Wanted, Max2, Min2, Finish, Again, Save,
      counters, reviewing, history, files
<1>1. CASE IterationDue BY <1>1 DEF IterationDue, Deciding, Budget
<1>2. CASE ProviderLost BY <1>2 DEF ProviderLost, WaitForServer
<1>3. CASE Checks BY <1>3 DEF Checks
<1>4. CASE SleepOver BY <1>4 DEF SleepOver
<1>5. CASE ServerOver BY <1>5 DEF ServerOver, AfterWait
<1>6. CASE Finalise BY <1>6 DEF Finalise, Gone
<1>7. CASE Resume BY <1>7 DEF Resume, Done, BareExtra, Buys, Carried
<1>8. CASE Crash BY <1>8 DEF Crash, Gone
<1>9. CASE Boundary \/ StopAsked \/ ReviewSpent \/ ReviewBegins \/ TurnsSpent \/ NoDiff
  BY <1>9 DEF Boundary, StopAsked, ReviewSpent, ReviewBegins, TurnsSpent, NoDiff, Deciding
<1>10. CASE ReviewUnreachable \/ RoundOver
  BY <1>10 DEF ReviewUnreachable, RoundOver
<1>11. CASE PreflightFails \/ AgentStarts \/ AgentEnds \/ Commit \/ Record \/ RecordEnd
  BY <1>11 DEF PreflightFails, AgentStarts, AgentEnds, Commit, Record, RecordEnd, Streak
<1>12. CASE HoldIteration \/ HeldOver \/ FreshRetry \/ Counts \/ BackoffAbsent \/
        BackoffFailing
  BY <1>12 DEF HoldIteration, HeldOver, FreshRetry, Counts, BackoffAbsent, BackoffFailing,
     WaitForServer
<1>13. CASE WallClock \/ Pause \/ AskStop \/ Signal
  BY <1>13 DEF WallClock, Pause, AskStop, Signal, Deciding
<1>14. ASSUME NEW approves \in BOOLEAN, Reviewed(approves) PROVE Bounded'
  BY <1>14 DEF Reviewed
<1> QED
  BY <1>1, <1>2, <1>3, <1>4, <1>5, <1>6, <1>7, <1>8, <1>9, <1>10, <1>11, <1>12, <1>13, <1>14
  DEF Next, Drive, Head, Review, Iterate, After

LEMMA PausedStep == ASSUME Values, Flags, Paused, Next PROVE Paused'
<1> USE LoopAssumption DEF Values, Flags, Paused, PauseHolds, Asked, Finish, Again, Save, counters,
      reviewing, history, files, Begins
<1>1. CASE Boundary BY <1>1 DEF Boundary
<1>2. CASE ReviewBegins BY <1>2 DEF ReviewBegins, Deciding
<1>3. CASE IterationDue BY <1>3 DEF IterationDue, Deciding
<1>4. CASE RoundOver BY <1>4 DEF RoundOver
<1>5. CASE AgentStarts BY <1>5 DEF AgentStarts
<1>6. CASE ProviderLost BY <1>6 DEF ProviderLost, WaitForServer
<1>7. CASE BackoffAbsent BY <1>7 DEF BackoffAbsent, WaitForServer
<1>8. CASE Resume BY <1>8 DEF Resume, Done, BareExtra, Buys, Carried
<1>9. CASE Pause BY <1>9 DEF Pause
<1>10. CASE StopAsked \/ ReviewSpent \/ TurnsSpent \/ NoDiff
  BY <1>10 DEF StopAsked, ReviewSpent, TurnsSpent, NoDiff, Deciding
<1>11. CASE ReviewUnreachable
  BY <1>11 DEF ReviewUnreachable
<1>12. CASE PreflightFails \/ AgentEnds \/ Commit \/ Record \/ RecordEnd
  BY <1>12 DEF PreflightFails, AgentEnds, Commit, Record, RecordEnd, Streak
<1>13. CASE HoldIteration \/ HeldOver \/ FreshRetry \/ Counts \/ BackoffFailing \/
        SleepOver \/ ServerOver \/ Finalise
  BY <1>13 DEF HoldIteration, HeldOver, FreshRetry, Counts, BackoffFailing, SleepOver,
     ServerOver, Finalise, AfterWait, Gone
<1>16. CASE Checks
  <2>1. /\ pc = "checks" /\ pc' \in {"backoff", "boundary"} /\ UNCHANGED <<pause, left>>
        /\ UNCHANGED begun \/ begun' = IF pause THEN [begun EXCEPT !.review = @ + 1] ELSE begun
    BY <1>16 DEF Checks
  <2>2. begun'.work = begun.work /\ begun'.review \in {0, 1} /\ (~pause => begun' = begun)
    BY <2>1
  <2> QED BY <2>1, <2>2
<1>14. CASE WallClock \/ Crash \/ AskStop \/ Signal
  BY <1>14 DEF WallClock, Crash, AskStop, Signal, Deciding, Gone
<1>15. ASSUME NEW approves \in BOOLEAN, Reviewed(approves) PROVE Paused'
  BY <1>15 DEF Reviewed
<1> QED
  BY <1>1, <1>2, <1>3, <1>4, <1>5, <1>6, <1>7, <1>8, <1>9, <1>10, <1>11, <1>12, <1>13, <1>14,
     <1>15, <1>16
  DEF Next, Drive, Head, Review, Iterate, After

LEMMA NumberedStep == ASSUME Values, Tried, Numbered, Next PROVE Numbered'
<1> USE LoopAssumption DEF Values, Numbered, Outage, Transport, Ahead, Waiting, Stages, AfterWait, Finish,
      Again, Save, counters, reviewing, history, files
<1>1. CASE AgentStarts BY <1>1 DEF AgentStarts
<1>2. CASE AgentEnds BY <1>2 DEF AgentEnds
<1>3. CASE RecordEnd BY <1>3 DEF RecordEnd, Max2
<1>4. CASE HoldIteration BY <1>4 DEF HoldIteration
<1>5. CASE ProviderLost
  <2>1. /\ pc = "after" /\ num > settled /\ num <= ended /\ pc' \in {"server", "final"}
        /\ UNCHANGED <<num, ended, try>> /\ saved'.pending = pending'
    BY <1>5 DEF ProviderLost, WaitForServer
  <2>2. CASE try.commit
    <3>1. pending' = 0 /\ owed' = 0 /\ settled' = num
      BY <1>5, <2>1, <2>2 DEF ProviderLost, Max2
    <3>2. AfterWait' = num + 1
      BY <1>5, <2>1, <2>2 DEF ProviderLost
    <3> QED BY <2>1, <3>1, <3>2
  <2>3. CASE ~try.commit
    <3>1. pending' = num /\ owed' = owed /\ settled' = settled /\ known' = "disk"
      BY <1>5, <2>3 DEF ProviderLost
    <3>2. AfterWait' = num BY <2>1, <2>3
    <3> QED BY <2>1, <3>1, <3>2
  <2> QED BY <2>2, <2>3
<1>6. CASE Counts
  <2>1. /\ pc = "after" /\ pc' = "checks" /\ pending' = 0
        /\ try.outcome # "provider" /\ UNCHANGED <<num, ended, settled, owed, known, try>>
    BY <1>6 DEF Counts
  <2>2. saved'.pending = 0
    <3>1. CASE pending = 0 BY <1>6, <2>1, <3>1 DEF Counts
    <3>2. CASE pending # 0 BY <1>6, <2>1, <3>2 DEF Counts
    <3> QED BY <3>1, <3>2
  <2> QED BY <2>1, <2>2
<1>7. CASE Checks
  <2>1. CASE Transport
    <3>1. pc = "checks" /\ pc' = "backoff" /\ UNCHANGED <<num, try, settled, saved, pending, ended, owed, known>>
      BY <1>7, <2>1 DEF Checks
    <3>2. AfterWait' = num BY <3>1, <2>1 DEF Transport
    <3>3. owed # 0 => owed = num /\ known = "memory" BY <3>1
    <3>4. try' = try BY <3>1
    <3> QED BY <3>1, <3>2, <3>3, <3>4
  <2>2. CASE ~Transport
    <3>1. /\ pc = "checks" /\ pc' = "boundary" /\ num' = num + 1 /\ try' = Nothing
          /\ settled' = Max2(settled, num) /\ UNCHANGED <<saved, pending, ended, owed, known>>
      BY <1>7, <2>2 DEF Checks
    <3>2. AfterWait' = num' BY <3>1 DEF Nothing
    <3>3. pending = 0 /\ saved.pending = 0 BY <3>1
    <3>4. owed = 0 BY <3>1, <2>2 DEF Transport
    <3> QED BY <3>1, <3>2, <3>3, <3>4 DEF Max2
  <2> QED BY <2>1, <2>2
<1>8. CASE BackoffAbsent BY <1>8 DEF BackoffAbsent, WaitForServer, Nothing
<1>9. CASE ServerOver BY <1>9 DEF ServerOver, AfterWait, Nothing
<1>10. CASE Finalise BY <1>10 DEF Finalise, Gone, Nothing
<1>11. CASE Resume BY <1>11 DEF Resume, Done, BareExtra, Buys, Carried, Min2
<1>12. CASE Crash BY <1>12 DEF Crash, Gone, Nothing
<1>13. CASE Boundary \/ StopAsked \/ ReviewSpent \/ ReviewBegins \/ TurnsSpent \/ NoDiff \/
        IterationDue
  BY <1>13 DEF Boundary, StopAsked, ReviewSpent, ReviewBegins, TurnsSpent, NoDiff,
     IterationDue, Deciding
<1>14. CASE ReviewUnreachable \/ RoundOver
  BY <1>14 DEF ReviewUnreachable, RoundOver, Nothing
<1>15. CASE PreflightFails \/ Commit \/ Record
  BY <1>15 DEF PreflightFails, Commit, Record, Streak
<1>16. CASE HeldOver \/ FreshRetry \/ BackoffFailing \/ SleepOver
  BY <1>16 DEF HeldOver, FreshRetry, BackoffFailing, SleepOver, Nothing
<1>17. CASE WallClock \/ Pause \/ AskStop \/ Signal
  BY <1>17 DEF WallClock, Pause, AskStop, Signal, Deciding
<1>18. ASSUME NEW approves \in BOOLEAN, Reviewed(approves) PROVE Numbered'
  BY <1>18 DEF Reviewed
<1> QED
  BY <1>1, <1>2, <1>3, <1>4, <1>5, <1>6, <1>7, <1>8, <1>9, <1>10, <1>11, <1>12, <1>13, <1>14,
     <1>15, <1>16, <1>17, <1>18
  DEF Next, Drive, Head, Review, Iterate, After

\* What an agent leaves, whatever it was and however it ended.
LEMMA AgentLeaves ==
  ASSUME Tried, AgentEnds
  PROVE  \E moved \in BOOLEAN :
           /\ try'.moved = moved /\ dirty' = (dirty \/ moved)
           /\ barren' = IF moved THEN 0 ELSE barren
           /\ pc = "work" /\ pc' = "commit" /\ UNCHANGED <<streak, starts>>
           /\ saved'.streak \in {saved.streak, streak}
<1>1. PICK outcome \in Outcomes, moved \in BOOLEAN, transcript \in BOOLEAN, p \in Edits :
        /\ \E told \in Classified(outcome) :
             try' = [try EXCEPT !.outcome = told, !.moved = moved, !.resumed = FALSE]
        /\ dirty' = (dirty \/ moved)
        /\ barren' = IF moved THEN 0 ELSE barren
  BY DEF AgentEnds
<1>2. try'.moved = moved BY <1>1 DEF Tried, Tries
<1>3. /\ pc = "work" /\ pc' = "commit" /\ UNCHANGED <<streak, starts>>
      /\ saved'.streak \in {saved.streak, streak}
  BY DEF AgentEnds, Save, history
<1> QED BY <1>1, <1>2, <1>3

LEMMA StreakedStep == ASSUME Values, Tried, Flags, ~Blocking, Streaked, Next PROVE Streaked'
<1> USE LoopAssumption DEF Values, Flags, Streaked, Finish, Again, Save, counters, reviewing,
      history, files
<1>1. CASE NoDiff BY <1>1 DEF NoDiff, Deciding
<1>2. CASE IterationDue BY <1>2 DEF IterationDue, Deciding
<1>3. CASE AgentStarts BY <1>3 DEF AgentStarts, Nothing
<1>4. CASE AgentEnds
  <2>1. PICK moved \in BOOLEAN :
          /\ try'.moved = moved /\ dirty' = (dirty \/ moved)
          /\ barren' = IF moved THEN 0 ELSE barren
          /\ pc = "work" /\ pc' = "commit" /\ UNCHANGED <<streak, starts>>
          /\ saved'.streak \in {saved.streak, streak}
    BY <1>4, AgentLeaves
  <2>2. CASE moved BY <2>1, <2>2
  <2>3. CASE ~moved BY <2>1, <2>3
  <2> QED BY <2>2, <2>3
<1>5. CASE Commit
  <2>1. /\ pc = "commit" /\ pc' = "record" /\ UNCHANGED <<streak, starts, saved, barren>>
    BY <1>5 DEF Commit
  <2>2. dirty' = FALSE /\ try'.commit = dirty /\ try'.moved = try.moved
    BY <1>5 DEF Commit, Tried, Tries
  <2>3. CASE dirty BY <2>1, <2>2, <2>3
  <2>4. CASE ~dirty BY <2>1, <2>2, <2>4
  <2> QED BY <2>3, <2>4
<1>6. CASE Record BY <1>6, SMTT(40) DEF Record, Streak
<1>7. CASE HoldIteration BY <1>7 DEF HoldIteration
<1>8. CASE ProviderLost BY <1>8 DEF ProviderLost, WaitForServer
<1>9. CASE Counts BY <1>9 DEF Counts
<1>10. CASE Checks
  <2>1. /\ pc = "checks" /\ pc' \in {"backoff", "boundary"} /\ dirty' \in {dirty, FALSE}
        /\ UNCHANGED <<streak, starts, saved, barren>>
    BY <1>10 DEF Checks
  <2>2. CASE dirty
    <3>1. barren = 0 /\ starts >= 2 BY <2>1, <2>2
    <3> QED BY <2>1, <3>1
  <2>3. CASE ~dirty
    <3>1. ~dirty' BY <2>1, <2>3
    <3> QED BY <2>1, <3>1
  <2> QED BY <2>2, <2>3
<1>11. CASE Finalise BY <1>11 DEF Finalise, Gone
<1>12. CASE Resume BY <1>12 DEF Resume, Done, BareExtra, Buys, Carried, Min2
<1>13. CASE Crash BY <1>13 DEF Crash, Gone, Nothing
<1>14. CASE Boundary \/ StopAsked \/ ReviewSpent \/ ReviewBegins \/ TurnsSpent
  BY <1>14 DEF Boundary, StopAsked, ReviewSpent, ReviewBegins, TurnsSpent, Deciding
<1>15. CASE ReviewUnreachable \/ RoundOver
  BY <1>15 DEF ReviewUnreachable, RoundOver
<1>16. CASE PreflightFails \/ RecordEnd
  BY <1>16 DEF PreflightFails, RecordEnd
<1>17. CASE HeldOver \/ FreshRetry \/ BackoffAbsent \/ BackoffFailing \/ SleepOver \/
        ServerOver
  BY <1>17 DEF HeldOver, FreshRetry, BackoffAbsent, BackoffFailing, SleepOver, ServerOver,
     WaitForServer, AfterWait
<1>18. CASE WallClock \/ Pause \/ AskStop \/ Signal
  BY <1>18 DEF WallClock, Pause, AskStop, Signal, Deciding
<1>19. ASSUME NEW approves \in BOOLEAN, Reviewed(approves) PROVE Streaked'
  <2>1. /\ pc = "review" /\ pc' = pc /\ dirty' \in {dirty, FALSE}
        /\ UNCHANGED <<streak, starts, saved, barren>>
    BY <1>19 DEF Reviewed
  <2>2. CASE dirty
    <3>1. barren = 0 /\ starts >= 2 BY <2>1, <2>2
    <3> QED BY <2>1, <3>1
  <2>3. CASE ~dirty
    <3>1. ~dirty' BY <2>1, <2>3
    <3> QED BY <2>1, <3>1
  <2> QED BY <2>2, <2>3
<1> QED
  BY <1>1, <1>2, <1>3, <1>4, <1>5, <1>6, <1>7, <1>8, <1>9, <1>10, <1>11, <1>12, <1>13, <1>14,
     <1>15, <1>16, <1>17, <1>18, <1>19
  DEF Next, Drive, Head, Review, Iterate, After

-----------------------------------------------------------------------------
(* The theorems. *)

Inv == TypeOK /\ RoundsSaved /\ Bounded /\ Paused /\ Numbered

LEMMA InvInit == Init => Inv /\ Streaked
<1> SUFFICES ASSUME Init PROVE Inv /\ Streaked OBVIOUS
<1>1. TypeOK BY TypeInit
<1>2. RoundsSaved /\ Bounded /\ Paused
  BY LoopAssumption DEF Init, RoundsSaved, Bounded, Paused, PauseHolds
<1>3. Numbered BY DEF Init, Numbered, Outage, Transport, Ahead, Waiting, Stages, AfterWait, Nothing
<1>4. Streaked BY LoopAssumption DEF Init, Streaked
<1> QED BY <1>1, <1>2, <1>3, <1>4 DEF Inv

LEMMA InvStep == Inv /\ [Next]_vars => Inv'
<1> SUFFICES ASSUME Inv, [Next]_vars PROVE Inv' OBVIOUS
<1>1. TypeOK' BY TypeStep DEF Inv
<1>2. CASE Next
  <2>1. Values /\ Tried /\ Flags BY TypeParts DEF Inv
  <2> QED
    BY <1>1, <1>2, <2>1, RoundsStep, BoundedStep, PausedStep, NumberedStep DEF Inv
<1>3. CASE UNCHANGED vars
  <2>1. UNCHANGED <<pause, begun, saved, ended, pc, num, floor, ceiling, pending, round, try, stop,
                    left, bought, grown, owed, known, settled, rounds>>
    BY <1>3 DEF vars, files, counters, reviewing, history
  <2>2. RoundsSaved' /\ Bounded' BY <2>1 DEF Inv, RoundsSaved, Bounded
  <2>3. Paused' BY <2>1 DEF Inv, Paused, PauseHolds, Asked
  <2>4. Numbered' BY <2>1 DEF Inv, Numbered, Outage, Transport, AfterWait
  <2> QED BY <1>1, <2>2, <2>3, <2>4 DEF Inv
<1> QED BY <1>2, <1>3

LEMMA Invariance == Spec => []Inv
BY InvInit, InvStep, PTL DEF Spec

\* Review rounds are bounded over all the processes of a run, kills included.
THEOREM RoundsAreBounded == Spec => []RoundsBounded
<1>1. Inv => RoundsBounded BY DEF Inv, RoundsSaved, RoundsBounded
<1> QED BY <1>1, Invariance, PTL

\* No agent runs past the ceiling its process was given, but where that was no
\* higher than the floor; then past what the plan made of it once.
THEOREM CeilingHolds == Spec => []PlanBuysOnce
<1>1. Inv => PlanBuysOnce BY DEF Inv, TypeOK, Bounded, PlanBuysOnce
<1> QED BY <1>1, Invariance, PTL

\* A PAUSE lets one iteration slip in, or what is left of a review round.
THEOREM PausesHold == Spec => []PauseHolds
<1>1. Inv => PauseHolds BY DEF Inv, Paused
<1> QED BY <1>1, Invariance, PTL

\* No number that is done with is run again, and none that is owed is skipped by
\* a process that can know of it.
THEOREM NumbersAreKept == Spec => NumbersKept
<1>1. Inv => (pc = "preflight" /\ pc' = "work" => (known # "lost" => owed \in {0, num}) /\ num > settled)
  BY DEF Inv, Numbered, Ahead, Stages
<1> QED BY <1>1, Invariance, PTL DEF NumbersKept

LEMMA StreakedStays == ASSUME ~Blocking PROVE Inv /\ Streaked /\ [Next]_vars => Streaked'
<1> SUFFICES ASSUME Inv, Streaked, [Next]_vars PROVE Streaked' OBVIOUS
<1>1. CASE Next
  <2>1. Values /\ Tried /\ Flags BY TypeParts DEF Inv
  <2> QED BY <1>1, <2>1, StreakedStep
<1>2. CASE UNCHANGED vars
  <2>1. UNCHANGED <<dirty, saved, pc, streak, try, starts, barren>>
    BY <1>2 DEF vars, files, counters, history
  <2> QED BY <2>1 DEF Streaked
<1> QED BY <1>1, <1>2

\* Without a gate that blocks commits, agents that change nothing are given up on
\* after the limit, and every resume buys one more at most.
THEOREM NoDiffHolds == ASSUME ~Blocking PROVE Spec => []NoDiffGuard
<1>1. Inv /\ Streaked => NoDiffGuard
  <2> SUFFICES ASSUME Values, Streaked PROVE NoDiffGuard BY TypeParts DEF Inv
  <2>1. CASE pc = "off" BY <2>1, LoopAssumption DEF Values, Streaked, NoDiffGuard
  <2>2. CASE pc # "off" BY <2>2, LoopAssumption DEF Values, Streaked, NoDiffGuard
  <2> QED BY <2>1, <2>2
<1>2. Inv /\ Streaked /\ [Next]_vars => Streaked' BY StreakedStays
<1> QED BY <1>1, <1>2, InvInit, Invariance, PTL DEF Spec

=============================================================================
