--------------------------- MODULE RunClaim_proofs ---------------------------
(***************************************************************************)
(* Proofs about RunClaim, for every number of processes, pids and          *)
(* dashboard threads: the claim on a run is kept while it is held, and so  *)
(* has one holder; and the files implement RunOwner.                       *)
(***************************************************************************)
EXTENDS RunClaim, TLAPS

\* A process that has not been started has neither claimed nor left a pid.
IdleClean ==
  \A p \in Proc : pc[p] = "idle" => verdict[p] = "none" /\ pidfile # PidOf[p]

\* Who walks through claim() has resume.lock.
LockHeld == \A p \in Proc : pc[p] \in Claiming => lock = p

\* A live process is what /proc shows under its pid.
Visible == \A p \in Proc : Alive(p) => os[PidOf[p]] = "loop"

\* Between the create and the write of loop.pid the file stays empty.
WriteEmpty == \A p \in Proc : pc[p] = "write" => pidfile = Empty

\* The owner is past the write: it never claims a second time.
OwnedPast ==
  \A p \in Proc : verdict[p] = "owned" =>
    pc[p] \in {"unlock", "attach", "late", "exit"} \cup Driving \cup Finishing

\* Only the owner unlinks its own pid.
DropOwned == \A p \in Proc : pc[p] = "drop" => verdict[p] = "owned"

\* A pid that names a live process was written by its claim.
PidOwned == \A p \in Proc : Alive(p) /\ pidfile = PidOf[p] => verdict[p] = "owned"

\* Nobody owns a run whose pid file has been found stale.
StaleFree == \A p, q \in Proc : pc[p] = "unlink" => ~Holds(q)

\* claim() takes its second turn at most once.
TurnsLeft ==
  \A p \in Proc :
    /\ pc[p] \in {"idle", "unstop", "check", "lock", "clear"} => tries[p] = 0
    /\ pc[p] \in {"open", "probe", "unlink", "write"} => tries[p] <= 1

TypeInv == TypeOK /\ TurnsLeft

ClaimInv ==
  /\ IdleClean
  /\ LockHeld
  /\ Visible
  /\ WriteEmpty
  /\ OwnedPast
  /\ DropOwned
  /\ PidOwned
  /\ StaleFree
  /\ ClaimKept

IInv == TypeInv /\ ClaimInv

\* Only a dead process is a crashed one.
CrashedOver == \A p \in Proc : fate[p] = "crashed" => pc[p] = "exit"

\* Who has got past release() has no pid file.
SweepReleased == \A p \in Proc : pc[p] = "sweep" => pidfile # PidOf[p]

\* Whoever gets past claim() either owns the run or was let through without it.
ClaimTried ==
  \A p \in Proc :
    /\ pc[p] \in {"idle", "unstop", "check", "lock", "clear",
                  "open", "probe", "unlink", "write"} => verdict[p] = "none"
    /\ pc[p] = "unlock" => verdict[p] # "none"
    /\ pc[p] \in {"attach", "late", "terminal", "release", "drop"} \cup Driving =>
         verdict[p] \in {"owned", "stray"}

EndInv ==
  /\ CrashedOver
  /\ SweepReleased
  /\ ClaimTried
  /\ ReleasedWhenOver
  /\ LockReturned
  /\ StatusHonest

-----------------------------------------------------------------------------
\* The initial state has the right types.
LEMMA TypeInit == Init => TypeInv
<1> SUFFICES ASSUME Init PROVE TypeInv
  OBVIOUS
<1> USE DEF Init, Stages, Claiming, Driving, Finishing
<1>1. TypeOK
  <2>1. os \in [Pid -> {"free", "loop", "lmloop", "other"}]
    OBVIOUS
  <2>2. pc \in [Proc -> Stages]
    OBVIOUS
  <2>3. verdict \in [Proc -> {"none", "owned", "stray", "refused"}]
    OBVIOUS
  <2>4. tries \in [Proc -> 0 .. 2]
    OBVIOUS
  <2>5. fate \in [Proc -> {"none", "clean", "failed", "late", "cut", "crashed"}]
    OBVIOUS
  <2>6. wpc \in [Web -> {"idle", "clear", "spawn"}]
    OBVIOUS
  <2>7. QED
    BY <2>1, <2>2, <2>3, <2>4, <2>5, <2>6 DEF TypeOK
<1>2. TurnsLeft
  BY DEF TurnsLeft
<1>3. QED
  BY <1>1, <1>2 DEF TypeInv

\* Every step keeps the types and claim()'s two-turn bound.
LEMMA TypeStep == TypeInv /\ [Next]_vars => TypeInv'
<1> SUFFICES ASSUME TypeInv, [Next]_vars PROVE TypeInv'
  OBVIOUS
<1> USE ClaimAssumption DEF TypeInv, TypeOK, TurnsLeft, Stages, Claiming, Driving, Finishing, procVars
<1>1. ASSUME NEW p \in Proc, Prepare(p) PROVE TypeInv'
  BY <1>1 DEF Prepare, Spawn, Goto
<1>2. ASSUME NEW p \in Proc, Resume(p) PROVE TypeInv'
  BY <1>2 DEF Resume, Spawn, Goto
<1>3. ASSUME NEW w \in Web, ContinueCheck(w) PROVE TypeInv'
  BY <1>3 DEF ContinueCheck
<1>4. ASSUME NEW w \in Web, ContinueClear(w) PROVE TypeInv'
  BY <1>4 DEF ContinueClear
<1>5. ASSUME NEW w \in Web, NEW p \in Proc, ContinueSpawn(w, p) PROVE TypeInv'
  BY <1>5 DEF ContinueSpawn, Spawn, Goto
<1>6. ASSUME NEW p \in Proc, Unstop(p) PROVE TypeInv'
  BY <1>6 DEF Unstop, Goto
<1>7. ASSUME NEW p \in Proc, CheckFree(p) PROVE TypeInv'
  BY <1>7 DEF CheckFree, Goto
<1>8. ASSUME NEW p \in Proc, CheckHeld(p) PROVE TypeInv'
  BY <1>8 DEF CheckHeld, Exit
<1>9. ASSUME NEW p \in Proc, LockTaken(p) PROVE TypeInv'
  BY <1>9 DEF LockTaken, Goto
<1>10. ASSUME NEW p \in Proc, LockBusy(p) PROVE TypeInv'
  BY <1>10 DEF LockBusy, Goto
<1>11. ASSUME NEW p \in Proc, ClearStop(p) PROVE TypeInv'
  <2>1. TypeOK'
    BY <1>11 DEF ClearStop, Goto
  <2>2. TurnsLeft'
    BY <1>11 DEF ClearStop, Goto
  <2>3. QED
    BY <2>1, <2>2
<1>12. ASSUME NEW p \in Proc, OpenPid(p) PROVE TypeInv'
  BY <1>12 DEF OpenPid, Goto
<1>13. ASSUME NEW p \in Proc, WritePid(p) PROVE TypeInv'
  BY <1>13 DEF WritePid, Goto
<1>14. ASSUME NEW p \in Proc, OpenExists(p) PROVE TypeInv'
  BY <1>14 DEF OpenExists, Goto
<1>15. ASSUME NEW p \in Proc, ProbeAlive(p) PROVE TypeInv'
  BY <1>15 DEF ProbeAlive, Goto
<1>16. ASSUME NEW p \in Proc, ProbeStale(p) PROVE TypeInv'
  BY <1>16 DEF ProbeStale, Goto
<1>17. ASSUME NEW p \in Proc, UnlinkStale(p) PROVE TypeInv'
  BY <1>17 DEF UnlinkStale, Goto
<1>18. ASSUME NEW p \in Proc, UnlinkGone(p) PROVE TypeInv'
  BY <1>18 DEF UnlinkGone, Goto
<1>19. ASSUME NEW p \in Proc, Unlock(p) PROVE TypeInv'
  BY <1>19 DEF Unlock, Goto, Exit
<1>20. ASSUME NEW p \in Proc, SetupFails(p) PROVE TypeInv'
  BY <1>20 DEF SetupFails, Goto
<1>21. ASSUME NEW p \in Proc, SetupDone(p) PROVE TypeInv'
  BY <1>21 DEF SetupDone, Goto
<1>22. ASSUME NEW p \in Proc, LateDone(p) PROVE TypeInv'
  BY <1>22 DEF LateDone, Goto
<1>23. ASSUME NEW p \in Proc, LateFails(p) PROVE TypeInv'
  BY <1>23 DEF LateFails, Exit
<1>24. ASSUME NEW p \in Proc, Iterate(p) PROVE TypeInv'
  BY <1>24 DEF Iterate, Goto
<1>25. ASSUME NEW p \in Proc, Finish(p) PROVE TypeInv'
  BY <1>25 DEF Finish, Goto
<1>39. ASSUME NEW p \in Proc, Report(p) PROVE TypeInv'
  BY <1>39 DEF Report, Goto
<1>40. ASSUME NEW p \in Proc, EndIteration(p) PROVE TypeInv'
  BY <1>40 DEF EndIteration, Goto
<1>41. ASSUME NEW p \in Proc, AwaitServer(p) PROVE TypeInv'
  BY <1>41 DEF AwaitServer, Goto
<1>26. ASSUME NEW p \in Proc, WriteTerminal(p) PROVE TypeInv'
  BY <1>26 DEF WriteTerminal, Goto
<1>27. ASSUME NEW p \in Proc, ReleaseOther(p) PROVE TypeInv'
  BY <1>27 DEF ReleaseOther, AfterRelease, Exit, Goto
<1>28. ASSUME NEW p \in Proc, ReleaseMine(p) PROVE TypeInv'
  BY <1>28 DEF ReleaseMine, Goto
<1>29. ASSUME NEW p \in Proc, DropClaim(p) PROVE TypeInv'
  BY <1>29 DEF DropClaim, AfterRelease, Exit, Goto
<1>30. ASSUME NEW p \in Proc, Sweep(p) PROVE TypeInv'
  BY <1>30 DEF Sweep, Exit
<1>31. ASSUME NEW p \in Proc, SignalFirst(p) PROVE TypeInv'
  BY <1>31 DEF SignalFirst
<1>32. ASSUME NEW p \in Proc, SignalAgain(p) PROVE TypeInv'
  BY <1>32 DEF SignalAgain, Goto, Exit
<1>33. ASSUME AskStop PROVE TypeInv'
  BY <1>33 DEF AskStop
<1>34. ASSUME NEW p \in Proc, Crash(p) PROVE TypeInv'
  BY <1>34 DEF Crash, Exit, Alive
<1>35. ASSUME NEW i \in Pid, NEW what \in {"lmloop", "other"}, Recycle(i, what) PROVE TypeInv'
  BY <1>35 DEF Recycle
<1>36. ASSUME NEW i \in Pid, Vanish(i) PROVE TypeInv'
  BY <1>36 DEF Vanish
<1>37. CASE UNCHANGED vars
  BY <1>37 DEF vars, procVars
<1>38. QED
  BY <1>1, <1>2, <1>3, <1>4, <1>5, <1>6, <1>7, <1>8, <1>9, <1>10, <1>11,
     <1>12, <1>13, <1>14, <1>15, <1>16, <1>17, <1>18, <1>19, <1>20, <1>21,
     <1>22, <1>23, <1>24, <1>25, <1>26, <1>27, <1>28, <1>29, <1>30, <1>31,
     <1>32, <1>33, <1>34, <1>35, <1>36, <1>37, <1>39, <1>40, <1>41
  DEF Next, Step, Claim, Finalise

-----------------------------------------------------------------------------
\* Nobody has claimed anything initially.
LEMMA ClaimInit == Init => ClaimInv
  BY ClaimAssumption
  DEF Init, ClaimInv, IdleClean, LockHeld, Visible, WriteEmpty, OwnedPast, DropOwned, PidOwned, StaleFree, ClaimKept, Holds, Alive,
      Claiming, Driving, Finishing

\* Every step keeps the claim invariant: O_EXCL on resume.lock lets one process
\* at a time decide whether loop.pid is stale, and a live owner is never stale.
LEMMA ClaimStep == IInv /\ [Next]_vars => ClaimInv'
<1> SUFFICES ASSUME IInv, [Next]_vars PROVE ClaimInv'
  OBVIOUS
<1> TypeOK
  BY DEF IInv, TypeInv
<1> ClaimInv
  BY DEF IInv
<1> USE ClaimAssumption DEF TypeOK, ClaimInv, IdleClean, LockHeld, Visible, WriteEmpty, OwnedPast, DropOwned, PidOwned, StaleFree, ClaimKept, Holds, Alive,
      Stages, Claiming, Driving, Finishing, procVars
<1>1. ASSUME NEW p \in Proc, Prepare(p) PROVE ClaimInv'
  BY <1>1 DEF Prepare, Spawn, Goto
<1>2. ASSUME NEW p \in Proc, Resume(p) PROVE ClaimInv'
  BY <1>2 DEF Resume, Spawn, Goto
<1>3. ASSUME NEW w \in Web, ContinueCheck(w) PROVE ClaimInv'
  BY <1>3 DEF ContinueCheck
<1>4. ASSUME NEW w \in Web, ContinueClear(w) PROVE ClaimInv'
  BY <1>4 DEF ContinueClear
<1>5. ASSUME NEW w \in Web, NEW p \in Proc, ContinueSpawn(w, p) PROVE ClaimInv'
  BY <1>5 DEF ContinueSpawn, Spawn, Goto
<1>6. ASSUME NEW p \in Proc, Unstop(p) PROVE ClaimInv'
  BY <1>6 DEF Unstop, Goto
<1>7. ASSUME NEW p \in Proc, CheckFree(p) PROVE ClaimInv'
  BY <1>7 DEF CheckFree, Goto
<1>8. ASSUME NEW p \in Proc, CheckHeld(p) PROVE ClaimInv'
  BY <1>8 DEF CheckHeld, Exit
<1>9. ASSUME NEW p \in Proc, LockTaken(p) PROVE ClaimInv'
  BY <1>9 DEF LockTaken, Goto
<1>10. ASSUME NEW p \in Proc, LockBusy(p) PROVE ClaimInv'
  BY <1>10 DEF LockBusy, Goto
<1>11. ASSUME NEW p \in Proc, ClearStop(p) PROVE ClaimInv'
  BY <1>11 DEF ClearStop, Goto
<1>12. ASSUME NEW p \in Proc, OpenPid(p) PROVE ClaimInv'
  BY <1>12 DEF OpenPid, Goto
<1>13. ASSUME NEW p \in Proc, WritePid(p) PROVE ClaimInv'
  BY <1>13 DEF WritePid, Goto
<1>14. ASSUME NEW p \in Proc, OpenExists(p) PROVE ClaimInv'
  BY <1>14 DEF OpenExists, Goto
<1>15. ASSUME NEW p \in Proc, ProbeAlive(p) PROVE ClaimInv'
  BY <1>15 DEF ProbeAlive, Goto
<1>16. ASSUME NEW p \in Proc, ProbeStale(p) PROVE ClaimInv'
  BY <1>16 DEF ProbeStale, Goto
<1>17. ASSUME NEW p \in Proc, UnlinkStale(p) PROVE ClaimInv'
  BY <1>17 DEF UnlinkStale, Goto
<1>18. ASSUME NEW p \in Proc, UnlinkGone(p) PROVE ClaimInv'
  BY <1>18 DEF UnlinkGone, Goto
<1>19. ASSUME NEW p \in Proc, Unlock(p) PROVE ClaimInv'
  BY <1>19 DEF Unlock, Goto, Exit
<1>20. ASSUME NEW p \in Proc, SetupFails(p) PROVE ClaimInv'
  BY <1>20 DEF SetupFails, Goto
<1>21. ASSUME NEW p \in Proc, SetupDone(p) PROVE ClaimInv'
  BY <1>21 DEF SetupDone, Goto
<1>22. ASSUME NEW p \in Proc, LateDone(p) PROVE ClaimInv'
  BY <1>22 DEF LateDone, Goto
<1>23. ASSUME NEW p \in Proc, LateFails(p) PROVE ClaimInv'
  BY <1>23 DEF LateFails, Exit
<1>24. ASSUME NEW p \in Proc, Iterate(p) PROVE ClaimInv'
  BY <1>24 DEF Iterate, Goto
<1>25. ASSUME NEW p \in Proc, Finish(p) PROVE ClaimInv'
  BY <1>25 DEF Finish, Goto
<1>39. ASSUME NEW p \in Proc, Report(p) PROVE ClaimInv'
  BY <1>39 DEF Report, Goto
<1>40. ASSUME NEW p \in Proc, EndIteration(p) PROVE ClaimInv'
  BY <1>40 DEF EndIteration, Goto
<1>41. ASSUME NEW p \in Proc, AwaitServer(p) PROVE ClaimInv'
  BY <1>41 DEF AwaitServer, Goto
<1>26. ASSUME NEW p \in Proc, WriteTerminal(p) PROVE ClaimInv'
  BY <1>26 DEF WriteTerminal, Goto
<1>27. ASSUME NEW p \in Proc, ReleaseOther(p) PROVE ClaimInv'
  BY <1>27 DEF ReleaseOther, AfterRelease, Exit, Goto
<1>28. ASSUME NEW p \in Proc, ReleaseMine(p) PROVE ClaimInv'
  BY <1>28 DEF ReleaseMine, Goto
<1>29. ASSUME NEW p \in Proc, DropClaim(p) PROVE ClaimInv'
  BY <1>29 DEF DropClaim, AfterRelease, Exit, Goto
<1>30. ASSUME NEW p \in Proc, Sweep(p) PROVE ClaimInv'
  BY <1>30 DEF Sweep, Exit
<1>31. ASSUME NEW p \in Proc, SignalFirst(p) PROVE ClaimInv'
  BY <1>31 DEF SignalFirst
<1>32. ASSUME NEW p \in Proc, SignalAgain(p) PROVE ClaimInv'
  BY <1>32 DEF SignalAgain, Goto, Exit
<1>33. ASSUME AskStop PROVE ClaimInv'
  BY <1>33 DEF AskStop
<1>34. ASSUME NEW p \in Proc, Crash(p) PROVE ClaimInv'
  BY <1>34 DEF Crash, Exit, Alive
<1>35. ASSUME NEW i \in Pid, NEW what \in {"lmloop", "other"}, Recycle(i, what) PROVE ClaimInv'
  BY <1>35 DEF Recycle
<1>36. ASSUME NEW i \in Pid, Vanish(i) PROVE ClaimInv'
  BY <1>36 DEF Vanish
<1>37. CASE UNCHANGED vars
  BY <1>37 DEF vars, procVars
<1>38. QED
  BY <1>1, <1>2, <1>3, <1>4, <1>5, <1>6, <1>7, <1>8, <1>9, <1>10, <1>11,
     <1>12, <1>13, <1>14, <1>15, <1>16, <1>17, <1>18, <1>19, <1>20, <1>21,
     <1>22, <1>23, <1>24, <1>25, <1>26, <1>27, <1>28, <1>29, <1>30, <1>31,
     <1>32, <1>33, <1>34, <1>35, <1>36, <1>37, <1>39, <1>40, <1>41
  DEF Next, Step, Claim, Finalise

-----------------------------------------------------------------------------
\* Nobody has come to an end initially.
LEMMA EndInit == Init => EndInv
  BY ClaimAssumption
  DEF Init, EndInv, CrashedOver, SweepReleased, ClaimTried, ReleasedWhenOver, LockReturned, StatusHonest,
      Claiming, Driving, Finishing

\* Every way out of a process leaves the files as _finalise and the `finally`
\* of claim() promise.
LEMMA EndStep == IInv /\ EndInv /\ [Next]_vars => EndInv'
<1> SUFFICES ASSUME IInv, EndInv, [Next]_vars PROVE EndInv'
  OBVIOUS
<1> TypeOK
  BY DEF IInv, TypeInv
<1> ClaimInv
  BY DEF IInv
<1> USE ClaimAssumption DEF TypeOK, EndInv, CrashedOver, SweepReleased, ClaimTried, ReleasedWhenOver, LockReturned, StatusHonest,
      ClaimInv, IdleClean, LockHeld, PidOwned, ClaimKept, Holds, Alive,
      Stages, Claiming, Driving, Finishing, procVars
<1>1. ASSUME NEW p \in Proc, Prepare(p) PROVE EndInv'
  BY <1>1 DEF Prepare, Spawn, Goto
<1>2. ASSUME NEW p \in Proc, Resume(p) PROVE EndInv'
  BY <1>2 DEF Resume, Spawn, Goto
<1>3. ASSUME NEW w \in Web, ContinueCheck(w) PROVE EndInv'
  BY <1>3 DEF ContinueCheck
<1>4. ASSUME NEW w \in Web, ContinueClear(w) PROVE EndInv'
  BY <1>4 DEF ContinueClear
<1>5. ASSUME NEW w \in Web, NEW p \in Proc, ContinueSpawn(w, p) PROVE EndInv'
  BY <1>5 DEF ContinueSpawn, Spawn, Goto
<1>6. ASSUME NEW p \in Proc, Unstop(p) PROVE EndInv'
  BY <1>6 DEF Unstop, Goto
<1>7. ASSUME NEW p \in Proc, CheckFree(p) PROVE EndInv'
  BY <1>7 DEF CheckFree, Goto
<1>8. ASSUME NEW p \in Proc, CheckHeld(p) PROVE EndInv'
  BY <1>8 DEF CheckHeld, Exit
<1>9. ASSUME NEW p \in Proc, LockTaken(p) PROVE EndInv'
  BY <1>9 DEF LockTaken, Goto
<1>10. ASSUME NEW p \in Proc, LockBusy(p) PROVE EndInv'
  BY <1>10 DEF LockBusy, Goto
<1>11. ASSUME NEW p \in Proc, ClearStop(p) PROVE EndInv'
  BY <1>11 DEF ClearStop, Goto
<1>12. ASSUME NEW p \in Proc, OpenPid(p) PROVE EndInv'
  BY <1>12 DEF OpenPid, Goto
<1>13. ASSUME NEW p \in Proc, WritePid(p) PROVE EndInv'
  BY <1>13 DEF WritePid, Goto
<1>14. ASSUME NEW p \in Proc, OpenExists(p) PROVE EndInv'
  BY <1>14 DEF OpenExists, Goto
<1>15. ASSUME NEW p \in Proc, ProbeAlive(p) PROVE EndInv'
  BY <1>15 DEF ProbeAlive, Goto
<1>16. ASSUME NEW p \in Proc, ProbeStale(p) PROVE EndInv'
  BY <1>16 DEF ProbeStale, Goto
<1>17. ASSUME NEW p \in Proc, UnlinkStale(p) PROVE EndInv'
  BY <1>17 DEF UnlinkStale, Goto
<1>18. ASSUME NEW p \in Proc, UnlinkGone(p) PROVE EndInv'
  BY <1>18 DEF UnlinkGone, Goto
<1>19. ASSUME NEW p \in Proc, Unlock(p) PROVE EndInv'
  BY <1>19 DEF Unlock, Goto, Exit
<1>20. ASSUME NEW p \in Proc, SetupFails(p) PROVE EndInv'
  BY <1>20 DEF SetupFails, Goto
<1>21. ASSUME NEW p \in Proc, SetupDone(p) PROVE EndInv'
  BY <1>21 DEF SetupDone, Goto
<1>22. ASSUME NEW p \in Proc, LateDone(p) PROVE EndInv'
  BY <1>22 DEF LateDone, Goto
<1>23. ASSUME NEW p \in Proc, LateFails(p) PROVE EndInv'
  BY <1>23 DEF LateFails, Exit
<1>24. ASSUME NEW p \in Proc, Iterate(p) PROVE EndInv'
  BY <1>24 DEF Iterate, Goto
<1>25. ASSUME NEW p \in Proc, Finish(p) PROVE EndInv'
  BY <1>25 DEF Finish, Goto
<1>39. ASSUME NEW p \in Proc, Report(p) PROVE EndInv'
  BY <1>39 DEF Report, Goto
<1>40. ASSUME NEW p \in Proc, EndIteration(p) PROVE EndInv'
  BY <1>40 DEF EndIteration, Goto
<1>41. ASSUME NEW p \in Proc, AwaitServer(p) PROVE EndInv'
  BY <1>41 DEF AwaitServer, Goto
<1>26. ASSUME NEW p \in Proc, WriteTerminal(p) PROVE EndInv'
  BY <1>26 DEF WriteTerminal, Goto
<1>27. ASSUME NEW p \in Proc, ReleaseOther(p) PROVE EndInv'
  BY <1>27 DEF ReleaseOther, AfterRelease, Exit, Goto
<1>28. ASSUME NEW p \in Proc, ReleaseMine(p) PROVE EndInv'
  BY <1>28 DEF ReleaseMine, Goto
<1>29. ASSUME NEW p \in Proc, DropClaim(p) PROVE EndInv'
  BY <1>29 DEF DropClaim, AfterRelease, Exit, Goto, DropOwned
<1>30. ASSUME NEW p \in Proc, Sweep(p) PROVE EndInv'
  BY <1>30 DEF Sweep, Exit
<1>31. ASSUME NEW p \in Proc, SignalFirst(p) PROVE EndInv'
  BY <1>31 DEF SignalFirst
<1>32. ASSUME NEW p \in Proc, SignalAgain(p) PROVE EndInv'
  BY <1>32 DEF SignalAgain, Goto, Exit
<1>33. ASSUME AskStop PROVE EndInv'
  BY <1>33 DEF AskStop
<1>34. ASSUME NEW p \in Proc, Crash(p) PROVE EndInv'
  BY <1>34 DEF Crash, Exit, Alive
<1>35. ASSUME NEW i \in Pid, NEW what \in {"lmloop", "other"}, Recycle(i, what) PROVE EndInv'
  BY <1>35 DEF Recycle
<1>36. ASSUME NEW i \in Pid, Vanish(i) PROVE EndInv'
  BY <1>36 DEF Vanish
<1>37. CASE UNCHANGED vars
  BY <1>37 DEF vars, procVars
<1>38. QED
  BY <1>1, <1>2, <1>3, <1>4, <1>5, <1>6, <1>7, <1>8, <1>9, <1>10, <1>11,
     <1>12, <1>13, <1>14, <1>15, <1>16, <1>17, <1>18, <1>19, <1>20, <1>21,
     <1>22, <1>23, <1>24, <1>25, <1>26, <1>27, <1>28, <1>29, <1>30, <1>31,
     <1>32, <1>33, <1>34, <1>35, <1>36, <1>37, <1>39, <1>40, <1>41
  DEF Next, Step, Claim, Finalise

-----------------------------------------------------------------------------
(* The refinement.                                                         *)

\* Owner is the process that holds the run, if one does.
OwnerTold ==
  /\ \A p \in Proc : Holds(p) => Owner = p
  /\ (\A p \in Proc : ~Holds(p)) => Owner = None

\* With one holder at most, the CHOOSE in Owner has nothing to choose.
LEMMA OwnerIsHolder == IInv => OwnerTold
<1> SUFFICES ASSUME IInv PROVE OwnerTold
  OBVIOUS
<1>1. ClaimExclusive
  BY ClaimAssumption DEF IInv, ClaimInv, ClaimKept, ClaimExclusive
<1>2. QED
  BY <1>1 DEF ClaimExclusive, Owner, OwnerTold

\* A step leaves the holders as they are, or makes a first one, or leaves none.
HoldersMove ==
  \/ \A q \in Proc : Holds(q)' <=> Holds(q)
  \/ (\A q \in Proc : ~Holds(q)) /\ (\E p \in Proc : Holds(p)')
  \/ \A q \in Proc : ~Holds(q)'

\* Ownership changes hands only through a run without an owner.
LEMMA HoldersStep == IInv /\ [Next]_vars => HoldersMove
<1> SUFFICES ASSUME IInv, [Next]_vars PROVE HoldersMove
  OBVIOUS
<1> TypeOK /\ ClaimKept /\ WriteEmpty /\ LockHeld /\ OwnedPast /\ DropOwned
  BY DEF IInv, TypeInv, ClaimInv
<1> USE ClaimAssumption DEF HoldersMove, TypeOK, ClaimKept, WriteEmpty, LockHeld, OwnedPast, DropOwned,
      Holds, Alive, Stages, Claiming, Driving, Finishing, procVars
<1>1. ASSUME NEW p \in Proc, Prepare(p) PROVE HoldersMove
  BY <1>1 DEF Prepare, Spawn, Goto
<1>2. ASSUME NEW p \in Proc, Resume(p) PROVE HoldersMove
  BY <1>2 DEF Resume, Spawn, Goto
<1>3. ASSUME NEW w \in Web, ContinueCheck(w) PROVE HoldersMove
  BY <1>3 DEF ContinueCheck
<1>4. ASSUME NEW w \in Web, ContinueClear(w) PROVE HoldersMove
  BY <1>4 DEF ContinueClear
<1>5. ASSUME NEW w \in Web, NEW p \in Proc, ContinueSpawn(w, p) PROVE HoldersMove
  BY <1>5 DEF ContinueSpawn, Spawn, Goto
<1>6. ASSUME NEW p \in Proc, Unstop(p) PROVE HoldersMove
  BY <1>6 DEF Unstop, Goto
<1>7. ASSUME NEW p \in Proc, CheckFree(p) PROVE HoldersMove
  BY <1>7 DEF CheckFree, Goto
<1>8. ASSUME NEW p \in Proc, CheckHeld(p) PROVE HoldersMove
  BY <1>8 DEF CheckHeld, Exit
<1>9. ASSUME NEW p \in Proc, LockTaken(p) PROVE HoldersMove
  BY <1>9 DEF LockTaken, Goto
<1>10. ASSUME NEW p \in Proc, LockBusy(p) PROVE HoldersMove
  BY <1>10 DEF LockBusy, Goto
<1>11. ASSUME NEW p \in Proc, ClearStop(p) PROVE HoldersMove
  BY <1>11 DEF ClearStop, Goto
<1>12. ASSUME NEW p \in Proc, OpenPid(p) PROVE HoldersMove
  BY <1>12 DEF OpenPid, Goto
<1>13. ASSUME NEW p \in Proc, WritePid(p) PROVE HoldersMove
  BY <1>13 DEF WritePid, Goto
<1>14. ASSUME NEW p \in Proc, OpenExists(p) PROVE HoldersMove
  BY <1>14 DEF OpenExists, Goto
<1>15. ASSUME NEW p \in Proc, ProbeAlive(p) PROVE HoldersMove
  BY <1>15 DEF ProbeAlive, Goto
<1>16. ASSUME NEW p \in Proc, ProbeStale(p) PROVE HoldersMove
  BY <1>16 DEF ProbeStale, Goto
<1>17. ASSUME NEW p \in Proc, UnlinkStale(p) PROVE HoldersMove
  BY <1>17 DEF UnlinkStale, Goto
<1>18. ASSUME NEW p \in Proc, UnlinkGone(p) PROVE HoldersMove
  BY <1>18 DEF UnlinkGone, Goto
<1>19. ASSUME NEW p \in Proc, Unlock(p) PROVE HoldersMove
  BY <1>19 DEF Unlock, Goto, Exit
<1>20. ASSUME NEW p \in Proc, SetupFails(p) PROVE HoldersMove
  BY <1>20 DEF SetupFails, Goto
<1>21. ASSUME NEW p \in Proc, SetupDone(p) PROVE HoldersMove
  BY <1>21 DEF SetupDone, Goto
<1>22. ASSUME NEW p \in Proc, LateDone(p) PROVE HoldersMove
  BY <1>22 DEF LateDone, Goto
<1>23. ASSUME NEW p \in Proc, LateFails(p) PROVE HoldersMove
  BY <1>23 DEF LateFails, Exit
<1>24. ASSUME NEW p \in Proc, Iterate(p) PROVE HoldersMove
  BY <1>24 DEF Iterate, Goto
<1>25. ASSUME NEW p \in Proc, Finish(p) PROVE HoldersMove
  BY <1>25 DEF Finish, Goto
<1>39. ASSUME NEW p \in Proc, Report(p) PROVE HoldersMove
  BY <1>39 DEF Report, Goto
<1>40. ASSUME NEW p \in Proc, EndIteration(p) PROVE HoldersMove
  BY <1>40 DEF EndIteration, Goto
<1>41. ASSUME NEW p \in Proc, AwaitServer(p) PROVE HoldersMove
  BY <1>41 DEF AwaitServer, Goto
<1>26. ASSUME NEW p \in Proc, WriteTerminal(p) PROVE HoldersMove
  BY <1>26 DEF WriteTerminal, Goto
<1>27. ASSUME NEW p \in Proc, ReleaseOther(p) PROVE HoldersMove
  BY <1>27 DEF ReleaseOther, AfterRelease, Exit, Goto
<1>28. ASSUME NEW p \in Proc, ReleaseMine(p) PROVE HoldersMove
  BY <1>28 DEF ReleaseMine, Goto
<1>29. ASSUME NEW p \in Proc, DropClaim(p) PROVE HoldersMove
  BY <1>29 DEF DropClaim, AfterRelease, Exit, Goto
<1>30. ASSUME NEW p \in Proc, Sweep(p) PROVE HoldersMove
  BY <1>30 DEF Sweep, Exit
<1>31. ASSUME NEW p \in Proc, SignalFirst(p) PROVE HoldersMove
  BY <1>31 DEF SignalFirst
<1>32. ASSUME NEW p \in Proc, SignalAgain(p) PROVE HoldersMove
  BY <1>32 DEF SignalAgain, Goto, Exit
<1>33. ASSUME AskStop PROVE HoldersMove
  BY <1>33 DEF AskStop
<1>34. ASSUME NEW p \in Proc, Crash(p) PROVE HoldersMove
  BY <1>34 DEF Crash, Exit, Alive
<1>35. ASSUME NEW i \in Pid, NEW what \in {"lmloop", "other"}, Recycle(i, what) PROVE HoldersMove
  BY <1>35 DEF Recycle
<1>36. ASSUME NEW i \in Pid, Vanish(i) PROVE HoldersMove
  BY <1>36 DEF Vanish
<1>37. CASE UNCHANGED vars
  BY <1>37 DEF vars, procVars
<1>38. QED
  BY <1>1, <1>2, <1>3, <1>4, <1>5, <1>6, <1>7, <1>8, <1>9, <1>10, <1>11,
     <1>12, <1>13, <1>14, <1>15, <1>16, <1>17, <1>18, <1>19, <1>20, <1>21,
     <1>22, <1>23, <1>24, <1>25, <1>26, <1>27, <1>28, <1>29, <1>30, <1>31,
     <1>32, <1>33, <1>34, <1>35, <1>36, <1>37, <1>39, <1>40, <1>41
  DEF Next, Step, Claim, Finalise

\* A step of the files is a step of RunOwner, or none.
LEMMA OwnerStep == IInv /\ IInv' /\ [Next]_vars => [Abstract!Next]_Owner
<1> SUFFICES ASSUME IInv, IInv', [Next]_vars PROVE [Abstract!Next]_Owner
  OBVIOUS
<1>1. OwnerTold
  BY OwnerIsHolder
<1>2. OwnerTold'
  BY OwnerIsHolder, PTL
<1>3. CASE \A q \in Proc : Holds(q)' <=> Holds(q)
  BY <1>1, <1>2, <1>3 DEF OwnerTold
<1>4. CASE (\A q \in Proc : ~Holds(q)) /\ (\E p \in Proc : Holds(p)')
  BY <1>1, <1>2, <1>4 DEF OwnerTold, Abstract!Next, Abstract!Acquire
<1>5. CASE \A q \in Proc : ~Holds(q)'
  BY <1>1, <1>2, <1>5 DEF OwnerTold, Abstract!Next, Abstract!Leave
<1>6. QED
  BY <1>3, <1>4, <1>5, HoldersStep DEF HoldersMove

-----------------------------------------------------------------------------
\* The inductive invariants hold throughout.
LEMMA Inductive == Spec => [](IInv /\ EndInv)
<1>1. Init => IInv /\ EndInv
  BY TypeInit, ClaimInit, EndInit DEF IInv
<1>2. IInv /\ EndInv /\ [Next]_vars => IInv' /\ EndInv'
  BY TypeStep, ClaimStep, EndStep DEF IInv
<1>3. QED
  BY <1>1, <1>2, PTL DEF Spec

\* Every variable keeps its type.
THEOREM TypeCorrect == Spec => []TypeOK
<1>1. IInv => TypeOK
  BY DEF IInv, TypeInv
<1>2. QED
  BY <1>1, Inductive, PTL

\* RunDir.claim never discards a live claim: loop.pid names the owner until the
\* owner releases it or dies, whoever races it with claims and releases.
THEOREM ClaimIsKept == Spec => []ClaimKept
<1>1. IInv => ClaimKept
  BY DEF IInv, ClaimInv
<1>2. QED
  BY <1>1, Inductive, PTL

\* Two processes never both own a run.
THEOREM ClaimIsExclusive == Spec => []ClaimExclusive
<1>1. IInv => ClaimExclusive
  BY ClaimAssumption DEF IInv, ClaimInv, ClaimKept, ClaimExclusive
<1>2. QED
  BY <1>1, Inductive, PTL

\* A process that ended by itself left no claim behind.
THEOREM OwnersRelease == Spec => []ReleasedWhenOver
<1>1. EndInv => ReleasedWhenOver
  BY DEF EndInv
<1>2. QED
  BY <1>1, Inductive, PTL

\* resume.lock is left behind by a killed process and by nothing else.
THEOREM LockIsReturned == Spec => []LockReturned
<1>1. EndInv => LockReturned
  BY DEF EndInv
<1>2. QED
  BY <1>1, Inductive, PTL

\* While every loop owns its run, the status file follows the owner.
THEOREM StatusIsHonest == Spec => []StatusHonest
<1>1. EndInv => StatusHonest
  BY DEF EndInv
<1>2. QED
  BY <1>1, Inductive, PTL

\* The pid file, its lock and the signals implement plain ownership.
THEOREM OwnershipImplemented == Spec => ImplementsOwner
<1>1. Init => Abstract!Init
  BY DEF Init, Abstract!Init, Owner, Holds
<1>2. IInv /\ IInv' /\ [Next]_vars => [Abstract!Next]_Owner
  BY OwnerStep
<1>3. QED
  BY <1>1, <1>2, Inductive, PTL DEF Spec, ImplementsOwner, Abstract!Spec
=============================================================================
