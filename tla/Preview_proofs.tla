---------------------------- MODULE Preview_proofs ----------------------------
(***************************************************************************)
(* Theorems about Preview, for any number of servers, threads and kills:   *)
(* operations among themselves keep every live server on record, and one   *)
(* that begins beside a server without a record ends it.                   *)
(***************************************************************************)
EXTENDS Preview, TLAPS

-----------------------------------------------------------------------------
(* Types, by kind. *)

Values ==
  /\ record \in Srv \cup {None} /\ lock \in Web \cup {None} /\ found \in Srv \cup {None}
  /\ srv \in [Srv -> {"idle", "up", "listening", "dead"}]
  /\ pc \in [Thread -> Stages]
  /\ op \in [Thread -> {"none", "start", "launch", "stop", "restart", "status"}]
  /\ seen \in [Thread -> Srv \cup {None}]
  /\ crashes \in 0..MaxCrashes

Says ==
  /\ state \in States /\ tmp \in States \cup {None} /\ will \in [Thread -> States \cup {"none"}]

Flags == alien \in BOOLEAN /\ wraps \in BOOLEAN /\ beside \in BOOLEAN

LEMMA TypeParts == TypeOK <=> Values /\ Says /\ Flags
BY DEF TypeOK, Values, Says, Flags

\* Threads that operate are not threads that ask, and None is nothing else.
LEMMA Kinds ==
  /\ None \notin Srv /\ None \notin Web /\ None \notin Poll /\ None \notin States
  /\ Web \cap Poll = {} /\ MaxCrashes \in Nat /\ Web \subseteq Thread /\ Poll \subseteq Thread
BY PreviewAssumption DEF Thread

-----------------------------------------------------------------------------
(* The invariant. *)

Over == {"stopped", "failed"}

NoneUp == \A s \in Srv : ~Live(s)

\* A server that is remembered has been launched.
Launched ==
  /\ record # None => srv[record] # "idle"
  /\ \A t \in Thread : seen[t] # None => srv[seen[t]] # "idle"

\* The thread that operates is the one that holds the lock.
Mutex == \A t \in Web : pc[t] \notin {"idle", "lock"} <=> lock = t

\* What a thread was asked for, by its place
Asked ==
  /\ \A t \in Poll :
       /\ pc[t] \in {"idle", "meta", "state", "look", "clear", "mark", "put", "end", "raised"}
       /\ pc[t] # "idle" => op[t] = "status"
  /\ \A t \in Web :
       /\ pc[t] = "lock" => op[t] \in {"start", "stop", "restart"}
       /\ pc[t] \in {"meta", "state", "look", "clear"} => op[t] = "start"
       /\ pc[t] \in {"mark", "put"} => op[t] \in {"start", "launch", "stop", "restart"}
       /\ pc[t] = "adopt" => op[t] \in {"launch", "stop", "restart"}
       /\ pc[t] \in {"launch", "write"} => op[t] = "launch"
       /\ pc[t] \in {"stop", "drop"} => op[t] \in {"stop", "restart"}

\* The state a thread has read or is about to write
Meant ==
  \A t \in Thread :
    /\ pc[t] \in {"look", "mark", "put"} => will[t] \in States
    /\ pc[t] = "clear" => will[t] \in Over

Calm == ~beside /\ crashes = 0

\* As long as it is calm: an operation has no poll beside it ...
Alone == Calm /\ lock # None => \A p \in Poll : pc[p] = "idle"

\* ... a live server is the one on record, or about to be ...
Tracked ==
  Calm => \A s \in Srv : Live(s) => record = s \/ \E t \in Web : pc[t] = "write" /\ seen[t] = s

\* ... and the one that whoever looks knows ...
Known ==
  Calm => \A t \in Thread, s \in Srv : Live(s) /\ pc[t] \in {"state", "look", "write"} => seen[t] = s

\* ... nothing is up where a thread clears, adopts or launches, nor where it means
\* to say so ...
Gone ==
  Calm => \A t \in Thread :
    pc[t] \in {"clear", "adopt", "launch", "drop"} \/ (pc[t] \in {"look", "mark", "put"} /\ will[t] \in Over)
      => NoneUp

\* ... and the temporary file says what the writer means ...
Written ==
  Calm =>
    /\ tmp \in Over => NoneUp
    /\ tmp # None => \E t \in Thread : pc[t] = "put"
    /\ \A t \in Web : pc[t] = "put" => tmp = will[t]

Starting(t) == pc[t] = "write" \/ (pc[t] \in {"mark", "put"} /\ op[t] = "launch" /\ will[t] = "starting")

\* ... and the state is over only when everything is, but for a start to be told.
Settled == Calm /\ state \in Over => NoneUp \/ \E t \in Web : Starting(t)

\* Calm or not: the server an operation found without a record is on its way out,
\* if it is one that can be adopted.
Orphan ==
  \A t \in Web : ~wraps /\ lock = t /\ found # None =>
    /\ srv[found] \in {"listening", "dead"}
    /\ op[t] \in {"start", "stop", "restart"} => ~Live(record)
    /\ pc[t] \in {"state", "look"} => ~Live(seen[t])
    /\ pc[t] \in {"mark", "put"} /\ op[t] = "start" => will[t] \in Over
    /\ pc[t] \in {"drop", "launch", "write", "end"} => srv[found] = "dead"
    /\ pc[t] \in {"mark", "put"} /\ op[t] # "start" => srv[found] = "dead"

Inv ==
  /\ Values /\ Says /\ Flags /\ Launched /\ Mutex /\ Asked /\ Meant
  /\ Alone /\ Tracked /\ Known /\ Gone /\ Written /\ Settled /\ Orphan

-----------------------------------------------------------------------------

LEMMA OperateInv ==
  ASSUME Inv, NEW t \in Web, NEW what \in {"start", "stop", "restart"}, Operate(t, what)
  PROVE Inv'
<1> USE DEF Operate, Goto
<1>1. Says' /\ Launched' /\ Meant' /\ Tracked' /\ Known' /\ Written'
  BY DEF Inv, Says, Launched, Ended, Live, Meant, Tracked, Calm, Known, NoneUp, Written
<1>2. Mutex' BY DEF Inv, Mutex
<1>3. Gone' BY DEF Inv, Gone, Calm, Live, NoneUp
<1>4. Values' BY DEF Inv, Values, Stages, Ended
<1>5. Flags' BY DEF Inv, Flags, Busy
<1>6. Asked' BY Kinds DEF Inv, Asked, Values
<1>7. Alone' BY Kinds DEF Inv, Alone, Calm
<1>8. Settled' BY DEF Inv, Settled, Starting, Calm, Live, NoneUp
<1>9. Orphan' BY DEF Inv, Orphan, Mutex, Live
<1> QED BY <1>1, <1>2, <1>3, <1>4, <1>5, <1>6, <1>7, <1>8, <1>9 DEF Inv

LEMMA AskInv == ASSUME Inv, NEW t \in Poll, Ask(t) PROVE Inv'
<1> USE DEF Ask, Goto
<1>1. Says' /\ Launched' BY DEF Inv, Says, Launched, Ended, Live
<1>2. Meant' BY DEF Inv, Meant
<1>3. Alone' BY DEF Inv, Alone, Calm
<1>4. Orphan' BY DEF Inv, Orphan, Live
<1>5. Values' BY DEF Inv, Values, Stages, Ended
<1>6. Flags' BY DEF Inv, Flags, Busy
<1>7. Mutex' BY Kinds DEF Inv, Mutex
<1>8. Asked' BY Kinds DEF Inv, Asked, Values
<1>9. Tracked' BY DEF Inv, Tracked, Flags, Calm, Live
<1>10. Known' BY DEF Inv, Known, Flags, Calm, Live
<1>11. Gone' BY DEF Inv, Gone, Flags, Calm, Live, NoneUp
<1>12. Written' BY Kinds DEF Inv, Written, Values, Calm, Live, NoneUp
<1>13. Settled' BY Kinds DEF Inv, Settled, Starting, Values, Calm, Live, NoneUp
<1> QED BY <1>1, <1>2, <1>3, <1>4, <1>5, <1>6, <1>7, <1>8, <1>9, <1>10, <1>11, <1>12, <1>13 DEF Inv

LEMMA TakeLockInv == ASSUME Inv, NEW t \in Thread, TakeLock(t) PROVE Inv'
<1> USE DEF TakeLock, Goto
<1>1. Says' /\ Launched' /\ Asked' /\ Meant' /\ Orphan'
  BY DEF Inv, Says, Launched, Asked, Meant, Orphan, Listening, Live
<1>2. Values'
  <2>1. t \in Web BY Kinds DEF Inv, Asked, Thread
  <2>2. found' \in Srv \cup {None} BY Kinds DEF Listening
  <2> QED BY <2>1, <2>2 DEF Inv, Values, Stages
<1>3. Flags' BY DEF Inv, Flags, Busy
<1>4. Mutex' BY Kinds DEF Inv, Mutex, Values
<1>5. Alone' BY Kinds DEF Inv, Alone, Values, Calm
<1>6. Tracked' BY DEF Inv, Tracked, Flags, Calm, Live
<1>7. Known' BY DEF Inv, Known, Flags, Calm, Live
<1>8. Gone' BY DEF Inv, Gone, Flags, Calm, Live, NoneUp
<1>9. Written' BY Kinds DEF Inv, Written, Values, Calm, Live, NoneUp
<1>10. Settled' BY Kinds DEF Inv, Settled, Starting, Mutex, Calm, Live, NoneUp
<1> QED BY <1>1, <1>2, <1>3, <1>4, <1>5, <1>6, <1>7, <1>8, <1>9, <1>10 DEF Inv

LEMMA ReleaseInv == ASSUME Inv, NEW t \in Thread, Release(t) PROVE Inv'
<1> USE DEF Release, Goto
<1>1. Says' /\ Launched' /\ Meant' /\ Alone' /\ Tracked' /\ Known' /\ Gone' /\ Written'
      /\ Orphan'
  BY DEF Inv, Says, Launched, Ended, Live, Meant, Alone, Calm, Tracked, Known, Gone, NoneUp,
         Written, Orphan
<1>2. Values' BY DEF Inv, Values, Stages, Ended
<1>3. Flags' BY DEF Inv, Flags, Busy
<1>4. Mutex' BY Kinds DEF Inv, Mutex, Values
<1>5. Asked' BY DEF Inv, Asked, Values
<1>6. Settled' BY DEF Inv, Settled, Starting, Calm, Live, NoneUp
<1> QED BY <1>1, <1>2, <1>3, <1>4, <1>5, <1>6 DEF Inv

LEMMA ReadRecordInv == ASSUME Inv, NEW t \in Thread, ReadRecord(t) PROVE Inv'
<1> USE DEF ReadRecord, Goto
<1>1. Says' /\ Launched' /\ Mutex' /\ Asked' /\ Meant' /\ Alone' /\ Tracked' /\ Gone'
      /\ Written'
  BY DEF Inv, Says, Launched, Ended, Live, Mutex, Asked, Meant, Alone, Calm, Tracked, Gone,
         NoneUp, Written
<1>2. Values' BY DEF Inv, Values, Stages, Ended
<1>3. Flags' BY DEF Inv, Flags, Busy
<1>4. Known' BY Kinds DEF Inv, Known, Tracked, Mutex, Alone, Values, Calm, Live, Thread
<1>5. Settled' BY DEF Inv, Settled, Starting, Calm, Live, NoneUp
<1>6. Orphan' BY DEF Inv, Orphan, Asked, Values, Live
<1> QED BY <1>1, <1>2, <1>3, <1>4, <1>5, <1>6 DEF Inv

LEMMA ReadStateInv == ASSUME Inv, NEW t \in Thread, ReadState(t) PROVE Inv'
<1> USE DEF ReadState, Goto
<1>1. Says' /\ Launched' /\ Mutex' /\ Asked' /\ Alone' /\ Tracked' /\ Known' /\ Written'
      /\ Orphan'
  BY DEF Inv, Says, Launched, Ended, Live, Mutex, Asked, Alone, Calm, Tracked, Known, Written,
         NoneUp, Orphan
<1>2. Values' BY DEF Inv, Values, Stages, Ended
<1>3. Flags' BY DEF Inv, Flags, Busy
<1>4. Meant' BY DEF Inv, Meant, Says
<1>5. Gone' BY Kinds DEF Inv, Gone, Settled, Starting, Alone, Mutex, Says, Calm, Live, NoneUp,
        Thread
<1>6. Settled' BY DEF Inv, Settled, Starting, Calm, Live, NoneUp
<1> QED BY <1>1, <1>2, <1>3, <1>4, <1>5, <1>6 DEF Inv

LEMMA NoRecordInv == ASSUME Inv, NEW t \in Thread, NoRecord(t) PROVE Inv'
<1> USE DEF NoRecord, Answered, Goto
<1>1. Launched' BY DEF Inv, Launched, Ended, Live
<1>2. Values' BY DEF Inv, Values, Stages, Ended
<1>3. Says' BY DEF Inv, Says, States
<1>4. Flags' BY DEF Inv, Flags, Busy
<1>5. Mutex' BY Kinds DEF Inv, Mutex, Values
<1>6. Asked' BY Kinds DEF Inv, Asked, Values
<1>7. Meant' BY DEF Inv, Meant, Says, Values, States
<1>8. Alone' BY Kinds DEF Inv, Alone, Values, Calm
<1>9. Tracked' BY Kinds DEF Inv, Tracked, Known, Calm, Live
<1>10. Known' BY Kinds DEF Inv, Known, Calm, Live
<1>11. Gone' BY Kinds DEF Inv, Gone, Known, Calm, Live, NoneUp
<1>12. Written' BY Kinds DEF Inv, Written, Values, Says, Calm, Live, NoneUp
<1>13. Settled' BY Kinds DEF Inv, Settled, Known, Calm, Live, NoneUp
<1>14. Orphan' BY Kinds DEF Inv, Orphan, Asked, Values, Says, Live, Over
<1> QED BY <1>1, <1>2, <1>3, <1>4, <1>5, <1>6, <1>7, <1>8, <1>9, <1>10, <1>11, <1>12, <1>13, <1>14
        DEF Inv

LEMMA StaleRecordInv == ASSUME Inv, NEW t \in Thread, StaleRecord(t) PROVE Inv'
<1> USE DEF StaleRecord, Goto
<1>1. Launched' /\ Mutex' /\ Asked' /\ Alone' /\ Tracked' /\ Known' /\ Written' /\ Orphan'
  BY DEF Inv, Launched, Mutex, Asked, Alone, Calm, Tracked, Live, Known, Written, NoneUp, Orphan
<1>2. Values' BY DEF Inv, Values, Stages, Ended
<1>3. Says' BY DEF Inv, Says, States
<1>4. Flags' BY DEF Inv, Flags, Busy
<1>5. Meant' BY DEF Inv, Meant, Says, Values, Over
<1>6. Gone' BY DEF Inv, Gone, Known, Calm, Live, NoneUp
<1>7. Settled' BY DEF Inv, Settled, Starting, Calm, Live, NoneUp
<1> QED BY <1>1, <1>2, <1>3, <1>4, <1>5, <1>6, <1>7 DEF Inv

LEMMA ClearRecordInv == ASSUME Inv, NEW t \in Thread, ClearRecord(t) PROVE Inv'
<1> USE DEF ClearRecord, Goto
<1>1. Says' /\ Launched' /\ Mutex' /\ Asked' /\ Alone' /\ Known' /\ Gone' /\ Written'
  BY DEF Inv, Says, Launched, Ended, Live, Mutex, Asked, Alone, Calm, Known, Gone, NoneUp, Written
<1>2. Values' BY DEF Inv, Values, Stages, Ended
<1>3. Flags' BY DEF Inv, Flags, Busy
<1>4. Meant' BY DEF Inv, Meant, Says, Over
<1>5. Tracked' BY DEF Inv, Tracked, Gone, Calm, Live, NoneUp
<1>6. Settled' BY DEF Inv, Settled, Starting, Calm, Live, NoneUp
<1>7. Orphan' BY Kinds DEF Inv, Orphan, Asked, Meant, Live
<1> QED BY <1>1, <1>2, <1>3, <1>4, <1>5, <1>6, <1>7 DEF Inv

LEMMA ProbeInv == ASSUME Inv, NEW t \in Thread, Probe(t) PROVE Inv'
<1> USE DEF Probe, Goto
<1>1. Flags' /\ Launched' /\ Mutex' /\ Asked' /\ Alone' /\ Tracked' /\ Known' /\ Written'
      /\ Orphan'
  BY DEF Inv, Flags, Launched, Mutex, Asked, Alone, Calm, Tracked, Live, Known, Written, NoneUp,
         Orphan
<1>2. Values' BY DEF Inv, Values, Stages, Ended
<1>3. Says' BY DEF Inv, Says, States
<1>4. Meant' BY DEF Inv, Meant, States
<1>5. Gone' BY DEF Inv, Gone, Calm, Live, NoneUp, Over
<1>6. Settled' BY DEF Inv, Settled, Starting, Calm, Live, NoneUp
<1> QED BY <1>1, <1>2, <1>3, <1>4, <1>5, <1>6 DEF Inv

LEMMA GiveUpInv == ASSUME Inv, NEW t \in Thread, GiveUp(t) PROVE Inv'
<1> USE DEF GiveUp, Goto
<1>1. Mutex' /\ Asked' /\ Alone' /\ Tracked' /\ Known' /\ Written'
  BY DEF Inv, Mutex, Asked, Alone, Calm, Tracked, Ended, Live, Known, Written, NoneUp
<1>2. Values' BY DEF Inv, Values, Stages, Ended
<1>3. Says' BY DEF Inv, Says, States
<1>4. Flags' BY DEF Inv, Flags, Busy
<1>5. Launched' BY DEF Inv, Launched, Values, Ended
<1>6. Meant' BY DEF Inv, Meant, States
<1>7. Gone' BY DEF Inv, Gone, Known, Calm, Live, Ended, NoneUp
<1>8. Settled' BY DEF Inv, Settled, Starting, Calm, Live, NoneUp
<1>9. Orphan' BY DEF Inv, Orphan, Values, Live, Ended
<1> QED BY <1>1, <1>2, <1>3, <1>4, <1>5, <1>6, <1>7, <1>8, <1>9 DEF Inv

LEMMA AsWrittenInv == ASSUME Inv, NEW t \in Thread, AsWritten(t) PROVE Inv'
<1> USE DEF AsWritten, Answered, Goto
<1>1. Says' /\ Launched' BY DEF Inv, Says, Launched
<1>2. Values' BY DEF Inv, Values, Stages, Ended
<1>3. Flags' BY DEF Inv, Flags, Busy
<1>4. Mutex' BY Kinds DEF Inv, Mutex, Values
<1>5. Asked' BY Kinds DEF Inv, Asked, Values
<1>6. Meant' BY DEF Inv, Meant, Values
<1>7. Alone' BY Kinds DEF Inv, Alone, Values, Calm
<1>8. Tracked' BY Kinds DEF Inv, Tracked, Values, Calm, Live
<1>9. Known' BY DEF Inv, Known, Values, Calm, Live
<1>10. Gone' BY DEF Inv, Gone, Meant, Calm, Live, NoneUp, Over, States
<1>11. Written' BY Kinds DEF Inv, Written, Values, Calm, Live, NoneUp
<1>12. Settled' BY Kinds DEF Inv, Settled, Starting, Values, Calm, Live, NoneUp
<1>13. Orphan' BY Kinds DEF Inv, Orphan, Values, Live
<1> QED BY <1>1, <1>2, <1>3, <1>4, <1>5, <1>6, <1>7, <1>8, <1>9, <1>10, <1>11, <1>12, <1>13 DEF
        Inv

LEMMA PrepareInv == ASSUME Inv, NEW t \in Thread, Prepare(t) PROVE Inv'
<1> USE DEF Prepare, Goto
<1>1. Launched' /\ Mutex' /\ Asked' /\ Meant' /\ Alone' /\ Tracked' /\ Known' /\ Gone'
      /\ Orphan'
  BY DEF Inv, Launched, Ended, Live, Mutex, Asked, Meant, Alone, Calm, Tracked, Known, Gone,
         NoneUp, Orphan
<1>2. Values' BY DEF Inv, Values, Stages, Ended
<1>3. Says' BY DEF Inv, Says, Meant
<1>4. Flags' BY DEF Inv, Flags, Busy
<1>5. Written' BY Kinds DEF Inv, Written, Gone, Alone, Mutex, Values, Calm, Live, NoneUp, Thread
<1>6. Settled' BY DEF Inv, Settled, Starting, Calm, Live, NoneUp
<1> QED BY <1>1, <1>2, <1>3, <1>4, <1>5, <1>6 DEF Inv

LEMMA PutInv == ASSUME Inv, NEW t \in Thread, Put(t) PROVE Inv'
<1> USE DEF Put, Answered, Goto
<1>1. Says' /\ Launched' BY DEF Inv, Says, Launched, Ended, Live
<1>2. Values' BY DEF Inv, Values, Stages, Ended
<1>3. Flags' BY DEF Inv, Flags, Busy
<1>4. Mutex' BY Kinds DEF Inv, Mutex, Values
<1>5. Asked' BY Kinds DEF Inv, Asked, Values
<1>6. Meant' BY DEF Inv, Meant, Values
<1>7. Alone' BY Kinds DEF Inv, Alone, Values, Calm
<1>8. Tracked' BY Kinds DEF Inv, Tracked, Values, Calm, Live
<1>9. Known' BY DEF Inv, Known, Values, Calm, Live
<1>10. Gone' BY DEF Inv, Gone, Meant, Values, Calm, Live, NoneUp, Over, States
<1>11. Written' BY Kinds DEF Inv, Written, Alone, Mutex, Values, Calm, Over, States, Thread
<1>12. Settled' BY DEF Inv, Settled, Written, Calm, Live, NoneUp
<1>13. Orphan' BY Kinds DEF Inv, Orphan, Values, Live, Over
<1> QED BY <1>1, <1>2, <1>3, <1>4, <1>5, <1>6, <1>7, <1>8, <1>9, <1>10, <1>11, <1>12, <1>13 DEF
        Inv

LEMMA PutFailsInv == ASSUME Inv, NEW t \in Thread, PutFails(t) PROVE Inv'
<1> USE DEF PutFails, Goto
<1>1. Says' /\ Launched' /\ Mutex' /\ Asked' /\ Meant' /\ Alone' /\ Tracked' /\ Known' /\ Gone'
      /\ Written' /\ Orphan'
  BY DEF Inv, Says, Launched, Ended, Live, Mutex, Asked, Meant, Alone, Calm, Tracked, Known, Gone,
         NoneUp, Written, Orphan
<1>2. Values' BY DEF Inv, Values, Stages, Ended
<1>3. Flags' BY DEF Inv, Flags, Busy
<1>4. Settled' BY Kinds DEF Inv, Settled, Starting, Written, Meant, Calm, Live, NoneUp
<1> QED BY <1>1, <1>2, <1>3, <1>4 DEF Inv

LEMMA AdoptInv == ASSUME Inv, NEW t \in Thread, Adopt(t) PROVE Inv'
<1> USE DEF Adopt, Goto
<1>1. Says' /\ Mutex' /\ Asked' /\ Meant' /\ Alone' /\ Tracked' /\ Known' /\ Gone' /\ Written'
  BY DEF Inv, Says, Mutex, Asked, Meant, Alone, Calm, Tracked, Ended, Live, Known, Gone, NoneUp,
         Written
<1>2. Values' BY DEF Inv, Values, Stages, Ended
<1>3. Flags' BY DEF Inv, Flags, Busy
<1>4. Launched' BY DEF Inv, Launched, Values, Ended
<1>5. Settled' BY DEF Inv, Settled, Starting, Calm, Live, Ended, NoneUp
<1>6. Orphan' BY DEF Inv, Orphan, Values, Live, Ended, Listening, Adoptable
<1> QED BY <1>1, <1>2, <1>3, <1>4, <1>5, <1>6 DEF Inv

LEMMA LaunchFailsInv == ASSUME Inv, NEW t \in Thread, LaunchFails(t) PROVE Inv'
<1> USE DEF LaunchFails, Goto
<1>1. Launched' /\ Mutex' /\ Asked' /\ Alone' /\ Tracked' /\ Known' /\ Gone' /\ Written'
  BY DEF Inv, Launched, Ended, Live, Mutex, Asked, Alone, Calm, Tracked, Known, Gone, NoneUp,
         Written
<1>2. Values' BY DEF Inv, Values, Stages, Ended
<1>3. Says' BY DEF Inv, Says, States
<1>4. Flags' BY DEF Inv, Flags, Busy
<1>5. Meant' BY DEF Inv, Meant, Says, States
<1>6. Settled' BY DEF Inv, Settled, Starting, Calm, Live, NoneUp
<1>7. Orphan' BY DEF Inv, Orphan, Asked, Live
<1> QED BY <1>1, <1>2, <1>3, <1>4, <1>5, <1>6, <1>7 DEF Inv

LEMMA LaunchInv == ASSUME Inv, NEW t \in Thread, Launch(t) PROVE Inv'
<1> USE DEF Launch, Goto
<1>1. Says' /\ Flags' /\ Mutex' /\ Asked' /\ Meant' /\ Alone'
  BY DEF Inv, Says, Flags, Mutex, Asked, Meant, Alone, Calm
<1>2. Values' BY DEF Inv, Values, Stages, Ended
<1>3. Launched' BY DEF Inv, Launched, Values, Ended, Live
<1>4. Tracked' BY DEF Inv, Tracked, Asked, Values, Calm, Live, Thread
<1>5. Known' BY Kinds DEF Inv, Known, Gone, Mutex, Asked, Alone, Values, Calm, Live, Ended,
        NoneUp, Thread
<1>6. Gone' BY Kinds DEF Inv, Gone, Alone, Mutex, Asked, Values, Calm, Thread
<1>7. Written' BY Kinds DEF Inv, Written, Alone, Mutex, Asked, Calm, Over, States, Thread
<1>8. Settled' BY DEF Inv, Settled, Starting, Asked, Values, Thread
<1>9. Orphan' BY Kinds DEF Inv, Orphan, Launched, Live
<1> QED BY <1>1, <1>2, <1>3, <1>4, <1>5, <1>6, <1>7, <1>8, <1>9 DEF Inv

LEMMA WriteRecordInv == ASSUME Inv, NEW t \in Thread, WriteRecord(t) PROVE Inv'
<1> USE DEF WriteRecord, Goto
<1>1. Launched' /\ Mutex' /\ Asked' /\ Alone' /\ Known' /\ Written'
  BY DEF Inv, Launched, Ended, Live, Mutex, Asked, Alone, Calm, Known, Written, NoneUp
<1>2. Values' BY DEF Inv, Values, Stages, Ended
<1>3. Says' BY DEF Inv, Says, States
<1>4. Flags' BY DEF Inv, Flags, Busy
<1>5. Meant' BY DEF Inv, Meant, Says, States
<1>6. Tracked' BY DEF Inv, Tracked, Known, Calm, Live
<1>7. Gone' BY DEF Inv, Gone, Says, Calm, Live, NoneUp, Over
<1>8. Settled' BY DEF Inv, Settled, Starting, Asked, Says, Calm, Live, NoneUp
<1>9. Orphan' BY DEF Inv, Orphan, Mutex, Asked, Thread
<1> QED BY <1>1, <1>2, <1>3, <1>4, <1>5, <1>6, <1>7, <1>8, <1>9 DEF Inv

LEMMA DiedEarlyInv == ASSUME Inv, NEW t \in Thread, DiedEarly(t) PROVE Inv'
<1> USE DEF DiedEarly, Goto
<1>1. Launched' /\ Mutex' /\ Asked' /\ Alone' /\ Tracked' /\ Known' /\ Written'
  BY DEF Inv, Launched, Mutex, Asked, Alone, Calm, Tracked, Live, Known, Written, NoneUp
<1>2. Values' BY DEF Inv, Values, Stages, Ended
<1>3. Says' BY DEF Inv, Says, States
<1>4. Flags' BY DEF Inv, Flags, Busy
<1>5. Meant' BY DEF Inv, Meant, Says, States
<1>6. Gone' BY DEF Inv, Gone, Known, Calm, Live, NoneUp
<1>7. Settled' BY DEF Inv, Settled, Known, Calm, Live, NoneUp
<1>8. Orphan' BY DEF Inv, Orphan, Asked, Live
<1> QED BY <1>1, <1>2, <1>3, <1>4, <1>5, <1>6, <1>7, <1>8 DEF Inv

LEMMA StopRecordedInv == ASSUME Inv, NEW t \in Thread, StopRecorded(t) PROVE Inv'
<1> USE DEF StopRecorded, Goto
<1>1. Says' /\ Mutex' /\ Asked' /\ Meant' /\ Alone' /\ Tracked' /\ Known' /\ Written'
  BY DEF Inv, Says, Mutex, Asked, Meant, Alone, Calm, Tracked, Ended, Live, Known, Written, NoneUp
<1>2. Values' BY DEF Inv, Values, Stages, Ended
<1>3. Flags' BY DEF Inv, Flags, Busy
<1>4. Launched' BY DEF Inv, Launched, Values, Ended
<1>5. Gone' BY Kinds DEF Inv, Gone, Known, Tracked, Calm, Live, Ended, NoneUp
<1>6. Settled' BY DEF Inv, Settled, Starting, Calm, Live, NoneUp
<1>7. Orphan' BY DEF Inv, Orphan, Asked, Values, Ended
<1> QED BY <1>1, <1>2, <1>3, <1>4, <1>5, <1>6, <1>7 DEF Inv

LEMMA StopUnrecordedInv == ASSUME Inv, NEW t \in Thread, StopUnrecorded(t) PROVE Inv'
<1> USE DEF StopUnrecorded, Goto
<1>1. Says' /\ Launched' /\ Mutex' /\ Asked' /\ Meant' /\ Alone' /\ Tracked' /\ Known'
      /\ Written' /\ Orphan'
  BY DEF Inv, Says, Launched, Mutex, Asked, Meant, Alone, Calm, Tracked, Live, Known, Written,
         NoneUp, Orphan
<1>2. Values' BY DEF Inv, Values, Stages, Ended
<1>3. Flags' BY DEF Inv, Flags, Busy
<1>4. Gone' BY Kinds DEF Inv, Gone, Tracked, Alone, Mutex, Calm, Live, NoneUp, Thread
<1>5. Settled' BY DEF Inv, Settled, Starting, Calm, Live, NoneUp
<1> QED BY <1>1, <1>2, <1>3, <1>4, <1>5 DEF Inv

LEMMA DropRecordInv == ASSUME Inv, NEW t \in Thread, DropRecord(t) PROVE Inv'
<1> USE DEF DropRecord, Goto
<1>1. Launched' /\ Mutex' /\ Asked' /\ Alone' /\ Known' /\ Gone' /\ Written'
  BY DEF Inv, Launched, Ended, Live, Mutex, Asked, Alone, Calm, Known, Gone, NoneUp, Written
<1>2. Values' BY DEF Inv, Values, Stages, Ended
<1>3. Says' BY DEF Inv, Says, States
<1>4. Flags' BY DEF Inv, Flags, Busy
<1>5. Meant' BY DEF Inv, Meant, Says, States
<1>6. Tracked' BY DEF Inv, Tracked, Gone, Calm, Live, NoneUp
<1>7. Settled' BY DEF Inv, Settled, Starting, Calm, Live, NoneUp
<1>8. Orphan' BY Kinds DEF Inv, Orphan, Asked, Live
<1> QED BY <1>1, <1>2, <1>3, <1>4, <1>5, <1>6, <1>7, <1>8 DEF Inv

LEMMA ListenInv == ASSUME Inv, NEW s \in Srv, Listen(s) PROVE Inv'
<1> USE DEF Listen, threads
<1>1. Says' /\ Flags' /\ Launched' /\ Mutex' /\ Asked' /\ Meant' /\ Alone' /\ Tracked' /\ Known'
      /\ Gone' /\ Written' /\ Orphan'
  BY DEF Inv, Says, Flags, Launched, Ended, Live, Mutex, Asked, Meant, Alone, Calm, Tracked,
         Known, Gone, NoneUp, Written, Orphan
<1>2. Values' BY Kinds DEF Inv, Values, Thread
<1>3. Settled' BY DEF Inv, Settled, Starting, Calm, Live, NoneUp
<1> QED BY <1>1, <1>2, <1>3 DEF Inv

LEMMA DieInv == ASSUME Inv, NEW s \in Srv, Die(s) PROVE Inv'
<1> USE DEF Die, threads
<1>1. Values' /\ Says' /\ Mutex' /\ Asked' /\ Meant' /\ Alone' /\ Tracked' /\ Known' /\ Gone'
      /\ Written'
  BY DEF Inv, Values, Ended, Says, Mutex, Asked, Meant, Alone, Calm, Tracked, Live, Known, Gone,
         NoneUp, Written
<1>2. Flags' BY DEF Inv, Flags, Busy
<1>3. Launched' BY DEF Inv, Launched, Values, Ended
<1>4. Settled' BY DEF Inv, Settled, Starting, Calm, NoneUp
<1>5. Orphan' BY DEF Inv, Orphan, Values, Live, Ended
<1> QED BY <1>1, <1>2, <1>3, <1>4, <1>5 DEF Inv

LEMMA AlienInv == ASSUME Inv, Alien PROVE Inv'
<1> USE DEF Alien, threads
<1>1. Says' /\ Flags' /\ Launched' /\ Mutex' /\ Asked' /\ Meant' /\ Alone' /\ Tracked' /\ Known'
      /\ Gone' /\ Written' /\ Orphan'
  BY DEF Inv, Says, Flags, Launched, Ended, Live, Mutex, Asked, Meant, Alone, Calm, Tracked,
         Known, Gone, NoneUp, Written, Orphan
<1>2. Values' BY Kinds DEF Inv, Values, Thread
<1>3. Settled' BY DEF Inv, Settled, Starting, Calm, Live, NoneUp
<1> QED BY <1>1, <1>2, <1>3 DEF Inv

LEMMA CrashInv == ASSUME Inv, Crash PROVE Inv'
<1> USE DEF Crash
<1>1. Says' /\ Launched' /\ Meant' /\ Alone' /\ Known' /\ Gone' /\ Orphan'
  BY DEF Inv, Says, Launched, Ended, Live, Meant, Alone, Known, Gone, Orphan
<1>2. Values' BY Kinds DEF Inv, Values, Stages, Ended
<1>3. Flags' BY DEF Inv, Flags, Busy
<1>4. Mutex' BY Kinds DEF Inv, Mutex
<1>5. Asked' BY Kinds DEF Inv, Asked
<1>6. Tracked' BY DEF Inv, Tracked, Values, Calm
<1>7. Written' BY DEF Inv, Written, Values, Calm
<1>8. Settled' BY DEF Inv, Settled, Values, Calm
<1> QED BY <1>1, <1>2, <1>3, <1>4, <1>5, <1>6, <1>7, <1>8 DEF Inv

LEMMA StutterInv == ASSUME Inv, UNCHANGED vars PROVE Inv'
<1> USE DEF vars, threads
<1>1. Says' /\ Launched' /\ Mutex' /\ Asked' /\ Meant' /\ Alone' /\ Tracked' /\ Known' /\ Gone'
      /\ Written' /\ Orphan'
  BY DEF Inv, Says, Launched, Ended, Live, Mutex, Asked, Meant, Alone, Calm, Tracked, Known, Gone,
         NoneUp, Written, Orphan
<1>2. Values' BY Kinds DEF Inv, Values, Thread
<1>3. Flags' BY DEF Inv, Flags, Busy
<1>4. Settled' BY DEF Inv, Settled, Starting, Calm, Live, NoneUp
<1> QED BY <1>1, <1>2, <1>3, <1>4 DEF Inv

-----------------------------------------------------------------------------

LEMMA InvInit == Init => Inv
<1> SUFFICES ASSUME Init PROVE Inv
  OBVIOUS
<1> USE DEF Init
<1>6. Values
  <2>1. crashes \in 0..MaxCrashes BY Kinds
  <2> QED BY <2>1 DEF Values, Stages
<1>1. Says /\ Flags BY Kinds DEF Says, Flags, States
<1>2. Launched /\ Mutex /\ Asked /\ Meant BY Kinds DEF Launched, Mutex, Asked, Meant
<1>3. NoneUp BY DEF NoneUp, Live
<1>4. Alone /\ Tracked /\ Known /\ Gone /\ Written /\ Settled
  BY <1>3, Kinds DEF Alone, Tracked, Known, Gone, Written, Settled, NoneUp
<1>5. Orphan BY DEF Orphan
<1> QED BY <1>1, <1>2, <1>4, <1>5, <1>6 DEF Inv

LEMMA ThreadInv == ASSUME Inv, NEW t \in Thread, Step(t) PROVE Inv'
<1>1. CASE TakeLock(t) \/ Release(t) BY <1>1, TakeLockInv, ReleaseInv
<1>2. CASE Status(t)
  BY <1>2, ReadRecordInv, ReadStateInv, NoRecordInv, StaleRecordInv, ClearRecordInv, ProbeInv,
     GiveUpInv, AsWrittenInv DEF Status
<1>3. CASE SetState(t) BY <1>3, PrepareInv, PutInv, PutFailsInv DEF SetState
<1>4. CASE Start(t)
  BY <1>4, AdoptInv, LaunchFailsInv, LaunchInv, WriteRecordInv, DiedEarlyInv DEF Start
<1>5. CASE Stop(t) BY <1>5, StopRecordedInv, StopUnrecordedInv, DropRecordInv DEF Stop
<1> QED BY <1>1, <1>2, <1>3, <1>4, <1>5 DEF Step

LEMMA StepInv == Inv /\ [Next]_vars => Inv'
<1> SUFFICES ASSUME Inv, [Next]_vars PROVE Inv'
  OBVIOUS
<1>1. CASE \E t \in Web, what \in {"start", "stop", "restart"} : Operate(t, what)
  BY <1>1, OperateInv
<1>2. CASE \E t \in Poll : Ask(t)
  BY <1>2, AskInv
<1>3. CASE \E t \in Thread : Step(t)
  BY <1>3, ThreadInv
<1>4. CASE \E s \in Srv : Listen(s) \/ Die(s)
  BY <1>4, ListenInv, DieInv
<1>5. CASE Alien \/ Crash
  BY <1>5, AlienInv, CrashInv
<1>6. CASE UNCHANGED vars
  BY <1>6, StutterInv
<1> QED BY <1>1, <1>2, <1>3, <1>4, <1>5, <1>6 DEF Next

LEMMA Invariant == Spec => []Inv
BY InvInit, StepInv, PTL DEF Spec

-----------------------------------------------------------------------------

\* The record, the state file, the lock and every thread stay well typed.
THEOREM TypeCorrect == Spec => []TypeOK
<1>1. Inv => TypeOK BY TypeParts DEF Inv
<1> QED BY <1>1, Invariant, PTL

\* Without a poll beside an operation and without a kill, a live server is the one
\* preview.pid names, whatever starts, stops and restarts (preview.py:435).
THEOREM ServersAreOnRecord == Spec => []OnRecord
<1>1. Inv => OnRecord
  BY Kinds DEF Inv, Tracked, OnRecord, Quiet, Calm
<1> QED BY <1>1, Invariant, PTL

\* ... and who is told that the preview is stopped or failed has nothing running
\* (preview.py:369).
THEOREM StoppedMeansStopped == Spec => []StoppedIsStopped
<1>1. Inv => StoppedIsStopped
  BY Kinds DEF Inv, Settled, Starting, StoppedIsStopped, Quiet, Calm, NoneUp, Over
<1> QED BY <1>1, Invariant, PTL

\* An operation that begins beside a server without a record has ended it when it
\* ends without an error, whatever was polled or killed, if the command configured
\* does its own listening (preview.py:225-239, 485-492).
THEOREM OrphansAreEnded == Spec => OrphansEnded
<1> DEFINE Gives ==
         \A t \in Web :
           ~wraps /\ lock = t /\ lock' = None /\ pc[t] = "end" /\ found # None => ~Live(found)
<1>1. Inv => Gives
  BY DEF Inv, Orphan, Live
<1>2. Inv /\ [Next]_vars => [Gives]_vars
  BY <1>1
<1> QED BY <1>2, Invariant, PTL DEF Spec, OrphansEnded

=============================================================================
