----------------------------- MODULE Push_proofs -----------------------------
(***************************************************************************)
(* For any number of threads, loops and browsers: the list of              *)
(* subscriptions is what the changes that got through have made of it, as  *)
(* long as no two processes write at a time.                               *)
(***************************************************************************)
EXTENDS Push, TLAPS

Busy == {"open", "write", "replace"}

\* The lock belongs to the thread that is between taking and giving it back.
Locked == \A t \in Thread : pc[t] \in Busy \cup {"read"} => lock = t

\* Whoever is about to change the list knows how.
Asked == \A p \in Writer : pc[p] \in Busy \cup {"lock", "read"} => op[p] \in Changes

\* Where each file stands for the one writer there is.
Serial ==
    /\ store = File(answered, {})
    /\ \A p, q \in Writer : pc[p] \in Busy /\ pc[q] \in Busy => p = q
    /\ \A p \in Writer : pc[p] \in Busy => list[p] = Done(op[p], answered)
    /\ \A p \in Writer : pc[p] = "write" => temp # None /\ temp = File(Torn, {p})
    /\ \A p \in Writer : pc[p] = "replace" => temp # None /\ temp = File(list[p], {})
    /\ temp # None => \A p \in temp.open : pc[p] = "write"

Inv == TypeOK /\ Locked /\ Asked /\ (~mixed => Serial)

-----------------------------------------------------------------------------

LEMMA InitInv == Init => Inv
<1> SUFFICES ASSUME Init PROVE Inv OBVIOUS
<1>1. \A p \in Writer : pc[p] = "ready" /\ op[p] = None /\ list[p] = {} BY DEF Init
<1>2. TypeOK
  <2>1. store \in Files BY DEF Init, Files, File
  <2>2. /\ pc \in [Writer -> {"ready", "lock", "next", "read", "open", "write", "replace", "over"}]
        /\ op \in [Writer -> Changes \cup {None}] /\ list \in [Writer -> SUBSET Endpoint]
    BY DEF Init
  <2>3. gone \in [Loop -> SUBSET Endpoint] /\ temp = None BY DEF Init
  <2>4. kills \in 0..MaxKills BY PushAssumption DEF Init
  <2>5. lock \in Thread \cup {Free} /\ alive \subseteq Endpoint /\ answered \subseteq Endpoint
    BY DEF Init
  <2>6. mixed \in BOOLEAN BY DEF Init
  <2> QED BY <2>1, <2>2, <2>3, <2>4, <2>5, <2>6 DEF TypeOK
<1>3. Locked BY <1>1 DEF Locked, Busy, Writer
<1>4. Asked BY <1>1 DEF Asked, Busy
<1>5. Serial BY <1>1 DEF Init, Serial, Busy, File
<1> QED BY <1>2, <1>3, <1>4, <1>5 DEF Inv

\* What a browser asks for, and what a loop is to remove
LEMMA AskInv ==
    ASSUME Inv, NEW t \in Thread, NEW o \in Changes, Ask(t, o)
    PROVE  Inv'
<1> USE DEF Ask, To, files
<1>1. TypeOK' BY DEF Inv, TypeOK, Writer
<1>2. Locked' BY DEF Inv, TypeOK, Locked, Busy, Writer
<1>3. Asked' BY DEF Inv, TypeOK, Asked, Busy, Writer
<1>4. ~mixed' => Serial' BY DEF Inv, TypeOK, Serial, Busy, Writer
<1> QED BY <1>1, <1>2, <1>3, <1>4 DEF Inv

LEMMA ServeInv ==
    ASSUME Inv, NEW t \in Thread, Serve(t)
    PROVE  Inv'
<1>1. CASE Subscribe(t)
  <2>1. PICK e \in alive : Ask(t, Add(e)) BY <1>1 DEF Subscribe
  <2>2. Add(e) \in Changes BY <2>1 DEF Inv, TypeOK, Changes, Add
  <2> QED BY <2>1, <2>2, AskInv
<1>2. CASE Unsubscribe(t)
  <2>1. PICK e \in Endpoint : Ask(t, Remove(e)) BY <1>2 DEF Unsubscribe
  <2>2. Remove(e) \in Changes BY DEF Changes, Remove
  <2> QED BY <2>1, <2>2, AskInv
<1>3. CASE TakeLock(t)
  <2> USE <1>3 DEF TakeLock, To, files
  <2>1. TypeOK' BY DEF Inv, TypeOK, Writer
  <2>2. Locked' BY PushAssumption DEF Inv, TypeOK, Locked, Busy, Writer
  <2>3. Asked' BY DEF Inv, TypeOK, Asked, Busy, Writer
  <2>4. ~mixed' => Serial' BY DEF Inv, TypeOK, Serial, Busy, Writer
  <2> QED BY <2>1, <2>2, <2>3, <2>4 DEF Inv
<1> QED BY <1>1, <1>2, <1>3 DEF Serve

LEMMA SendInv ==
    ASSUME Inv, NEW l \in Loop, Announce(l) \/ Unconfigured(l) \/ NextGone(l)
    PROVE  Inv'
<1>1. CASE Announce(l) \/ Unconfigured(l)
  <2>1. l \in Writer /\ l \notin Thread BY PushAssumption DEF Writer
  <2>2. PICK where \in {"over", "next"} : pc[l] = "ready" /\ pc' = [pc EXCEPT ![l] = where]
    BY <1>1 DEF Announce, Unconfigured, To
  <2>3. gone' \in [Loop -> SUBSET Endpoint]
    BY <1>1 DEF Announce, Unconfigured, Whole, Inv, TypeOK, Files
  <2>4. UNCHANGED <<files, lock, op, list, alive, kills, answered, mixed>>
    BY <1>1 DEF Announce, Unconfigured
  <2> USE <2>1, <2>2, <2>3, <2>4 DEF files
  <2>5. TypeOK' BY DEF Inv, TypeOK
  <2>6. Locked' BY DEF Inv, TypeOK, Locked, Busy
  <2>7. Asked' BY DEF Inv, TypeOK, Asked, Busy
  <2>8. ~mixed' => Serial'
    <3>1. \A p \in Writer : pc[p] \in Busy \/ pc'[p] \in Busy => pc'[p] = pc[p]
      BY DEF Inv, TypeOK, Busy
    <3> QED BY <3>1 DEF Inv, TypeOK, Serial, Busy, Files
  <2> QED BY <2>5, <2>6, <2>7, <2>8 DEF Inv
<1>2. CASE NextGone(l)
  <2>1. l \in Writer /\ l \notin Thread BY PushAssumption DEF Writer
  <2>2. PICK where \in {"over", "read"}, o \in Changes \cup {None}, left \in SUBSET Endpoint :
          /\ pc' = [pc EXCEPT ![l] = where] /\ gone' = [gone EXCEPT ![l] = left]
          /\ where = "read" => op' = [op EXCEPT ![l] = o] /\ o \in Changes
          /\ where = "over" => op' = op
    <3>1. CASE gone[l] = {} BY <1>2, <3>1 DEF NextGone, To, Inv, TypeOK
    <3>2. CASE gone[l] # {}
      <4>1. PICK e \in gone[l] : /\ op' = [op EXCEPT ![l] = Remove(e)] /\ To(l, "read")
                                /\ gone' = [gone EXCEPT ![l] = @ \ {e}]
        BY <1>2, <3>2 DEF NextGone
      <4>2. Remove(e) \in Changes /\ gone[l] \ {e} \in SUBSET Endpoint
        BY <4>1 DEF Inv, TypeOK, Changes, Remove
      <4> QED BY <4>1, <4>2 DEF To
    <3> QED BY <3>1, <3>2
  <2> USE <1>2, <2>1, <2>2 DEF NextGone, files
  <2>3. TypeOK' BY DEF Inv, TypeOK
  <2>4. Locked' BY DEF Inv, TypeOK, Locked, Busy
  <2>5. Asked' BY DEF Inv, TypeOK, Asked, Busy
  <2>6. ~mixed' => Serial'
    <3>1. \A p \in Writer : pc'[p] \in Busy => pc'[p] = pc[p] /\ op'[p] = op[p]
      BY DEF Inv, TypeOK, Busy
    <3>2. \A p \in Writer : pc[p] \in Busy => pc'[p] = pc[p] BY DEF Inv, TypeOK, Busy
    <3> QED BY <3>1, <3>2 DEF Inv, TypeOK, Serial, Busy, Files
  <2> QED BY <2>3, <2>4, <2>5, <2>6 DEF Inv
<1> QED BY <1>1, <1>2

-----------------------------------------------------------------------------
(* The four steps of a change. *)

\* Nobody else is writing when one that is not mixed up with another begins.
LEMMA ReadInv ==
    ASSUME Inv, NEW p \in Writer, Read(p)
    PROVE  Inv'
<1> USE DEF Read, To, files
<1>1. op[p] \in Changes BY DEF Inv, Asked, Busy
<1>2. TypeOK' BY <1>1 DEF Inv, TypeOK, Whole, Done, Changes, Files
<1>3. Locked' BY DEF Inv, TypeOK, Locked, Busy, Writer
<1>4. Asked' BY DEF Inv, TypeOK, Asked, Busy
<1>5. ASSUME ~mixed' PROVE Serial'
  <2>1. Serial /\ \A q \in Writing : Together(p, q) BY <1>5 DEF Inv
  <2>2. ASSUME NEW q \in Writer, pc[q] \in Busy PROVE FALSE
    <3>1. q \in Writing BY <2>2 DEF Writing, Busy
    <3>2. Together(p, q) /\ p # q BY <2>1, <2>2, <3>1 DEF Busy
    <3>3. lock = p /\ lock = q BY <2>2, <3>2 DEF Inv, Locked, Together, Busy
    <3> QED BY <3>2, <3>3
  <2>3. Whole(store) = answered
    BY <2>1, PushAssumption DEF Serial, Whole, File, Inv, TypeOK
  <2>4. \A q \in Writer : pc'[q] \in Busy => q = p BY <2>2 DEF Inv, TypeOK, Busy
  <2>5. list'[p] = Done(op[p], answered) BY <2>3 DEF Inv, TypeOK
  <2>6. temp' # None => \A q \in temp'.open : FALSE
    BY <2>1, <2>2 DEF Serial, Busy, Inv, TypeOK, Files
  <2> QED BY <2>1, <2>4, <2>5, <2>6 DEF Serial, Busy, Inv, TypeOK, Done
<1> QED BY <1>2, <1>3, <1>4, <1>5 DEF Inv

LEMMA OpenInv ==
    ASSUME Inv, NEW p \in Writer, Open(p)
    PROVE  Inv'
<1> USE DEF Open, To
<1>1. TypeOK' BY DEF Inv, TypeOK, Files, File
<1>2. Locked' BY DEF Inv, TypeOK, Locked, Busy, Writer
<1>3. Asked' BY DEF Inv, TypeOK, Asked, Busy
<1>4. ASSUME ~mixed' PROVE Serial'
  <2>1. Serial BY <1>4 DEF Inv
  <2>2. temp # None => temp.open = {}
    <3> SUFFICES ASSUME temp # None, NEW q \in temp.open PROVE FALSE
      BY DEF Inv, TypeOK, Files
    <3>1. q \in Writer /\ pc[q] = "write" BY <2>1 DEF Serial, Inv, TypeOK, Files
    <3> QED BY <2>1, <3>1 DEF Serial, Busy
  <2>3. temp' = File(Torn, {p}) /\ temp' # None BY <2>2, PushAssumption DEF File, Writer
  <2>4. \A q \in Writer : pc'[q] \in Busy => q = p BY <2>1 DEF Serial, Busy, Inv, TypeOK
  <2>5. pc'[p] = "write" /\ temp'.open = {p} BY <2>3 DEF File, Inv, TypeOK
  <2>6. store' = File(answered', {}) BY <2>1 DEF Serial
  <2>7. list'[p] = Done(op[p], answered') /\ op' = op BY <2>1 DEF Serial, Busy, Done
  <2> QED BY <2>3, <2>4, <2>5, <2>6, <2>7 DEF Serial, Busy, Done
<1> QED BY <1>1, <1>2, <1>3, <1>4 DEF Inv

LEMMA WriteInv ==
    ASSUME Inv, NEW p \in Writer, Write(p)
    PROVE  Inv'
<1> USE DEF Write, To
<1>1. TypeOK'
  <2>1. \A file \in Files : Filled(file, p) \subseteq Files
    BY DEF Inv, TypeOK, Files, Filled, File
  <2> QED BY <2>1 DEF Inv, TypeOK
<1>2. Locked' BY DEF Inv, TypeOK, Locked, Busy, Writer
<1>3. Asked' BY DEF Inv, TypeOK, Asked, Busy
<1>4. ASSUME ~mixed' PROVE Serial'
  <2>1. Serial BY <1>4 DEF Inv
  <2>2. UNCHANGED store BY <2>1 DEF Serial, File
  <2>3. temp = File(Torn, {p}) BY <2>1 DEF Serial
  <2>4. temp # None BY <2>1 DEF Serial
  <2>5. Filled(temp, p) = {File(list[p], {})}
    BY <2>3 DEF Filled, File
  <2>6. temp' = File(list[p], {}) /\ temp' # None
    BY <2>3, <2>4, <2>5, PushAssumption DEF File, Inv, TypeOK
  <2>7. \A q \in Writer : pc'[q] \in Busy => q = p BY <2>1 DEF Serial, Busy, Inv, TypeOK
  <2> QED BY <2>1, <2>2, <2>6, <2>7 DEF Serial, Busy, Inv, TypeOK, File
<1> QED BY <1>1, <1>2, <1>3, <1>4 DEF Inv

LEMMA ReplaceInv ==
    ASSUME Inv, NEW p \in Writer, Replace(p)
    PROVE  Inv'
<1> USE DEF Replace, Ends, To, files
<1>1. op[p] \in Changes BY DEF Inv, Asked, Busy
<1>2. TypeOK' BY <1>1 DEF Inv, TypeOK, Done, Changes, Writer
<1>3. Locked' BY PushAssumption DEF Inv, TypeOK, Locked, Busy, Writer
<1>4. Asked' BY DEF Inv, TypeOK, Asked, Busy
<1>5. ASSUME ~mixed' PROVE Serial'
  <2>1. Serial BY <1>5 DEF Inv
  <2>2. \A q \in Writer : pc'[q] \notin Busy BY <2>1 DEF Serial, Busy, Inv, TypeOK
  <2>3. temp = File(list[p], {}) /\ list[p] = Done(op[p], answered) BY <2>1 DEF Serial, Busy
  <2>4. CASE temp # None
    BY <2>1, <2>2, <2>3, <2>4 DEF Serial, Busy
  <2>5. CASE temp = None
    BY <2>1, <2>2, <2>5 DEF Serial, Busy
  <2> QED BY <2>4, <2>5
<1> QED BY <1>2, <1>3, <1>4, <1>5 DEF Inv

-----------------------------------------------------------------------------

LEMMA KilledInv ==
    ASSUME Inv, NEW dead \in SUBSET Writer, NEW where \in {"ready", "over"}, Killed(dead, where),
           lock' \in Thread \cup {Free},
           \A t \in Thread \ dead : pc[t] \in Busy \cup {"read"} => lock' = lock
    PROVE  Inv'
<1> USE DEF Killed
<1>1. TypeOK' BY PushAssumption DEF Inv, TypeOK, Files, File, Writer
<1>2. Locked' BY DEF Inv, TypeOK, Locked, Busy, Writer
<1>3. Asked' BY DEF Inv, TypeOK, Asked, Busy
<1>4. ASSUME ~mixed' PROVE Serial'
  <2>1. Serial BY <1>4 DEF Inv
  <2>2. store' = store BY <2>1 DEF Serial, File, Inv, TypeOK
  <2>3. \A p \in Writer : pc'[p] \in Busy =>
           pc[p] = pc'[p] /\ p \notin dead /\ op'[p] = op[p] /\ list'[p] = list[p]
    BY DEF Inv, TypeOK, Busy
  <2>4. ASSUME NEW p \in Writer, pc'[p] = "write" PROVE temp' # None /\ temp' = File(Torn, {p})
    <3>1. temp # None /\ temp = File(Torn, {p}) /\ p \notin dead
      BY <2>1, <2>3, <2>4 DEF Serial, Busy
    <3>2. temp' = File(Torn, {p}) BY <3>1 DEF File
    <3> QED BY <3>1, <3>2
  <2>5. ASSUME NEW p \in Writer, pc'[p] = "replace" PROVE temp' # None /\ temp' = File(list'[p], {})
    <3>1. temp # None /\ temp = File(list'[p], {}) BY <2>1, <2>3, <2>5 DEF Serial, Busy
    <3>2. temp' = File(list'[p], {}) BY <3>1 DEF File
    <3> QED BY <3>1, <3>2
  <2>6. temp' # None => \A p \in temp'.open : pc'[p] = "write"
    BY <2>1 DEF Serial, File, Inv, TypeOK, Files
  <2> QED BY <2>1, <2>2, <2>3, <2>4, <2>5, <2>6 DEF Serial, Done
<1> QED BY <1>1, <1>2, <1>3, <1>4 DEF Inv

LEMMA StutterInv ==
    ASSUME Inv, Expire \/ UNCHANGED vars
    PROVE  Inv'
<1> USE DEF Expire, vars, files, writers
<1>1. TypeOK' BY DEF Inv, TypeOK
<1>2. Locked' BY DEF Inv, Locked
<1>3. Asked' BY DEF Inv, Asked
<1>4. ~mixed' => Serial' BY DEF Inv, Serial, Done
<1> QED BY <1>1, <1>2, <1>3, <1>4 DEF Inv

LEMMA NextInv == Inv /\ [Next]_vars => Inv'
<1> SUFFICES ASSUME Inv, [Next]_vars PROVE Inv' OBVIOUS
<1>1. CASE \E t \in Thread : Serve(t) BY <1>1, ServeInv
<1>2. CASE \E l \in Loop : Send(l)
  <2>1. PICK l \in Loop : Send(l) BY <1>2
  <2>2. CASE Announce(l) \/ Unconfigured(l) \/ NextGone(l) BY <2>2, SendInv
  <2>3. CASE LoopKilled(l)
    <3>1. {l} \in SUBSET Writer /\ lock' = lock BY <2>3 DEF Writer, LoopKilled
    <3> QED BY <2>3, <3>1, KilledInv DEF LoopKilled, Inv, TypeOK
  <2> QED BY <2>1, <2>2, <2>3 DEF Send
<1>3. CASE \E p \in Writer : Change(p)
  BY <1>3, ReadInv, OpenInv, WriteInv, ReplaceInv DEF Change
<1>4. CASE DashboardKilled
  <2>1. Thread \in SUBSET Writer BY DEF Writer
  <2> QED BY <1>4, <2>1, KilledInv DEF DashboardKilled
<1>5. CASE Expire \/ UNCHANGED vars BY <1>5, StutterInv
<1> QED BY <1>1, <1>2, <1>3, <1>4, <1>5 DEF Next

LEMMA AlwaysInv == Spec => []Inv
BY InitInv, NextInv, PTL DEF Spec

-----------------------------------------------------------------------------

\* Every reachable state is well typed, whatever the processes do to the files.
THEOREM TypeCorrect == Spec => []TypeOK
<1>1. Inv => TypeOK BY DEF Inv
<1> QED BY <1>1, AlwaysInv, PTL

\* The list is what the changes that got through have made of it (push_store.add,
\* push_store.remove), for every number of threads and loops, over kills, while
\* no two processes write at a time.
THEOREM AnswersAreKept == Spec => []AnswersKept
<1>1. Inv => AnswersKept BY DEF Inv, Serial, AnswersKept, File
<1> QED BY <1>1, AlwaysInv, PTL

-----------------------------------------------------------------------------
(* The two files and the lock implement Subscriptions. *)

\* Who asks for nothing has asked for nothing.
Quiet == \A p \in Writer : pc[p] \in {"ready", "next", "over"} => op[p] = None

LEMMA QuietStep == TypeOK /\ Quiet /\ [Next]_vars => Quiet'
<1> SUFFICES ASSUME TypeOK, Quiet, [Next]_vars PROVE Quiet' OBVIOUS
<1> USE DEF Quiet, TypeOK, To
<1>1. ASSUME NEW t \in Thread, Serve(t) PROVE Quiet'
  BY <1>1 DEF Serve, Subscribe, Unsubscribe, Ask, TakeLock, Writer
<1>2. ASSUME NEW l \in Loop, Announce(l) \/ Unconfigured(l) \/ NextGone(l) PROVE Quiet'
  BY <1>2 DEF Announce, Unconfigured, NextGone, Writer
<1>3. ASSUME NEW dead \in SUBSET Writer, NEW where, Killed(dead, where) PROVE Quiet'
  BY <1>3 DEF Killed
<1>4. ASSUME NEW p \in Writer, Change(p) PROVE Quiet'
  BY <1>4 DEF Change, Read, Open, Write, Replace, Ends
<1>5. CASE Expire \/ UNCHANGED vars BY <1>5 DEF Expire, vars, writers
<1>6. ASSUME NEW l \in Loop, LoopKilled(l) PROVE Quiet'
  BY <1>3, <1>6, {l} \in SUBSET Writer DEF LoopKilled, Writer
<1>7. CASE DashboardKilled BY <1>3, <1>7, Thread \in SUBSET Writer DEF DashboardKilled, Writer
<1> QED BY <1>1, <1>2, <1>4, <1>5, <1>6, <1>7 DEF Next, Send

\* What the abstract list sees of a step: nothing,
Unseen == UNCHANGED <<store.data, op, kills, mixed>>

\* or somebody asks,
LEMMA AskPromised ==
    ASSUME TypeOK, Quiet, ~mixed, NEW p \in Writer, pc[p] \in {"ready", "next"},
           NEW o \in Changes, op' = [op EXCEPT ![p] = o], UNCHANGED <<store, kills, mixed>>
    PROVE  Promised!Next
<1>1. op[p] = None BY DEF Quiet
<1>2. \E c \in Promised!Change : op' = [op EXCEPT ![p] = c] BY DEF Promised!Change, Changes
<1>3. Promised!Ask(p) BY <1>1, <1>2 DEF Promised!Ask
<1> QED BY <1>3 DEF Promised!Next

LEMMA ServePromised ==
    ASSUME TypeOK, Quiet, ~mixed, NEW t \in Thread, Serve(t)
    PROVE  Promised!Next \/ Unseen
<1>1. ASSUME NEW o \in Changes, Ask(t, o) PROVE Promised!Next
  BY <1>1, AskPromised DEF Ask, Writer, files
<1>2. CASE Subscribe(t)
  <2>1. PICK e \in alive : Ask(t, Add(e)) BY <1>2 DEF Subscribe
  <2> QED BY <1>1, <2>1 DEF TypeOK, Changes, Add
<1>3. CASE Unsubscribe(t)
  <2>1. PICK e \in Endpoint : Ask(t, Remove(e)) BY <1>3 DEF Unsubscribe
  <2> QED BY <1>1, <2>1 DEF Changes, Remove
<1>4. CASE TakeLock(t) BY <1>4 DEF TakeLock, Unseen, files
<1> QED BY <1>2, <1>3, <1>4 DEF Serve

LEMMA SendPromised ==
    ASSUME TypeOK, Quiet, ~mixed, NEW l \in Loop, Announce(l) \/ Unconfigured(l) \/ NextGone(l)
    PROVE  Promised!Next \/ Unseen
<1>1. CASE Announce(l) \/ Unconfigured(l) BY <1>1 DEF Announce, Unconfigured, Unseen, files
<1>2. CASE NextGone(l) /\ gone[l] = {} BY <1>2 DEF NextGone, Unseen, files
<1>3. CASE NextGone(l) /\ gone[l] # {}
  <2>1. PICK e \in gone[l] : op' = [op EXCEPT ![l] = Remove(e)] BY <1>3 DEF NextGone
  <2>2. Remove(e) \in Changes BY <2>1 DEF TypeOK, Changes, Remove
  <2> QED BY <1>3, <2>1, <2>2, AskPromised DEF NextGone, Writer, files
<1> QED BY <1>1, <1>2, <1>3

\* or somebody dies,
LEMMA KillPromised ==
    ASSUME TypeOK, ~mixed, NEW dead \in Processes, NEW where, Killed(dead, where)
    PROVE  Promised!Next
<1>1. store'.data = store.data BY DEF Killed, File
<1>2. Promised!Die(dead) BY <1>1 DEF Killed, Promised!Die
<1> QED BY <1>2 DEF Promised!Next

\* or a change is made, by the rename, of all that it asks for.
LEMMA ReplacePromised ==
    ASSUME Inv, ~mixed, NEW p \in Writer, Replace(p)
    PROVE  Promised!Next
<1>1. Serial /\ op[p] \in Changes BY DEF Inv, Asked, Replace, Busy
<1>2. temp # None /\ temp = File(list[p], {}) /\ list[p] = Done(op[p], answered)
  BY <1>1 DEF Serial, Busy, Replace
<1>3. store.data = answered BY <1>1 DEF Serial, File
<1>4. store' = temp BY <1>2 DEF Replace
<1>5. store'.data = Done(op[p], store.data) BY <1>2, <1>3, <1>4 DEF File
<1>6. op[p] # None BY <1>1, PushAssumption DEF Changes
<1>7. op' = [op EXCEPT ![p] = None] /\ UNCHANGED <<kills, mixed>> BY DEF Replace, Ends
<1>8. Promised!Make(p) BY <1>5, <1>6, <1>7 DEF Promised!Make, Done
<1> QED BY <1>8 DEF Promised!Next

LEMMA ChangePromised ==
    ASSUME Inv, ~mixed, NEW p \in Writer, Change(p)
    PROVE  Promised!Next \/ Unseen
<1>1. CASE Read(p)
  <2>1. UNCHANGED <<store, op, kills>> BY <1>1 DEF Read, files
  <2>2. mixed' \in BOOLEAN BY <1>1 DEF Read, Inv, TypeOK
  <2>3. mixed' = TRUE \/ mixed' = mixed BY <2>2 DEF Inv, TypeOK
  <2>4. CASE mixed' = TRUE BY <2>1, <2>4 DEF Promised!Next, Promised!Mix
  <2>5. CASE mixed' = mixed BY <2>1, <2>5 DEF Unseen
  <2> QED BY <2>3, <2>4, <2>5
<1>2. CASE Open(p) BY <1>2 DEF Open, Unseen
<1>3. CASE Write(p)
  <2>1. Serial BY DEF Inv
  <2>2. UNCHANGED store BY <1>3, <2>1 DEF Write, Serial, File
  <2> QED BY <1>3, <2>2 DEF Write, Unseen
<1>4. CASE Replace(p) BY <1>4, ReplacePromised
<1> QED BY <1>1, <1>2, <1>3, <1>4 DEF Change

\* Once two processes write at a time it has promised nothing.
LEMMA MixedPromised == ASSUME TypeOK, mixed, [Next]_vars PROVE Promised!Next
<1>1. mixed' = TRUE
  BY DEF TypeOK, Next, vars, Serve, Subscribe, Unsubscribe, Ask, TakeLock, Send, Announce, Unconfigured,
         NextGone, LoopKilled, DashboardKilled, Killed, Change, Read, Open, Write, Replace, Expire
<1> QED BY <1>1 DEF Promised!Next, Promised!Mix

LEMMA PromisedStep ==
    ASSUME Inv, Quiet, [Next]_vars
    PROVE  [Promised!Next]_<<store.data, op, kills, mixed>>
<1>1. CASE mixed BY <1>1, MixedPromised DEF Inv
<1>2. CASE ~mixed
  <2> USE <1>2 DEF Inv
  <2>1. ASSUME NEW t \in Thread, Serve(t) PROVE Promised!Next \/ Unseen BY <2>1, ServePromised
  <2>2. ASSUME NEW l \in Loop, Send(l) PROVE Promised!Next \/ Unseen
    <3>1. CASE LoopKilled(l)
      <4>1. {l} \in Processes BY DEF Processes
      <4> QED BY <3>1, <4>1, KillPromised DEF LoopKilled
    <3> QED BY <2>2, <3>1, SendPromised DEF Send
  <2>3. ASSUME NEW p \in Writer, Change(p) PROVE Promised!Next \/ Unseen BY <2>3, ChangePromised
  <2>4. CASE DashboardKilled
    <3>1. Thread \in Processes BY DEF Processes
    <3> QED BY <2>4, <3>1, KillPromised DEF DashboardKilled
  <2>5. CASE Expire \/ UNCHANGED vars BY <2>5 DEF Expire, Unseen, vars, files, writers
  <2> QED BY <2>1, <2>2, <2>3, <2>4, <2>5 DEF Next, Unseen
<1> QED BY <1>1, <1>2 DEF Inv, TypeOK

\* The store implements a list whose changes are made one at a time, each of them
\* at one moment, unless the process that was to make it is killed first
\* (push_store.add, push_store.remove), for every number of threads and loops,
\* until two processes write at a time.
THEOREM StoreIsAtomic == Spec => ListImplemented
<1>1. Init => Promised!Init /\ Quiet BY DEF Init, Promised!Init, Quiet, File
<1>2. Inv /\ Quiet /\ [Next]_vars => [Promised!Next]_<<store.data, op, kills, mixed>> BY PromisedStep
<1>3. Inv /\ Quiet /\ [Next]_vars => Quiet' BY QuietStep DEF Inv
<1> QED BY <1>1, <1>2, <1>3, AlwaysInv, PTL DEF Spec, ListImplemented, Promised!Spec

=============================================================================
