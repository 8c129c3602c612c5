-------------------------------- MODULE Push --------------------------------
(***************************************************************************)
(* Who is told that a run is over: the list of Web Push subscriptions      *)
(* (web/push_store.py), changed by the dashboard's threads, under a lock   *)
(* of their process, and by every loop that announces its end and finds    *)
(* that a browser is gone (webpush.send), in a process of its own.         *)
(* A disk that is full or read-only is left out.                           *)
(***************************************************************************)
EXTENDS FiniteSets, Naturals

CONSTANTS
    Thread,   \* threads of the dashboard
    Loop,     \* loops that come to their end
    Endpoint, \* the URLs of browsers
    MaxKills, \* bound: kills
    Free,     \* _LOCK: nobody has it
    Torn,     \* what a file holds that is no JSON
    None

Writer == Thread \cup Loop

ASSUME PushAssumption ==
    /\ Thread \cap Loop = {} /\ MaxKills \in Nat
    /\ Free \notin Thread /\ \A endpoints \in SUBSET Endpoint : Torn # endpoints
    /\ \A data \in {Torn} \cup SUBSET Endpoint, by \in SUBSET Writer :
         None # [data |-> data, open |-> by]
    /\ None \notin [adds : BOOLEAN, endpoint : Endpoint]

VARIABLES
    store,    \* push_subscriptions.json: what it holds, who has it open for writing
    temp,     \* push_subscriptions.json.tmp: the same, or None
    lock,     \* _LOCK of the dashboard
    pc,       \* writer: where it is
    op,       \* writer: what it is to do to the list
    list,     \* writer: the list it will write
    gone,     \* loop: endpoints it is still to remove
    alive,    \* endpoints the push services know
    kills,    \* kills so far
    answered, \* history: the list, going by what has been done to it
    mixed     \* history: two processes were writing at a time

files == <<store, temp>>
writers == <<pc, op, list>>
vars == <<files, lock, writers, gone, alive, kills, answered, mixed>>

File(data, by) == [data |-> data, open |-> by]
Add(e) == [adds |-> TRUE, endpoint |-> e]
Remove(e) == [adds |-> FALSE, endpoint |-> e]
Done(o, to) == IF o.adds THEN to \cup {o.endpoint} ELSE to \ {o.endpoint}

Init ==
    /\ store = File({}, {}) /\ temp = None /\ lock = Free
    /\ pc = [p \in Writer |-> "ready"] /\ op = [p \in Writer |-> None]
    /\ list = [p \in Writer |-> {}] /\ gone = [l \in Loop |-> {}]
    /\ alive = Endpoint /\ kills = 0 /\ answered = {} /\ mixed = FALSE

To(p, where) == pc' = [pc EXCEPT ![p] = where]

-----------------------------------------------------------------------------
(* Who asks for a change. *)

Ask(t, o) ==
    /\ pc[t] = "ready" /\ To(t, "lock") /\ op' = [op EXCEPT ![t] = o]
    /\ UNCHANGED <<files, lock, list, gone, alive, kills, answered, mixed>>

\* push_subscribe: a browser posts its subscription, a new one or one more time.
Subscribe(t) == \E e \in alive : Ask(t, Add(e))

\* push_unsubscribe
Unsubscribe(t) == \E e \in Endpoint : Ask(t, Remove(e))

\* A browser drops its subscription without a word to the dashboard.
Expire ==
    /\ \E e \in alive : alive' = alive \ {e}
    /\ UNCHANGED <<files, lock, writers, gone, kills, answered, mixed>>

\* _read: a file that is no JSON is no list.
Whole(file) == IF file.data = Torn THEN {} ELSE file.data

\* _announce_push, webpush.send: a push to everybody; 404 and 410 are remembered.
Announce(l) ==
    /\ pc[l] = "ready"
    /\ LET dead == Whole(store) \ alive IN
         gone' = [gone EXCEPT ![l] = dead] /\ To(l, IF dead = {} THEN "over" ELSE "next")
    /\ UNCHANGED <<files, lock, op, list, alive, kills, answered, mixed>>

\* A process without the key, the contact or the library sends nothing: a run
\* started from a shell does not have the dashboard's environment.
Unconfigured(l) ==
    /\ pc[l] = "ready" /\ To(l, "over")
    /\ UNCHANGED <<files, lock, op, list, gone, alive, kills, answered, mixed>>

NextGone(l) ==
    /\ pc[l] = "next"
    /\ IF gone[l] = {} THEN To(l, "over") /\ UNCHANGED <<op, gone>>
       ELSE \E e \in gone[l] : /\ op' = [op EXCEPT ![l] = Remove(e)] /\ To(l, "read")
                               /\ gone' = [gone EXCEPT ![l] = @ \ {e}]
    /\ UNCHANGED <<files, lock, list, alive, kills, answered, mixed>>

-----------------------------------------------------------------------------
(* A change: add or remove. *)

\* Mutant: no lock.
TakeLockBusy(t) ==
    /\ pc[t] = "lock" /\ lock' = t /\ To(t, "read")
    /\ UNCHANGED <<files, op, list, gone, alive, kills, answered, mixed>>

\* A loop has nobody to share the lock of its process with.
TakeLock(t) ==
    /\ pc[t] = "lock" /\ lock = Free /\ lock' = t /\ To(t, "read")
    /\ UNCHANGED <<files, op, list, gone, alive, kills, answered, mixed>>

Together(p, q) == p = q \/ {p, q} \subseteq Thread
Writing == { p \in Writer : pc[p] \in {"open", "write", "replace"} }

Read(p) ==
    /\ pc[p] = "read" /\ To(p, "open")
    /\ list' = [list EXCEPT ![p] = Done(op[p], Whole(store))]
    /\ mixed' = (mixed \/ \E q \in Writing : ~Together(p, q))
    /\ UNCHANGED <<files, lock, op, gone, alive, kills, answered>>

\* write_text empties the file of that name, be it another's.
Open(p) ==
    /\ pc[p] = "open" /\ To(p, "write")
    /\ temp' = File(Torn, {p} \cup IF temp = None THEN {} ELSE temp.open)
    /\ UNCHANGED <<store, lock, op, list, gone, alive, kills, answered, mixed>>

\* What p writes is all there is, unless it goes over what another has written.
Filled(file, p) ==
    { File(data, file.open \ {p}) :
        data \in {list[p]} \cup IF file.data = Torn THEN {} ELSE {Torn} }

\* The file that was opened, under whatever name it has by now, if it has one
Write(p) ==
    /\ pc[p] = "write" /\ To(p, "replace")
    /\ IF p \in store.open THEN store' \in Filled(store, p) ELSE UNCHANGED store
    /\ IF temp # None /\ p \in temp.open THEN temp' \in Filled(temp, p) ELSE UNCHANGED temp
    /\ UNCHANGED <<lock, op, list, gone, alive, kills, answered, mixed>>

\* The request or the announcement is over.
Ends(p, where) ==
    /\ To(p, where) /\ op' = [op EXCEPT ![p] = None] /\ list' = [list EXCEPT ![p] = {}]
    /\ lock' = IF p \in Thread THEN Free ELSE lock

\* Mutant: a rename that does not go over a file that is there.
ReplaceNothing(p) ==
    /\ pc[p] = "replace"
    /\ \/ /\ temp # None /\ store.data = {} /\ store' = temp /\ temp' = None
          /\ answered' = Done(op[p], answered) /\ UNCHANGED gone
          /\ Ends(p, IF p \in Thread THEN "ready" ELSE "next")
       \/ /\ store.data # {} /\ Ends(p, IF p \in Thread THEN "ready" ELSE "over")
          /\ gone' = [l \in Loop |-> IF l = p THEN {} ELSE gone[l]]
          /\ UNCHANGED <<files, answered>>
    /\ UNCHANGED <<alive, kills, mixed>>

\* The rename fails when another's took the file away: the request with 500, the
\* announcement with what is left of its list.
Replace(p) ==
    /\ pc[p] = "replace"
    /\ \/ /\ temp # None /\ store' = temp /\ temp' = None
          /\ answered' = Done(op[p], answered) /\ UNCHANGED gone
          /\ Ends(p, IF p \in Thread THEN "ready" ELSE "next")
       \/ /\ temp = None /\ Ends(p, IF p \in Thread THEN "ready" ELSE "over")
          /\ gone' = [l \in Loop |-> IF l = p THEN {} ELSE gone[l]]
          /\ UNCHANGED <<files, answered>>
    /\ UNCHANGED <<alive, kills, mixed>>

-----------------------------------------------------------------------------

\* The writers in `dead` are killed: their files stay as they are.
Killed(dead, where) ==
    /\ kills < MaxKills /\ kills' = kills + 1
    /\ pc' = [p \in Writer |-> IF p \in dead THEN where ELSE pc[p]]
    /\ op' = [p \in Writer |-> IF p \in dead THEN None ELSE op[p]]
    /\ list' = [p \in Writer |-> IF p \in dead THEN {} ELSE list[p]]
    /\ gone' = [l \in Loop |-> IF l \in dead THEN {} ELSE gone[l]]
    /\ store' = File(store.data, store.open \ dead)
    /\ temp' = IF temp = None THEN None ELSE File(temp.data, temp.open \ dead)
    /\ UNCHANGED <<alive, answered, mixed>>

\* The dashboard, which is started again
DashboardKilled == Killed(Thread, "ready") /\ lock' = Free

LoopKilled(l) == pc[l] # "over" /\ Killed({l}, "over") /\ UNCHANGED lock

Serve(t) == Subscribe(t) \/ Unsubscribe(t) \/ TakeLock(t)

Send(l) == Announce(l) \/ Unconfigured(l) \/ NextGone(l) \/ LoopKilled(l)

Change(p) == Read(p) \/ Open(p) \/ Write(p) \/ Replace(p)

Next ==
    \/ \E t \in Thread : Serve(t)
    \/ \E l \in Loop : Send(l)
    \/ \E p \in Writer : Change(p)
    \/ Expire \/ DashboardKilled

Spec == Init /\ [][Next]_vars

-----------------------------------------------------------------------------

Files == [data : {Torn} \cup SUBSET Endpoint, open : SUBSET Writer]
Changes == [adds : BOOLEAN, endpoint : Endpoint]

TypeOK ==
    /\ store \in Files /\ (temp = None \/ temp \in Files) /\ lock \in Thread \cup {Free}
    /\ pc \in [Writer -> {"ready", "lock", "next", "read", "open", "write", "replace", "over"}]
    /\ op \in [Writer -> Changes \cup {None}] /\ list \in [Writer -> SUBSET Endpoint]
    /\ gone \in [Loop -> SUBSET Endpoint] /\ alive \subseteq Endpoint /\ kills \in 0..MaxKills
    /\ answered \subseteq Endpoint /\ mixed \in BOOLEAN

\* The list is what the requests and the announcements that got through have made
\* of it, one after the other, over kills of either, as long as no two processes
\* write at a time: "the read-modify-write here is additionally guarded by a
\* process-wide lock; the write itself uses the same .json.tmp -> .replace()
\* atomic-write idiom" (web/push_store.py:12).
AnswersKept == ~mixed => store.data = answered

\* A change that was asked for is made at one moment, and fails only with the
\* process that was to make it, whatever the other threads do and whoever else is
\* killed, as long as no two processes write at a time: the lock serialises the
\* changes and the rename makes each of them whole (web/push_store.py:12, :22).
Processes == {Thread} \cup {{l} : l \in Loop}
Promised == INSTANCE Subscriptions WITH subscribed <- store.data, asked <- op, Process <- Processes
ListImplemented == Promised!Spec

\* The same whoever writes: no subscription that was taken is lost, and none that
\* was removed comes back.
NoneLost == store.data = answered

=============================================================================
