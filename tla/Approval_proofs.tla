---------------------------- MODULE Approval_proofs ----------------------------
(***************************************************************************)
(* Theorems about Approval, for any number of threads, commits, plan items *)
(* and kills: a run on offer can be answered, and an answer that nothing   *)
(* overlapped is for the work that was on offer.                           *)
(***************************************************************************)
EXTENDS Approval, TLAPS

-----------------------------------------------------------------------------
(* Types, by kind. *)

Places == {"ready", "check", "recheck", "read", "preflight", "merge", "append",
           "record", "bd", "continue", "spawn", "restore"}

Values ==
    /\ loop \in {"none", "attached", "working", "ending"}
    /\ open \in 0..MaxItems /\ branch \in 0..MaxCommits /\ has \in 0..branch
    /\ issue \in {"claimed", "closed", "open"} /\ kills \in 0..MaxKills
    /\ pc \in [Threads -> Places] /\ act \in [Threads -> Requests \cup {None}]

Flags == moved \in BOOLEAN /\ stale \in BOOLEAN /\ alone \in [Threads -> BOOLEAN]

Records ==
    /\ status \in Statuses /\ copy \in [Threads -> Statuses]
    /\ offer \in Offer \cup {None}

LEMMA TypeParts == TypeOK <=> Values /\ Flags /\ Records
BY DEF TypeOK, Values, Flags, Records, Places

LEMMA Bounds ==
    MaxCommits \in Nat /\ MaxItems \in Nat \ {0} /\ MaxKills \in Nat /\ None \notin Offer
BY BoundAssumption

-----------------------------------------------------------------------------
(* The invariant. *)

\* A request on its way to an answer, from the read of the status on
Deciding(t) ==
    \/ pc[t] \in {"append", "record", "restore"}
    \/ pc[t] = "merge" /\ act[t] = "approve"
    \/ pc[t] \in {"continue", "spawn"} /\ act[t] = "request_changes"

Kinds ==
    \A t \in Threads :
        /\ pc[t] = "check" => act[t] \in Decisions \cup {"merge"}
        /\ pc[t] \in {"recheck", "preflight"} => act[t] = "merge"
        /\ pc[t] = "merge" => act[t] \in {"approve", "merge"}
        /\ pc[t] \in {"append", "restore"} => act[t] = "request_changes"
        /\ pc[t] \in {"read", "record"} => act[t] \in Decisions

\* Who is alone has no loop and no other request beside it.
Solitary ==
    \A t \in Threads :
        pc[t] # "ready" /\ alone[t] =>
            loop = "none" /\ \A u \in Threads : u # t => pc[u] = "ready"

\* A loop that has written its progress has taken the earlier offer back.
Cleared == ~stale /\ loop = "working" => status = Empty

\* What is offered by a loop that wrote the status stands there, with the changes
\* that are requested meanwhile, and with nothing else, or nothing stands there.
Standing ==
    offer # None /\ offer.wrote /\ ~offer.lost /\ ~stale =>
        status = Status(TRUE, IF offer.sent THEN "request_changes" ELSE "none")

\* Changes that are not delivered yet have somebody who delivers them or takes
\* them back.
Carried ==
    offer # None /\ offer.sent =>
        \E t \in Threads : act[t] = "request_changes" /\ pc[t] \in {"continue", "spawn", "restore"}

Marked == offer # None /\ offer.sent /\ ~offer.lost /\ ~stale => status.approval = "request_changes"

Blanked == offer # None /\ offer.lost /\ ~stale => status = Empty

\* Whoever answers has read that there was something to answer.
ReadAsked == \A t \in Threads : Deciding(t) => copy[t].awaiting

\* Buttons that are shown stand for an offer, of the branch as it is, unless a loop
\* has committed under them ...
Shown ==
    status = Status(TRUE, "none") /\ ~stale => offer # None /\ (offer.at = branch \/ offer.passed)

\* ... and so does a request that came alone.
Held ==
    \A t \in Threads : alone[t] /\ Deciding(t) /\ ~stale =>
        offer # None /\ ~offer.lost /\ (offer.at = branch \/ offer.passed)

Inv ==
    /\ Values /\ Flags /\ Records /\ Kinds /\ Solitary /\ Cleared /\ Standing /\ Carried
    /\ Marked /\ Blanked /\ ReadAsked /\ Shown /\ Held

-----------------------------------------------------------------------------

LEMMA Blank == Empty \in Statuses /\ Empty # Status(TRUE, "none") /\ ~Empty.awaiting
BY DEF Empty, Status, Statuses

LEMMA Marks ==
    ASSUME Records
    PROVE  /\ Sent(TRUE) \in Offer \cup {None} /\ Sent(FALSE) \in Offer \cup {None}
           /\ Delivered \in Offer \cup {None}
BY DEF Records, Sent, Delivered, Offer

\* What the marks of an offer leave as it is
LEMMA PassedMarks ==
    ASSUME Records, offer # None
    PROVE  /\ Passed \in Offer /\ Passed # None
           /\ Passed.wrote <=> offer.wrote
           /\ Passed.sent <=> offer.sent
           /\ Passed.lost <=> offer.lost
           /\ loop = "attached" => Passed.passed
           /\ loop # "attached" => Passed = offer
<1>1. offer \in Offer BY DEF Records
<1>2. CASE loop = "attached"
  <2>1. Passed = [offer EXCEPT !.passed = TRUE] BY <1>2 DEF Passed
  <2> QED BY <1>1, <1>2, <2>1, Bounds DEF Offer
<1>3. CASE loop # "attached"
  <2>1. Passed = offer BY <1>3 DEF Passed
  <2> QED BY <1>1, <1>3, <2>1
<1> QED BY <1>2, <1>3

LEMMA LostMarks ==
    ASSUME Records, offer # None
    PROVE  Lost \in Offer /\ Lost # None /\ Lost.lost /\ Lost.sent = offer.sent
<1>1. offer \in Offer BY DEF Records
<1>2. Lost = [offer EXCEPT !.lost = TRUE] BY DEF Lost
<1> QED BY <1>1, <1>2, Bounds DEF Offer

LEMMA ResumeInv == ASSUME Inv, Resume PROVE Inv'
<1> USE DEF Resume, Joins, repo, threads
<1>1. Values' /\ Flags' /\ Records' /\ Kinds' /\ Solitary' /\ Cleared' /\ Standing' /\ Carried'
      /\ Marked' /\ Blanked' /\ ReadAsked' /\ Shown' /\ Held'
  BY DEF Inv, Values, Flags, Records, Kinds, Solitary, Cleared, Standing, Carried, Marked, Blanked,
         ReadAsked, Deciding, Shown, Held
<1> QED BY <1>1 DEF Inv

LEMMA ProgressInv == ASSUME Inv, Progress PROVE Inv'
<1> USE DEF Progress, repo, threads
<1>1. Values' /\ Flags' /\ Kinds' /\ Solitary' /\ Cleared' /\ Standing' /\ Carried' /\ Marked'
      /\ Blanked' /\ ReadAsked'
  BY DEF Inv, Values, Flags, Kinds, Solitary, Cleared, Standing, Carried, Marked, Blanked,
         ReadAsked, Deciding
<1>2. Records' BY Blank DEF Inv, Records
<1>3. Shown' BY DEF Inv, Shown, Status, Empty
<1>4. Held' BY DEF Inv, Held, Solitary, Deciding
<1> QED BY <1>1, <1>2, <1>3, <1>4 DEF Inv

LEMMA CommitInv == ASSUME Inv, Commit PROVE Inv'
<1> USE DEF Commit, threads
<1>1. Flags' /\ Kinds' /\ Solitary' /\ Cleared' /\ ReadAsked'
  BY DEF Inv, Flags, Kinds, Solitary, Cleared, ReadAsked, Deciding
<1>2. offer = None => offer' = None BY DEF Passed
<1>3. offer # None =>
        /\ offer' \in Offer /\ offer' # None
        /\ offer'.wrote <=> offer.wrote
        /\ offer'.sent <=> offer.sent
        /\ offer'.lost <=> offer.lost
        /\ loop = "attached" => offer'.passed
  BY PassedMarks DEF Inv
<1>4. Records' BY <1>2, <1>3 DEF Inv, Records
<1>7. UNCHANGED <<status, stale, pc, act>> OBVIOUS
<1>8. Standing'
  <2> SUFFICES ASSUME offer' # None, offer'.wrote, ~offer'.lost, ~stale'
               PROVE  status' = Status(TRUE, IF offer'.sent THEN "request_changes" ELSE "none")
    BY DEF Standing
  <2>1. status = Status(TRUE, IF offer.sent THEN "request_changes" ELSE "none")
    <3>1. offer # None /\ offer.wrote /\ ~offer.lost /\ ~stale BY <1>2, <1>3, <1>7
    <3> HIDE DEF Commit
    <3> QED BY <3>1 DEF Inv, Standing
  <2>2. CASE offer.sent BY <1>2, <1>3, <1>7, <2>1, <2>2
  <2>3. CASE ~offer.sent BY <1>2, <1>3, <1>7, <2>1, <2>3
  <2> QED BY <2>2, <2>3
<1>9. Carried' BY <1>2, <1>3, <1>7 DEF Inv, Carried
<1>10. Marked' BY <1>2, <1>3, <1>7 DEF Inv, Marked
<1>11. Blanked' BY <1>2, <1>3, <1>7 DEF Inv, Blanked
<1>12. Shown'
  <2>1. CASE loop = "attached" BY <1>3, <1>7, <2>1 DEF Inv, Shown
  <2>2. CASE loop = "working" BY <1>7, <2>2 DEF Inv, Shown, Cleared, Status, Empty
  <2> QED BY <2>1, <2>2
<1>5. Values' BY Bounds DEF Inv, Values
<1>6. Held' BY DEF Inv, Held, Solitary, Deciding
<1> QED BY <1>1, <1>4, <1>5, <1>6, <1>8, <1>9, <1>10, <1>11, <1>12 DEF Inv

LEMMA ReviewInv == ASSUME Inv, Review PROVE Inv'
<1> USE DEF Review, repo, threads
<1>1. Flags' /\ Records' /\ Kinds' /\ Solitary' /\ Cleared' /\ Standing' /\ Carried' /\ Marked'
      /\ Blanked' /\ ReadAsked' /\ Shown' /\ Held'
  BY DEF Inv, Flags, Records, Kinds, Solitary, Cleared, Standing, Carried, Marked, Blanked,
         ReadAsked, Deciding, Shown, Held
<1>2. Values' BY Bounds DEF Inv, Values
<1> QED BY <1>1, <1>2 DEF Inv

LEMMA AwaitServerInv == ASSUME Inv, AwaitServer PROVE Inv'
<1> USE DEF AwaitServer, repo, threads
<1>1. Values' /\ Flags' /\ Kinds' /\ Solitary' /\ Cleared' /\ ReadAsked'
  BY DEF Inv, Values, Flags, Kinds, Solitary, Cleared, ReadAsked, Deciding
<1>2. offer' # None =>
        offer # None /\ offer' \in Offer /\ offer'.lost /\ offer'.sent = offer.sent
  <2>1. offer = None => offer' = None BY DEF Lost
  <2> QED BY <2>1, LostMarks DEF Inv
<1>3. offer' \in Offer \cup {None} BY <1>2
<1>4. Records' BY <1>3, Blank DEF Inv, Records
<1>5. Standing' /\ Carried' /\ Marked'
      /\ Blanked'
  BY <1>2 DEF Inv, Standing, Carried, Marked, Blanked
<1>6. Shown' BY DEF Shown, Status, Empty
<1>7. Held' BY DEF Inv, Held, Solitary, Deciding
<1> QED BY <1>1, <1>4, <1>5, <1>6, <1>7 DEF Inv

LEMMA OffersInv == ASSUME Inv, Offers PROVE Inv'
<1> USE DEF Offers, Terminal, repo, threads
<1>1. Values' /\ Flags' /\ Kinds' /\ Solitary' /\ Cleared' /\ Carried' /\ Marked'
      /\ Blanked' /\ ReadAsked'
  BY DEF Inv, Values, Flags, Kinds, Solitary, Cleared, Carried, Marked, Blanked, ReadAsked, Deciding
<1>2. Records'
  <2>1. offer' \in Offer BY Bounds DEF Inv, Values, Offer
  <2>2. status.approval \in Decisions \cup {"none"} BY DEF Inv, Records, Statuses
  <2>3. status' \in Statuses BY <2>2 DEF Status, Statuses
  <2> QED BY <2>1, <2>3 DEF Inv, Records
<1>3. Standing'
  <2>1. offer' \in Offer BY Bounds DEF Inv, Values, Offer
  <2>2. offer' # None /\ ~offer'.sent /\ (offer'.wrote => loop = "working") BY <2>1, Bounds
  <2>3. loop = "working" /\ ~stale => status.approval = "none" BY DEF Inv, Cleared, Empty, Status
  <2>4. status' = Status(TRUE, status.approval) /\ stale' = stale OBVIOUS
  <2>5. offer'.sent = FALSE OBVIOUS
  <2> HIDE DEF Offers, Terminal
  <2>6. ASSUME offer'.wrote, ~stale' PROVE status' = Status(TRUE, "none")
    BY <2>2, <2>3, <2>4, <2>6
  <2> QED BY <2>5, <2>6 DEF Standing
<1>4. Shown'
  <2>1. offer' \in Offer BY Bounds DEF Inv, Values, Offer
  <2>2. offer' # None BY <2>1, Bounds
  <2>3. offer'.at = branch BY <2>2
  <2> QED BY <2>2, <2>3 DEF Shown
<1>5. Held' BY DEF Inv, Held, Solitary, Deciding
<1> QED BY <1>1, <1>2, <1>3, <1>4, <1>5 DEF Inv

LEMMA StopsInv == ASSUME Inv, Stops PROVE Inv'
<1> USE DEF Stops, Terminal, repo, threads
<1>1. Values' /\ Flags' /\ Kinds' /\ Solitary' /\ Cleared' /\ Standing' /\ Carried' /\ Marked'
      /\ Blanked' /\ ReadAsked'
  BY DEF Inv, Values, Flags, Kinds, Solitary, Cleared, Standing, Carried, Marked, Blanked,
         ReadAsked, Deciding
<1>2. Records'
  <2>1. status.approval \in Decisions \cup {"none"} BY DEF Inv, Records, Statuses
  <2>2. status' \in Statuses BY <2>1 DEF Status, Statuses
  <2> QED BY <2>2 DEF Inv, Records
<1>3. Shown' BY DEF Inv, Shown, Status
<1>4. Held' BY DEF Inv, Held, Solitary, Deciding
<1> QED BY <1>1, <1>2, <1>3, <1>4 DEF Inv

LEMMA ReleasedInv == ASSUME Inv, Released PROVE Inv'
<1> USE DEF Released, repo, threads
<1>1. Values' /\ Flags' /\ Records' /\ Kinds' /\ Solitary' /\ Cleared' /\ Standing' /\ Carried'
      /\ Marked' /\ Blanked' /\ ReadAsked' /\ Shown' /\ Held'
  BY DEF Inv, Values, Flags, Records, Kinds, Solitary, Cleared, Standing, Carried, Marked, Blanked,
         ReadAsked, Deciding, Shown, Held
<1> QED BY <1>1 DEF Inv

LEMMA LoopKilledInv == ASSUME Inv, LoopKilled PROVE Inv'
<1> USE DEF LoopKilled, repo, threads
<1>1. Flags' /\ Records' /\ Kinds' /\ Solitary' /\ Cleared' /\ Standing' /\ Carried' /\ Marked'
      /\ Blanked' /\ ReadAsked' /\ Shown' /\ Held'
  BY DEF Inv, Flags, Records, Kinds, Solitary, Cleared, Standing, Carried, Marked, Blanked,
         ReadAsked, Deciding, Shown, Held
<1>2. Values' BY Bounds DEF Inv, Values
<1> QED BY <1>1, <1>2 DEF Inv

LEMMA MovesInv == ASSUME Inv, Moves PROVE Inv'
<1> USE DEF Moves, threads
<1>1. Values' /\ Flags' /\ Records' /\ Kinds' /\ Solitary'
  BY DEF Inv, Values, Flags, Records, Kinds, Solitary
<1>2. Cleared' /\ Standing' /\ Carried' BY DEF Inv, Cleared, Standing, Carried
<1>3. Marked' /\ Blanked' /\ ReadAsked' BY DEF Inv, Marked, Blanked, ReadAsked, Deciding
<1>4. Shown' /\ Held' BY DEF Inv, Shown, Held, Deciding
<1> QED BY <1>1, <1>2, <1>3, <1>4 DEF Inv

LEMMA DashboardKilledInv == ASSUME Inv, DashboardKilled PROVE Inv'
<1> USE DEF DashboardKilled, repo
<1>1. Flags' /\ Kinds' /\ Solitary' /\ Cleared' /\ ReadAsked' /\ Held'
  BY DEF Inv, Flags, Kinds, Solitary, Cleared, ReadAsked, Deciding, Held
<1>2. Values' BY Bounds DEF Inv, Values, Places
<1>3. CASE UNCHANGED status /\ offer' = Delivered
  <2>1. Records' BY <1>3, Blank, Marks DEF Inv, Records
  <2>2. Standing' /\ Carried' /\ Marked' /\ Blanked'
    BY <1>3 DEF Inv, Standing, Carried, Marked, Blanked, Delivered
  <2>3. Shown' BY <1>3 DEF Inv, Shown, Marked, Blanked, Status, Empty, Delivered
  <2> QED BY <1>1, <1>2, <2>1, <2>2, <2>3 DEF Inv
<1>4. CASE status' = Empty /\ offer' = IF offer = Delivered THEN Lost ELSE None
  <2>1. offer' # None =>
          offer # None /\ offer' \in Offer /\ offer'.lost /\ offer'.sent = offer.sent /\ ~offer.sent
    <3>1. offer = None => offer' = None BY <1>4 DEF Lost
    <3>2. offer # None /\ offer.sent => offer' = None BY <1>4 DEF Delivered
    <3> QED BY <1>4, <3>1, <3>2, LostMarks DEF Inv
  <2>2. Records' BY <1>4, <2>1, Blank DEF Inv, Records
  <2>3. Standing' /\ Carried' /\ Marked' /\ Blanked'
    BY <1>4, <2>1 DEF Standing, Carried, Marked, Blanked
  <2>4. Shown' BY <1>4 DEF Shown, Status, Empty
  <2> QED BY <1>1, <1>2, <2>2, <2>3, <2>4 DEF Inv
<1> QED BY <1>3, <1>4

LEMMA AskInv == ASSUME Inv, NEW t \in Threads, NEW a \in Requests, Ask(t, a) PROVE Inv'
<1> USE DEF Ask, To, repo
<1>1. Flags' /\ Records' BY DEF Inv, Flags, Records
<1>2. Cleared' /\ Carried' BY DEF Inv, Cleared, Carried
<1>3. Standing' BY DEF Inv, Standing
<1>4. Marked' /\ Blanked' BY DEF Inv, Marked, Blanked
<1>5. Shown' BY DEF Inv, Shown
<1>6. Values' BY DEF Inv, Values, Places
<1>7. Kinds' BY DEF Inv, Kinds, Values, Requests
<1>8. Solitary' BY DEF Inv, Solitary, Values
<1>9. ReadAsked' BY DEF Inv, ReadAsked, Values, Deciding
<1>10. Held' BY DEF Inv, Held, Values, Deciding
<1> QED BY <1>1, <1>2, <1>3, <1>4, <1>5, <1>6, <1>7, <1>8, <1>9, <1>10 DEF Inv

LEMMA CheckInv == ASSUME Inv, NEW t \in Threads, Check(t) PROVE Inv'
<1> USE DEF Check, Goes, Answered, To, repo
<1>1. Flags' /\ Cleared' /\ Standing' /\ Marked' /\ Blanked' /\ Shown'
  BY DEF Inv, Flags, Cleared, Standing, Marked, Blanked, Shown
<1>2. Values' BY DEF Inv, Values, Places
<1>3. Records' BY Blank DEF Inv, Records
<1>4. Kinds' BY DEF Inv, Kinds, Values
<1>5. Solitary' BY DEF Inv, Solitary, Values, Flags
<1>6. Carried' BY DEF Inv, Carried, Values
<1>7. ReadAsked' BY DEF Inv, ReadAsked, Values, Records, Deciding
<1>8. Held' BY DEF Inv, Held, Values, Flags, Deciding
<1> QED BY <1>1, <1>2, <1>3, <1>4, <1>5, <1>6, <1>7, <1>8 DEF Inv

LEMMA ReadInv == ASSUME Inv, NEW t \in Threads, Read(t) PROVE Inv'
<1> USE DEF Read, Answered, To, repo
<1>1. Flags' /\ Cleared' /\ Standing' /\ Marked' /\ Blanked' /\ Shown'
  BY DEF Inv, Flags, Cleared, Standing, Marked, Blanked, Shown
<1>2. Values'
  <2>1. act[t] \in Decisions BY DEF Inv, Kinds
  <2>2. pc' \in [Threads -> Places] BY <2>1 DEF Inv, Values, Places, Decisions
  <2>3. act' \in [Threads -> Requests \cup {None}] BY DEF Inv, Values
  <2> QED BY <2>2, <2>3 DEF Inv, Values
<1>3. Records' BY Blank DEF Inv, Records
<1>4. Kinds' BY DEF Inv, Kinds, Values, Decisions
<1>5. Solitary' BY DEF Inv, Solitary, Values, Flags
<1>6. Carried' BY DEF Inv, Carried, Values
<1>7. ReadAsked' BY DEF Inv, ReadAsked, Values, Records, Deciding
<1>8. Held'
  <2>1. ASSUME status.awaiting, status.approval = "none", ~stale
        PROVE  offer # None /\ ~offer.lost /\ (offer.at = branch \/ offer.passed)
    <3>1. status = Status(TRUE, "none") BY <2>1 DEF Inv, Records, Statuses, Status
    <3> QED BY <2>1, <3>1, Blank DEF Inv, Shown, Blanked
  <2>2. ASSUME NEW u \in Threads, u # t PROVE (Deciding(u)' <=> Deciding(u)) /\ alone'[u] = alone[u]
    BY <2>2 DEF Inv, Values, Flags, Deciding
  <2>3. Deciding(t)' => status.awaiting /\ status.approval = "none"
    BY DEF Inv, Values, Deciding
  <2>4. UNCHANGED <<offer, stale, branch>> OBVIOUS
  <2> QED BY <2>1, <2>2, <2>3, <2>4 DEF Inv, Held
<1> QED BY <1>1, <1>2, <1>3, <1>4, <1>5, <1>6, <1>7, <1>8 DEF Inv

LEMMA PreflightInv == ASSUME Inv, NEW t \in Threads, Preflight(t) PROVE Inv'
<1> USE DEF Preflight, Goes, Answered, To, repo, Ahead
<1>1. Flags' /\ Cleared' /\ Standing' /\ Marked' /\ Blanked' /\ Shown'
  BY DEF Inv, Flags, Cleared, Standing, Marked, Blanked, Shown
<1>2. Values' BY DEF Inv, Values, Places
<1>3. Records' BY Blank DEF Inv, Records
<1>4. Kinds' BY DEF Inv, Kinds, Values
<1>5. Solitary' BY DEF Inv, Solitary, Values, Flags
<1>6. Carried' BY DEF Inv, Carried, Values
<1>7. ReadAsked' BY DEF Inv, ReadAsked, Values, Records, Deciding
<1>8. Held'
  <2>1. act[t] = "merge" BY DEF Inv, Kinds
  <2>2. ~Deciding(t)' BY <2>1 DEF Inv, Values, Deciding, Decisions
  <2>3. ASSUME NEW u \in Threads, u # t PROVE (Deciding(u)' <=> Deciding(u)) /\ alone'[u] = alone[u]
    BY <2>3 DEF Inv, Values, Flags, Deciding
  <2> QED BY <2>2, <2>3 DEF Inv, Held
<1> QED BY <1>1, <1>2, <1>3, <1>4, <1>5, <1>6, <1>7, <1>8 DEF Inv

LEMMA MergeInv == ASSUME Inv, NEW t \in Threads, Merge(t) PROVE Inv'
<1> USE DEF Merge, MergeBranch, FastForward, MainTakes, Goes, Answered, To, repo
<1>1. Flags' /\ Cleared' /\ Standing' /\ Marked' /\ Blanked' /\ Shown'
  BY DEF Inv, Flags, Cleared, Standing, Marked, Blanked, Shown
<1>2. Values' BY DEF Inv, Values, Places
<1>3. Records' BY Blank DEF Inv, Records
<1>4. Kinds' BY DEF Inv, Kinds, Values, Decisions
<1>5. Solitary' BY DEF Inv, Solitary, Values, Flags
<1>6. Carried' BY DEF Inv, Carried, Values
<1>7. ReadAsked' BY DEF Inv, ReadAsked, Values, Records, Deciding
<1>8. Held' BY DEF Inv, Held, Values, Flags, Deciding
<1> QED BY <1>1, <1>2, <1>3, <1>4, <1>5, <1>6, <1>7, <1>8 DEF Inv

LEMMA AppendItemsInv == ASSUME Inv, NEW t \in Threads, AppendItems(t) PROVE Inv'
<1> USE DEF AppendItems, Goes, To, repo
<1>1. Flags' /\ Records' /\ Solitary' BY DEF Inv, Flags, Records, Solitary
<1>2. Cleared' /\ Carried' BY DEF Inv, Cleared, Carried
<1>3. Standing' BY DEF Inv, Standing
<1>4. Marked' /\ Blanked' /\ ReadAsked' BY DEF Inv, Marked, Blanked, ReadAsked, Deciding
<1>5. Shown' BY DEF Inv, Shown
<1>6. Held' BY DEF Inv, Held, Deciding
<1>7. Values' BY Bounds DEF Inv, Values, Places
<1>8. Kinds' BY DEF Inv, Kinds, Decisions
<1> QED BY <1>1, <1>2, <1>3, <1>4, <1>5, <1>6, <1>7, <1>8 DEF Inv

LEMMA RecordInv == ASSUME Inv, NEW t \in Threads, Record(t) PROVE Inv'
<1> USE DEF Record, Goes, To, repo, Sent
<1>1. Flags' /\ Kinds' /\ Solitary' /\ Marked' /\ ReadAsked'
  BY DEF Inv, Flags, Kinds, Solitary, Marked, ReadAsked, Deciding
<1>9. ~stale' => offer # None /\ ~offer.lost /\ (offer.at = branch \/ offer.passed)
  BY DEF Inv, Flags, Held, Deciding
<1>10. act[t] = "request_changes" /\ ~stale' =>
         /\ offer' \in Offer /\ offer' # None /\ ~offer'.lost
         /\ offer'.at = offer.at /\ offer'.passed = offer.passed
  <2> SUFFICES ASSUME act[t] = "request_changes", ~stale'
               PROVE  /\ offer' \in Offer /\ offer' # None /\ ~offer'.lost
                      /\ offer'.at = offer.at /\ offer'.passed = offer.passed
    OBVIOUS
  <2>1. offer \in Offer BY <1>9 DEF Inv, Records
  <2>2. offer' = [offer EXCEPT !.sent = TRUE] BY <1>9
  <2> QED BY <1>9, <2>1, <2>2, Bounds DEF Offer
<1>11. Blanked'
  <2>1. act[t] # "request_changes" => offer' = None OBVIOUS
  <2> QED BY <1>10, <2>1 DEF Blanked
<1>2. Values' BY DEF Inv, Values, Places
<1>3. Records'
  <2>1. act[t] \in Decisions BY DEF Inv, Kinds
  <2>2. status' \in Statuses BY <2>1 DEF Inv, Records, Statuses
  <2> HIDE DEF Sent
  <2>3. offer' \in Offer \cup {None} BY Marks DEF Inv, Records
  <2> QED BY <2>2, <2>3 DEF Inv, Records
<1>4. Cleared' BY DEF Inv, Cleared, Solitary
<1>5. Standing' BY DEF Inv, Standing, ReadAsked, Records, Status, Statuses, Deciding, Offer
<1>6. Carried' BY DEF Inv, Carried, Values
<1>7. Shown'
  <2>1. act[t] \in Decisions BY DEF Inv, Kinds
  <2>2. status'.approval = act[t] BY <2>1 DEF Inv, Records, Statuses
  <2>3. status' # Status(TRUE, "none") BY <2>1, <2>2 DEF Status, Decisions
  <2> QED BY <2>3 DEF Shown
<1>8. Held'
  <2> SUFFICES ASSUME NEW u \in Threads, alone'[u], Deciding(u)', ~stale'
               PROVE  offer' # None /\ ~offer'.lost /\ (offer'.at = branch' \/ offer'.passed)
    BY DEF Held
  <2>1. alone[u] /\ alone[t] /\ ~stale BY DEF Inv, Flags
  <2>2. u = t BY <2>1 DEF Inv, Solitary, Values, Deciding
  <2>3. act[t] = "request_changes" BY <2>2 DEF Inv, Values, Deciding
  <2> QED BY <1>9, <1>10, <2>3
<1> QED BY <1>1, <1>2, <1>3, <1>4, <1>5, <1>6, <1>7, <1>8, <1>11 DEF Inv

LEMMA IssueInv == ASSUME Inv, NEW t \in Threads, Issue(t) PROVE Inv'
<1> USE DEF Issue, Answered, To, repo
<1>1. Flags' /\ Kinds' BY DEF Inv, Flags, Kinds
<1>2. Cleared' /\ Carried' BY DEF Inv, Cleared, Carried
<1>3. Standing' BY DEF Inv, Standing
<1>4. Marked' /\ Blanked' /\ ReadAsked' BY DEF Inv, Marked, Blanked, ReadAsked, Deciding
<1>5. Shown' BY DEF Inv, Shown
<1>6. Held' BY DEF Inv, Held, Deciding
<1>7. Values' BY DEF Inv, Values, Places
<1>8. Records' BY Blank DEF Inv, Records
<1>9. Solitary' BY DEF Inv, Solitary, Values
<1> QED BY <1>1, <1>2, <1>3, <1>4, <1>5, <1>6, <1>7, <1>8, <1>9 DEF Inv

LEMMA ContinueInv == ASSUME Inv, NEW t \in Threads, Continue(t) PROVE Inv'
<1> USE DEF Continue, Refused, Goes, Answered, To, repo
<1>1. Flags' /\ Cleared' /\ Standing' /\ Marked' /\ Blanked' /\ Shown'
  BY DEF Inv, Flags, Cleared, Standing, Marked, Blanked, Shown
<1>2. Values' BY DEF Inv, Values, Places
<1>3. Records' BY Blank DEF Inv, Records
<1>4. Kinds' BY DEF Inv, Kinds, Values
<1>5. Solitary' BY DEF Inv, Solitary, Values, Flags
<1>6. Carried' BY DEF Inv, Carried, Values
<1>7. ReadAsked' BY DEF Inv, ReadAsked, Values, Records, Deciding
<1>8. Held' BY DEF Inv, Held, Values, Flags, Deciding
<1> QED BY <1>1, <1>2, <1>3, <1>4, <1>5, <1>6, <1>7, <1>8 DEF Inv

LEMMA SpawnInv == ASSUME Inv, NEW t \in Threads, Spawn(t) PROVE Inv'
<1> USE DEF Spawn, Refused, Goes, Answered, To, repo, Delivered
<1>1. Flags' /\ Cleared' /\ Standing' /\ Marked' /\ Blanked'
  BY DEF Inv, Flags, Cleared, Standing, Marked, Blanked
<1>2. Values' BY DEF Inv, Values, Places
<1>3. Records' BY Blank DEF Inv, Records
<1>4. Kinds' BY DEF Inv, Kinds, Values
<1>5. Solitary' BY DEF Inv, Solitary, Values, Flags
<1>6. Carried' BY DEF Inv, Carried, Values
<1>7. ReadAsked' BY DEF Inv, ReadAsked, Values, Records, Deciding
<1>8. Shown' BY Blank DEF Inv, Shown, Marked, Blanked, Status
<1>9. Held' BY DEF Inv, Held, Solitary, Values, Flags, Deciding
<1> QED BY <1>1, <1>2, <1>3, <1>4, <1>5, <1>6, <1>7, <1>8, <1>9 DEF Inv

LEMMA RestoreInv == ASSUME Inv, NEW t \in Threads, Restore(t) PROVE Inv'
<1> USE DEF Restore, Answered, To, repo, Sent
<1>1. Flags' BY DEF Inv, Flags
<1>11. offer' # None => offer # None /\ offer' \in Offer /\ ~offer'.sent /\ offer'.lost = offer.lost
  BY Bounds DEF Inv, Records, Offer
<1>12. Carried' /\ Marked' BY <1>11 DEF Carried, Marked
<1>13. Blanked'
  <2>1. ~stale' => offer # None /\ ~offer.lost BY DEF Inv, Flags, Held, Deciding
  <2> QED BY <1>11, <2>1 DEF Blanked
<1>2. Values' BY DEF Inv, Values, Places
<1>3. Records'
  <2>1. status' \in Statuses BY DEF Inv, Records, Statuses
  <2> HIDE DEF Sent
  <2> QED BY <2>1, Marks, Blank DEF Inv, Records
<1>4. Kinds' BY DEF Inv, Kinds, Values
<1>5. Solitary' BY DEF Inv, Solitary, Values
<1>6. Cleared' BY DEF Inv, Cleared, Solitary
<1>7. Standing' BY DEF Inv, Standing, ReadAsked, Records, Status, Statuses, Deciding, Offer
<1>8. ReadAsked' BY DEF Inv, ReadAsked, Values, Deciding
<1>9. Shown' BY Bounds DEF Inv, Shown, Held, Records, Deciding, Offer
<1>10. Held' BY DEF Inv, Held, Solitary, Values, Deciding
<1> QED BY <1>1, <1>2, <1>3, <1>4, <1>5, <1>6, <1>7, <1>8, <1>9, <1>10,
           <1>12, <1>13 DEF Inv

LEMMA StutterInv == ASSUME Inv, UNCHANGED vars PROVE Inv'
<1> USE DEF vars, repo, threads
<1>1. Values' /\ Flags' /\ Records' /\ Kinds' /\ Solitary'
  BY DEF Inv, Values, Flags, Records, Kinds, Solitary
<1>2. Cleared' /\ Standing' /\ Carried' BY DEF Inv, Cleared, Standing, Carried
<1>3. Marked' /\ Blanked' /\ ReadAsked' BY DEF Inv, Marked, Blanked, ReadAsked, Deciding
<1>4. Shown' /\ Held' BY DEF Inv, Shown, Held, Deciding
<1> QED BY <1>1, <1>2, <1>3, <1>4 DEF Inv

-----------------------------------------------------------------------------

LEMMA InitInv == Init => Inv
<1> SUFFICES ASSUME Init PROVE Inv
  OBVIOUS
<1> USE DEF Init, repo, threads
<1>1. Values BY Bounds DEF Values, Places
<1>2. Flags BY DEF Flags
<1>3. Records BY Blank DEF Records
<1>4. Kinds /\ Solitary /\ Cleared /\ ReadAsked BY DEF Kinds, Solitary, Cleared, ReadAsked, Deciding
<1>5. Standing /\ Carried /\ Marked /\ Blanked BY DEF Standing, Carried, Marked, Blanked
<1>6. Shown /\ Held BY Blank DEF Shown, Held, Deciding
<1> QED BY <1>1, <1>2, <1>3, <1>4, <1>5, <1>6 DEF Inv

LEMMA ServeInv == ASSUME Inv, NEW t \in Threads, Serve(t) PROVE Inv'
BY CheckInv, ReadInv, PreflightInv, MergeInv, AppendItemsInv, RecordInv, IssueInv,
   ContinueInv, SpawnInv, RestoreInv DEF Serve

LEMMA StepInv == Inv /\ [Next]_vars => Inv'
<1> SUFFICES ASSUME Inv, [Next]_vars PROVE Inv'
  OBVIOUS
<1>1. CASE Loop
  BY <1>1, ResumeInv, ProgressInv, CommitInv, ReviewInv, AwaitServerInv, OffersInv, StopsInv,
     ReleasedInv DEF Loop
<1>2. CASE LoopKilled \/ Moves \/ DashboardKilled
  BY <1>2, LoopKilledInv, MovesInv, DashboardKilledInv
<1>3. CASE \E t \in Threads : Serve(t) \/ \E a \in Requests : Ask(t, a)
  BY <1>3, ServeInv, AskInv
<1>4. CASE UNCHANGED vars
  BY <1>4, StutterInv
<1> QED BY <1>1, <1>2, <1>3, <1>4 DEF Next

LEMMA Invariant == Spec => []Inv
BY InitInv, StepInv, PTL DEF Spec

\* Every status, request and counter stays of its type, whatever the threads do.
THEOREM TypeCorrect == Spec => []TypeOK
<1>1. Inv => TypeOK BY TypeParts DEF Inv
<1> QED BY <1>1, Invariant, PTL

\* However many threads answer, refuse and die, and however many loops come and go: a
\* run whose loop wrote status.json and ended "awaiting approval" can be answered
\* (service.py:517-519), unless requests overlapped, a write of the file was cut off, or
\* a later loop wrote over it as it waited for a server (loop.py:1863).
THEOREM OffersAreDecidable == Spec => []DecidableWhenOffered
<1>1. Inv => DecidableWhenOffered
  <2> SUFFICES ASSUME Inv, offer # None, offer.wrote, ~offer.lost, Quiet, ~stale
               PROVE  status = Status(TRUE, "none")
    BY DEF DecidableWhenOffered
  <2>1. ~offer.sent BY DEF Inv, Carried, Quiet
  <2> QED BY <2>1 DEF Inv, Standing
<1> QED BY <1>1, Invariant, PTL

\* An answer that nothing overlapped is for what a loop offered, and the branch still
\* holds just that (service.py:522), unless a later loop's reviewer or agent committed
\* before that loop wrote status.json (loop.py:1631).
THEOREM AnswersAreForTheOffer == Spec => DecidesTheOffer
<1> DEFINE Decides ==
      \A t \in Threads :
        pc[t] = "record" /\ pc'[t] \in {"bd", "continue"} /\ alone[t] /\ ~stale =>
          offer # None /\ (offer.at = branch \/ offer.passed)
<1>1. Inv => Decides
  BY DEF Inv, Held, Deciding
<1>2. Inv /\ [Next]_vars => [Decides]_vars
  BY <1>1
<1> QED BY <1>2, Invariant, PTL DEF Spec, DecidesTheOffer

=============================================================================
