--------------------------- MODULE RunStore_proofs ---------------------------
(***************************************************************************)
(* Theorems about RunStore, for any number of streams, sweeps, archiving   *)
(* threads, loops and kills: what a stream was given can be read, and      *)
(* neither a worktree nor a listing loses the record.                      *)
(***************************************************************************)
EXTENDS RunStore, TLAPS

USE DEF history

-----------------------------------------------------------------------------
(* Types, by kind. *)

GzFile == Gzs(SUBSET Sweepers)

Data ==
    /\ plain \in [Streams -> Plains] /\ due \in [Streams -> Plains]
    /\ gz \in [Streams -> GzFile] /\ part \in [Streams -> GzFile]
    /\ target = None \/ target \in Copies
    /\ got \in [Sweepers -> Plains] /\ staging \in [Threads -> Copies]

Control ==
    /\ dir \in BOOLEAN /\ tree \in BOOLEAN
    /\ missed \in 0..2 /\ loop \in {None, Idle} \cup Streams
    /\ loops \in 0..MaxLoops /\ crashes \in 0..MaxCrashes
    /\ sweep \in [Sweepers -> {"ready", "list", "next", "copy", "replace", "unlink",
                               "done", "dead"}]
    /\ todo \in [Sweepers -> SUBSET Streams] /\ at \in [Sweepers -> {None} \cup Streams]
    /\ arch \in [Threads -> {"ready", "copy", "verify", "publish", "remove", "git",
                             "restore"}]
    /\ left \in [Threads -> SUBSET Streams]
    /\ excused \in [Streams -> SUBSET {"written", "shared", "raced"}]
    /\ raised \in BOOLEAN /\ torn \in SUBSET Streams

LEMMA TypeParts == TypeOK <=> Data /\ Control
BY DEF TypeOK, Data, Control, GzFile, Places

-----------------------------------------------------------------------------
(* The invariant, as far as the streams go. *)

\* What a stream was given is in the archive, or it was deleted.
Safe(n) == due[n] = None \/ (target # None /\ Reads(n, target[n]) = due[n])

\* A sweep that is at a stream has read it.
Working ==
    \A s \in Sweepers :
        /\ sweep[s] \in {"copy", "replace", "unlink"} => at[s] \in Streams
        /\ sweep[s] = "copy" => got[s] # None

\* A compressed file is written by nobody but a sweep that copies to it, or did.
Opened ==
    \A n \in Streams, s \in Sweepers :
        (part[n] # None /\ s \in part[n].by) \/ (gz[n] # None /\ s \in gz[n].by) =>
            sweep[s] = "dead" \/ (sweep[s] = "copy" /\ at[s] = n)

\* Unless it says so, a stream has one sweep at a time ...
Single ==
    \A n \in Streams : excused[n] = {} => \A s, r \in Compressing(n) : s = r

\* ... and at each step of it all there is of it is in the right places.
HasAll(n, s) ==
    /\ sweep[s] = "copy" =>
           /\ plain[n] = due[n] /\ got[s] = due[n]
           /\ part[n] # None /\ part[n] = Gz(Half, {s})
    /\ sweep[s] = "replace" =>
           plain[n] = due[n] /\ part[n] # None /\ part[n] = Gz(due[n], {})
    /\ sweep[s] = "unlink" =>
           plain[n] = due[n] /\ gz[n] # None /\ gz[n] = Gz(due[n], {})

\* Nothing has gone wrong with the run directory that TreeHasRecord excepts.
Intact(n) == crashes = 0 /\ ~raised /\ n \notin torn /\ due[n] # None

\* A sweep that goes on with the stream must have all of it.
Counts(n) == ~Safe(n) \/ Intact(n)

Compressed ==
    \A n \in Streams : excused[n] = {} /\ Counts(n) =>
        \A s \in Sweepers : at[s] = n => HasAll(n, s)

StreamsInv == Working /\ Opened /\ Single /\ Compressed /\ RecordKept

-----------------------------------------------------------------------------
(* The invariant, as far as archives go. *)

\* An archive that has verified its copy has it all; one that removes has published it.
Archived ==
    \A n \in Streams : excused[n] = {} /\ ~Safe(n) => \A t \in Threads :
        /\ arch[t] = "publish" => Reads(n, staging[t][n]) = due[n]
        /\ arch[t] # "remove"

\* A directory that is gone was published first.
Gone == \A n \in Streams : excused[n] = {} /\ ~dir => Safe(n)

\* The same of the run as a whole, whatever became of its streams
Deleted == \A n \in Streams : due[n] = None

Removed ==
    /\ ~dir /\ target = None => Deleted
    /\ \A t \in Threads : arch[t] = "remove" => target # None \/ ~dir

\* A listing that has not found the directory will find the archive.
Listed == missed = 1 => target # None \/ (~dir /\ Deleted)

\* Somebody has yet to ask git, or to answer for its refusal.
Pending ==
    crashes = 0 /\ ~raised /\ ~dir /\ tree =>
        Deleted \/ \E t \in Threads : arch[t] \in {"git", "restore"}

ArchiveInv == Archived /\ Gone /\ Removed /\ Listed /\ Pending

-----------------------------------------------------------------------------
(* The invariant, as far as the run directory's own record goes. *)

\* Without the directory there is no plain file.
Bare == ~dir => \A n \in Streams : plain[n] = None

\* An archive has removed the stream.
Taken(n) == plain[n] = None /\ (~dir \/ \E t \in Threads : arch[t] = "remove" /\ n \notin left[t])

\* What can be read of a stream elsewhere can be read here, unless it was removed.
Here ==
    \A n \in Streams : excused[n] = {} /\ Intact(n) =>
        Reads(n, [plain |-> plain[n], gz |-> gz[n]]) = due[n] \/ Taken(n)

HereInv == Bare /\ Here

Inv == Data /\ Control /\ StreamsInv /\ ArchiveInv /\ HereInv

-----------------------------------------------------------------------------
(* Compressed files and copies. *)

LEMMA Kinds ==
    /\ None \notin Streams /\ None \notin Bytes /\ None # Idle /\ Idle \notin Streams
    /\ MaxLoops \in Nat /\ MaxCrashes \in Nat
<1>1. MaxLoops \in Nat /\ MaxCrashes \in Nat BY BoundAssumption
<1>2. \A n \in Streams : n \in Int /\ n # 0 BY BoundAssumption
<1>3. \A n \in Int : n # None BY BoundAssumption
<1>4. 0 \in Int /\ 1 \in Int OBVIOUS
<1> QED BY <1>1, <1>2, <1>3, <1>4 DEF Bytes, Idle

LEMMA GzFields ==
    /\ \A file \in GzFile : file # None =>
         file.body \in Bytes \cup {Half} /\ file.by \in SUBSET Sweepers
    /\ \A body \in Bytes \cup {Half}, by \in SUBSET Sweepers :
         /\ Gz(body, by) \in GzFile /\ Gz(body, by) # None
         /\ Gz(body, by).body = body /\ Gz(body, by).by = by
    /\ None \in GzFile
BY BoundAssumption DEF GzFile, Gzs, Gz

\* A file that is being written is copied as half a file.
LEMMA FrozenType ==
    ASSUME NEW file \in GzFile
    PROVE  Frozen(file) \in Gzs({{}}) /\ (file # None /\ file.by # {} => Frozen(file).body = Half)
BY DEF Frozen, GzFile, Gzs, Gz

LEMMA SnapType ==
    ASSUME Data, NEW n \in Streams
    PROVE  Snap(n) \in [plain : Plains, gz : Gzs({{}}), part : Gzs({{}})]
BY FrozenType DEF Data, Snap

\* A copy that is the same as the files reads the same.
LEMMA SnapReads ==
    ASSUME Data, NEW n \in Streams, due[n] # None,
           Reads(n, [plain |-> plain[n], gz |-> gz[n]]) = due[n]
    PROVE  Reads(n, Snap(n)) = due[n]
BY DEF Reads, Snap, Frozen

\* The last byte of a sweep's own copy completes it; nobody else's is touched.
LEMMA WrittenFile ==
    ASSUME NEW file \in GzFile, NEW s \in Sweepers, got[s] \in Bytes
    PROVE  /\ Written(file, s) \in GzFile /\ (Written(file, s) = None <=> file = None)
           /\ file # None => Written(file, s).by = file.by \ {s}
           /\ file # None /\ s \notin file.by => Written(file, s) = file
           /\ file # None /\ file = Gz(Half, {s}) => Written(file, s) = Gz(got[s], {})
<1>1. CASE file = None BY <1>1 DEF Written
<1>2. CASE file # None /\ s \notin file.by
  <2>1. Written(file, s) = file BY <1>2 DEF Written
  <2>2. file # Gz(Half, {s}) BY <1>2, GzFields
  <2> QED BY <1>2, <2>1, <2>2
<1>3. CASE file # None /\ s \in file.by
  <2>1. file.by \ {s} \in SUBSET Sweepers BY <1>3, GzFields
  <2>2. Written(file, s) = Gz(IF file.by = {s} THEN got[s] ELSE Half, file.by \ {s})
    BY <1>3 DEF Written
  <2>3. file = Gz(Half, {s}) => file.by = {s} BY GzFields
  <2> QED BY <1>3, <2>1, <2>2, <2>3, GzFields
<1> QED BY <1>1, <1>2, <1>3

\* What is safe stays so as long as neither is touched.
LEMMA SafeStays ==
    ASSUME due' = due, target' = target
    PROVE  \A n \in Streams : Safe(n)' <=> Safe(n)
BY DEF Safe, Reads

\* Nor does a stream come to count.
LEMMA CountsStays ==
    ASSUME Inv, due' = due, target' = target, crashes' \in {crashes, crashes + 1},
           raised' = raised \/ raised', torn \subseteq torn'
    PROVE  \A n \in Streams : (Intact(n)' => Intact(n)) /\ (Counts(n)' => Counts(n))
<1>1. crashes' = 0 => crashes = 0 BY BoundAssumption DEF Inv, Control
<1>2. \A n \in Streams : Intact(n)' => Intact(n) BY <1>1 DEF Intact
<1> QED BY <1>2, SafeStays DEF Counts

\* A whole plain file is all that is needed.
LEMMA PlainKept ==
    ASSUME NEW n \in Streams, due[n] # None, plain[n] = due[n]
    PROVE  Kept(n)
BY DEF Kept, Reads

-----------------------------------------------------------------------------
(* Steps that leave one half alone. *)

LEMMA StreamsStill ==
    ASSUME Inv, UNCHANGED <<files, target, due, excused, sweep, at, got>>,
           crashes' \in {crashes, crashes + 1}, raised' = raised \/ raised', torn \subseteq torn'
    PROVE  StreamsInv'
<1> USE DEF files
<1>1. \A n \in Streams : Counts(n)' => Counts(n) BY CountsStays
<1>2. Working' BY DEF Inv, StreamsInv, Working
<1>3. Opened' BY DEF Inv, StreamsInv, Opened
<1>4. Single' BY DEF Inv, StreamsInv, Single, Compressing
<1>5. Compressed' BY <1>1 DEF Inv, StreamsInv, Compressed, HasAll
<1>6. RecordKept' BY DEF Inv, StreamsInv, RecordKept, Kept, Reads
<1> QED BY <1>2, <1>3, <1>4, <1>5, <1>6 DEF StreamsInv

LEMMA ArchiveStill ==
    ASSUME Inv, UNCHANGED <<dir, tree, target, arch, staging, missed, due>>,
           crashes' \in {crashes, crashes + 1}, raised' = raised \/ raised',
           \A n \in Streams : excused'[n] = {} => excused[n] = {}
    PROVE  ArchiveInv'
<1>1. \A n \in Streams : Safe(n)' <=> Safe(n) BY SafeStays
<1>2. Archived' BY <1>1 DEF Inv, ArchiveInv, Archived, Reads
<1>3. Gone' BY <1>1 DEF Inv, ArchiveInv, Gone
<1>4. Removed' /\ Listed' BY DEF Inv, ArchiveInv, Removed, Listed, Deleted
<1>5. crashes' = 0 => crashes = 0 BY BoundAssumption DEF Inv, Control
<1>6. Pending' BY <1>5 DEF Inv, ArchiveInv, Pending, Deleted
<1> QED BY <1>2, <1>3, <1>4, <1>6 DEF ArchiveInv

\* The files stay, and one archive at most goes on, not from removing unless it raises.
LEMMA HereStill ==
    ASSUME Inv, UNCHANGED <<dir, plain, gz, due, target>>,
           crashes' \in {crashes, crashes + 1}, raised' = raised \/ raised', torn \subseteq torn',
           \A n \in Streams : excused'[n] = {} => excused[n] = {},
           \A t \in Threads :
               \/ arch'[t] = arch[t] /\ left'[t] = left[t]
               \/ arch[t] # "remove" \/ raised'
    PROVE  HereInv'
<1>1. Bare' BY DEF Inv, HereInv, Bare
<1>2. Here'
  <2> SUFFICES ASSUME NEW n \in Streams, excused'[n] = {}, Intact(n)'
               PROVE  Reads(n, [plain |-> plain[n], gz |-> gz[n]]) = due[n] \/ Taken(n)'
    BY DEF Here, Reads
  <2>1. Reads(n, [plain |-> plain[n], gz |-> gz[n]]) = due[n] \/ Taken(n)
    BY CountsStays DEF Inv, HereInv, Here
  <2>2. Taken(n) => Taken(n)' BY DEF Taken, Intact
  <2> QED BY <2>1, <2>2
<1> QED BY <1>1, <1>2 DEF HereInv

LEMMA QuietInv ==
    ASSUME Inv, Resume \/ CloseStream \/ LoopKilled \/ UNCHANGED vars
    PROVE  Inv'
<1>0. CASE UNCHANGED vars
  <2>1. UNCHANGED <<files, dir, tree, target, loopv, sweeps, archives, missed, crashes, due, history>>
    BY <1>0 DEF vars, files
  <2>2. Data' BY <2>1 DEF files, sweeps, archives, Inv, Data
  <2>3. Control' BY <2>1 DEF loopv, sweeps, archives, Inv, Control
  <2>4. StreamsInv' BY <2>1, StreamsStill DEF sweeps
  <2>5. ArchiveInv' BY <2>1, ArchiveStill DEF archives
  <2>6. HereInv' BY <2>1, HereStill DEF files, archives
  <2> QED BY <2>2, <2>3, <2>4, <2>5, <2>6 DEF Inv
<1> SUFFICES ASSUME Resume \/ CloseStream \/ LoopKilled PROVE Inv' BY <1>0
<1> USE DEF Resume, CloseStream, LoopKilled, Killed
<1>1. UNCHANGED <<files, dir, tree, target, sweeps, archives, missed, due, history>>
  OBVIOUS
<1>2. /\ loop' \in {None, Idle, loop} /\ loops' \in 0..MaxLoops
      /\ crashes' \in {crashes, crashes + 1} /\ crashes' \in 0..MaxCrashes
  <2>1. loops \in 0..MaxLoops /\ crashes \in 0..MaxCrashes BY DEF Inv, Control
  <2>2. CASE Resume BY <2>1, <2>2, Kinds
  <2>3. CASE CloseStream BY <2>1, <2>3
  <2>4. CASE LoopKilled BY <2>1, <2>4, Kinds
  <2> QED BY <2>2, <2>3, <2>4
<1>3. Data' BY <1>1 DEF files, sweeps, archives, Inv, Data
<1>4. Control' BY <1>1, <1>2 DEF sweeps, archives, Inv, Control
<1>5. StreamsInv' BY <1>1, <1>2, StreamsStill DEF sweeps
<1>6. ArchiveInv' BY <1>1, <1>2, ArchiveStill DEF archives
<1>7. HereInv' BY <1>1, <1>2, HereStill DEF files, archives
<1> QED BY <1>3, <1>4, <1>5, <1>6, <1>7 DEF Inv

-----------------------------------------------------------------------------
(* The loop writes. *)

\* What a stream is given while nothing compresses it and nobody has verified a
\* copy of it is in the plain file.
LEMMA GivenInv ==
    ASSUME Inv, NEW n \in Streams, NEW data \in Bytes,
           due' = [due EXCEPT ![n] = data],
           plain' = [plain EXCEPT ![n] = data] \/ (plain[n] = None /\ plain' = plain /\ loop = n),
           excused' = [excused EXCEPT ![n] = @ \cup Excuse(n)],
           dir \/ (due[n] # None /\ plain' = plain),
           UNCHANGED <<gz, part, dir, tree, target, sweeps, archives, missed, crashes, raised, torn>>
    PROVE  StreamsInv' /\ ArchiveInv' /\ HereInv'
<1> USE DEF sweeps, archives
<1>1. /\ due'[n] = data /\ data # None /\ plain'[n] \in {data, None}
      /\ excused'[n] = excused[n] \cup Excuse(n)
      /\ \A m \in Streams : m # n =>
           due'[m] = due[m] /\ plain'[m] = plain[m] /\ excused'[m] = excused[m]
  BY Kinds DEF Inv, Data, Control
<1>2. excused'[n] = {} =>
        dir /\ ~Verified /\ Compressing(n) = {} /\ excused[n] = {} /\ plain'[n] = data
  <2> SUFFICES ASSUME excused'[n] = {}
               PROVE  dir /\ ~Verified /\ Compressing(n) = {} /\ excused[n] = {} /\ plain'[n] = data
    OBVIOUS
  <2>1. excused[n] = {} /\ Excuse(n) = {} BY <1>1
  <2>2. Compressing(n) = {} /\ ~Verified /\ dir /\ ~(loop = n /\ plain[n] = None)
    BY <2>1 DEF Excuse
  <2> QED BY <1>1, <2>1, <2>2 DEF Inv, Data
<1>3. \A m \in Streams : m # n =>
        (Safe(m)' <=> Safe(m)) /\ (Intact(m)' <=> Intact(m)) /\ (Counts(m)' <=> Counts(m))
  BY <1>1 DEF Safe, Reads, Intact, Counts
<1>4. \A m \in Streams : Compressing(m)' = Compressing(m) BY DEF Compressing
<1>5. Working' BY DEF Inv, StreamsInv, Working
<1>6. Opened' BY DEF Inv, StreamsInv, Opened
<1>7. Single' BY <1>1, <1>2, <1>4 DEF Inv, StreamsInv, Single
<1>8. Compressed'
  <2> SUFFICES ASSUME NEW m \in Streams, excused'[m] = {}, Counts(m)', NEW s \in Sweepers, at[s] = m
               PROVE  HasAll(m, s)'
    BY DEF Compressed
  <2>1. CASE m = n BY <1>2, <2>1 DEF Compressing, HasAll
  <2>2. CASE m # n
    <3>1. HasAll(m, s) BY <1>1, <1>3, <2>2 DEF Inv, StreamsInv, Compressed
    <3> QED BY <1>1, <2>2, <3>1 DEF HasAll
  <2> QED BY <2>1, <2>2
<1>9. RecordKept'
  <2> SUFFICES ASSUME NEW m \in Streams, excused'[m] = {} PROVE Kept(m)' BY DEF RecordKept
  <2>1. CASE m = n BY <1>1, <1>2, <2>1 DEF Kept, Reads
  <2>2. CASE m # n
    <3>1. Kept(m) BY <1>1, <2>2 DEF Inv, StreamsInv, RecordKept
    <3> QED BY <1>1, <2>2, <3>1 DEF Kept, Reads
  <2> QED BY <2>1, <2>2
<1>10. Archived'
  <2> SUFFICES ASSUME NEW m \in Streams, excused'[m] = {}, ~Safe(m)', NEW t \in Threads
               PROVE  /\ arch[t] = "publish" => Reads(m, staging[t][m]) = due'[m]
                      /\ arch[t] # "remove"
    BY DEF Archived, Reads
  <2>1. CASE m = n BY <1>2, <2>1 DEF Verified
  <2>2. CASE m # n BY <1>1, <1>3, <2>2 DEF Inv, ArchiveInv, Archived
  <2> QED BY <2>1, <2>2
<1>11. Gone' BY <1>1, <1>2, <1>3 DEF Inv, ArchiveInv, Gone
<1>12. ~dir => ~Deleted BY DEF Deleted
<1>13. Removed' /\ Listed' BY <1>12 DEF Inv, ArchiveInv, Removed, Listed
<1>14. Pending' BY <1>12 DEF Inv, ArchiveInv, Pending
<1>15. Bare' BY DEF Inv, HereInv, Bare
<1>16. Here'
  <2> SUFFICES ASSUME NEW m \in Streams, excused'[m] = {}, Intact(m)'
               PROVE  Reads(m, [plain |-> plain'[m], gz |-> gz[m]]) = due'[m] \/ Taken(m)'
    BY DEF Here, Reads
  <2>1. CASE m = n BY <1>1, <1>2, <2>1 DEF Reads
  <2>2. CASE m # n BY <1>1, <1>3, <2>2 DEF Inv, HereInv, Here, Taken, Reads
  <2> QED BY <2>1, <2>2
<1> QED BY <1>5, <1>6, <1>7, <1>8, <1>9, <1>10, <1>11, <1>13, <1>14, <1>15, <1>16
        DEF StreamsInv, ArchiveInv, HereInv

LEMMA OpenInv ==
    ASSUME Inv, NEW n \in Streams, Open(n)
    PROVE  Inv'
<1> USE DEF Open, files, sweeps, archives
<1>1. CASE dir
  <2>1. StreamsInv' /\ ArchiveInv' /\ HereInv' BY <1>1, GivenInv DEF Bytes
  <2>2. Data' BY <1>1 DEF Inv, Data, Plains, Bytes
  <2>3. Excuse(n) \in SUBSET {"written", "shared", "raced"} BY DEF Excuse
  <2>4. Control' BY <1>1, <2>3 DEF Inv, Control
  <2> QED BY <2>1, <2>2, <2>4 DEF Inv
<1>2. CASE ~dir
  <2>1. UNCHANGED <<files, dir, tree, target, sweeps, archives, missed, crashes, due, history>>
    BY <1>2
  <2>2. Data' BY <2>1 DEF Inv, Data
  <2>3. Control' BY <1>2, <2>1 DEF Inv, Control
  <2>4. StreamsInv' BY <2>1, StreamsStill
  <2>5. ArchiveInv' BY <2>1, ArchiveStill
  <2>6. HereInv' BY <2>1, HereStill
  <2> QED BY <2>2, <2>3, <2>4, <2>5, <2>6 DEF Inv
<1> QED BY <1>1, <1>2

LEMMA WriteInv ==
    ASSUME Inv, Write
    PROVE  Inv'
<1> USE DEF Write, sweeps, archives
<1>1. loop \in Streams /\ due[loop] # None BY Kinds DEF Bytes
<1>2. plain' = [plain EXCEPT ![loop] = 1] \/ (plain[loop] = None /\ plain' = plain)
  <2>1. CASE plain[loop] = None BY <1>1, <2>1 DEF Inv, Data
  <2>2. CASE plain[loop] # None BY <2>2
  <2> QED BY <2>1, <2>2
<1>7. dir \/ plain' = plain
  <2>1. ASSUME ~dir PROVE plain[loop] = None BY <1>1, <2>1 DEF Inv, HereInv, Bare
  <2> QED BY <1>1, <2>1 DEF Inv, Data
<1>3. StreamsInv' /\ ArchiveInv' /\ HereInv' BY <1>1, <1>2, <1>7, GivenInv DEF Bytes
<1>4. Data' BY <1>1, <1>2 DEF Inv, Data, Plains, Bytes
<1>5. Excuse(loop) \in SUBSET {"written", "shared", "raced"} BY DEF Excuse
<1>6. Control' BY <1>1, <1>5 DEF Inv, Control
<1> QED BY <1>3, <1>4, <1>6 DEF Inv

-----------------------------------------------------------------------------
(* Sweeps. *)

\* One that does not have a stream in work, or has no more
LEMMA SweepMoves ==
    ASSUME Inv, NEW s \in Sweepers, NEW where \in {"list", "next", "done"},
           sweep' = [sweep EXCEPT ![s] = where], sweep[s] \notin {"copy", "dead"},
           at' = [at EXCEPT ![s] = None] \/ at' = at,
           got' = [got EXCEPT ![s] = None] \/ got' = got,
           UNCHANGED <<files, target, due, history, crashes>>
    PROVE  StreamsInv'
<1> USE DEF files
<1>1. /\ sweep'[s] = where
      /\ \A r \in Sweepers : r # s => sweep'[r] = sweep[r] /\ at'[r] = at[r] /\ got'[r] = got[r]
  BY DEF Inv, Control, Data
<1>2. \A n \in Streams : Counts(n)' => Counts(n) BY CountsStays
<1>3. Working' BY <1>1 DEF Inv, StreamsInv, Working
<1>4. Opened' BY <1>1 DEF Inv, StreamsInv, Opened
<1>5. \A n \in Streams : Compressing(n)' \subseteq Compressing(n)
  BY <1>1 DEF Compressing
<1>6. Single' BY <1>5 DEF Inv, StreamsInv, Single
<1>7. Compressed'
  <2> SUFFICES ASSUME NEW n \in Streams, excused[n] = {}, Counts(n), NEW r \in Sweepers, at'[r] = n
               PROVE  HasAll(n, r)'
    BY <1>2 DEF Compressed
  <2>1. CASE r = s BY <1>1, <2>1 DEF HasAll
  <2>2. CASE r # s BY <1>1, <2>2 DEF Inv, StreamsInv, Compressed, HasAll
  <2> QED BY <2>1, <2>2
<1>8. RecordKept' BY DEF Inv, StreamsInv, RecordKept, Kept, Reads
<1> QED BY <1>3, <1>4, <1>6, <1>7, <1>8 DEF StreamsInv

LEMMA BeginsInv ==
    ASSUME Inv, NEW s \in Sweepers, Ends(s) \/ Passes(s) \/ Compressible(s)
    PROVE  Inv'
<1> USE DEF Ends, Passes, Compressible, Onward
<1>1. /\ UNCHANGED <<files, dir, tree, target, loops, at, got, archives, missed, crashes, due,
                    history>>
      /\ sweep[s] \in {"ready", "list"}
  BY DEF loopv
<1>2. PICK where \in {"list", "next", "done"} : sweep' = [sweep EXCEPT ![s] = where] OBVIOUS
<1>3. /\ todo' \in [Sweepers -> SUBSET Streams] /\ loop' \in {None, loop}
  BY DEF loopv, Inv, Control
<1>4. Data' BY <1>1 DEF files, archives, Inv, Data
<1>5. Control' BY <1>1, <1>2, <1>3 DEF archives, Inv, Control
<1>6. StreamsInv' BY <1>1, <1>2, SweepMoves
<1>7. ArchiveInv' BY <1>1, ArchiveStill DEF archives
<1>8. HereInv' BY <1>1, HereStill DEF files, archives
<1> QED BY <1>4, <1>5, <1>6, <1>7, <1>8 DEF Inv

\* A sweep that fails, or goes on to another stream
LEMMA FailsInv ==
    ASSUME Inv, NEW s \in Sweepers, Fails(s), sweep[s] \in {"next", "replace", "unlink"},
           UNCHANGED <<dir, tree, target, loopv, archives, missed, crashes, due, raised, torn>>
    PROVE  Inv'
<1> USE DEF Fails, Finished
<1>1. Data' BY DEF files, archives, Inv, Data, Plains
<1>2. Control' BY DEF loopv, archives, Inv, Control
<1>3. StreamsInv' BY SweepMoves
<1>4. ArchiveInv' BY ArchiveStill DEF archives
<1>5. HereInv' BY HereStill DEF files, archives
<1> QED BY <1>1, <1>2, <1>3, <1>4, <1>5 DEF Inv

LEMMA OpenBothInv ==
    ASSUME Inv, NEW s \in Sweepers, NEW n \in Streams, OpenBoth(s, n)
    PROVE  Inv'
<1>1. CASE plain[n] = None
  <2>1. Fails(s) /\ sweep[s] = "next" BY <1>1 DEF OpenBoth
  <2> QED BY <2>1, FailsInv DEF OpenBoth
<1>2. CASE plain[n] # None
  <2> DEFINE others == IF part[n] = None THEN {}
                       ELSE part[n].by \ {r \in Sweepers : sweep[r] = "dead"}
  <2>1. /\ sweep[s] = "next" /\ n \in todo[s]
        /\ at' = [at EXCEPT ![s] = n] /\ todo' = [todo EXCEPT ![s] = @ \ {n}]
        /\ got' = [got EXCEPT ![s] = plain[n]]
        /\ part' = [part EXCEPT ![n] = Gz(Half, others \cup {s})]
        /\ sweep' = [sweep EXCEPT ![s] = "copy"]
        /\ excused' = [excused EXCEPT ![n] =
              @ \cup (IF loop = n THEN {"written"} ELSE {})
                \cup (IF Compressing(n) # {} THEN {"shared"} ELSE {})]
        /\ UNCHANGED <<plain, gz, dir, tree, target, loopv, archives, missed, crashes, due, raised, torn>>
    BY <1>2 DEF OpenBoth
  <2> HIDE DEF others
  <2>2. others \in SUBSET Sweepers BY GzFields DEF others, Inv, Data
  <2>3. Gz(Half, others \cup {s}) \in GzFile BY <2>2, GzFields
  <2>4. Data' BY <2>1, <2>3 DEF archives, Inv, Data
  <2>5. Control' BY <2>1 DEF loopv, archives, Inv, Control
  <2>6. \A m \in Streams : excused'[m] = {} => excused[m] = {}
    BY <2>1 DEF Inv, Control
  <2>7. excused'[n] = {} => Compressing(n) = {} BY <2>1 DEF Inv, Control
  <2>8. /\ sweep'[s] = "copy" /\ at'[s] = n /\ got'[s] = plain[n]
        /\ part'[n] = Gz(Half, others \cup {s})
        /\ \A r \in Sweepers : r # s => sweep'[r] = sweep[r] /\ at'[r] = at[r] /\ got'[r] = got[r]
        /\ \A m \in Streams : m # n => part'[m] = part[m]
    BY <2>1 DEF Inv, Data, Control
  <2>9. Compressing(n) = {} => others = {}
    <3> SUFFICES ASSUME NEW r \in others PROVE r \in Compressing(n) OBVIOUS
    <3>1. part[n] # None /\ r \in part[n].by /\ r \in Sweepers /\ sweep[r] # "dead"
      BY <2>2 DEF others
    <3>2. sweep[r] = "copy" /\ at[r] = n BY <3>1 DEF Inv, StreamsInv, Opened
    <3> QED BY <3>1, <3>2 DEF Compressing
  <2>10. \A m \in Streams : Counts(m)' => Counts(m) BY <2>1, CountsStays
  <2>11. Working' BY <1>2, <2>8 DEF Inv, StreamsInv, Working
  <2>12. Opened'
    <3> SUFFICES ASSUME NEW m \in Streams, NEW r \in Sweepers,
                        (part'[m] # None /\ r \in part'[m].by) \/ (gz[m] # None /\ r \in gz[m].by)
                 PROVE  sweep'[r] = "dead" \/ (sweep'[r] = "copy" /\ at'[r] = m)
      BY <2>1 DEF Opened
    <3>1. CASE r = s
      <4>1. m = n BY <2>1, <2>8, <3>1 DEF Inv, StreamsInv, Opened
      <4> QED BY <2>8, <3>1, <4>1
    <3>2. CASE r # s
      <4>1. m = n => part'[m].by = others \cup {s} BY <2>2, <2>8, GzFields
      <4>2. (part[m] # None /\ r \in part[m].by) \/ (gz[m] # None /\ r \in gz[m].by)
        BY <2>8, <3>2, <4>1 DEF others
      <4> QED BY <2>8, <3>2, <4>2 DEF Inv, StreamsInv, Opened
    <3> QED BY <3>1, <3>2
  <2>13. Single'
    <3>1. \A m \in Streams : m # n => Compressing(m)' \subseteq Compressing(m)
      BY <2>8 DEF Compressing
    <3>2. Compressing(n) = {} => Compressing(n)' \subseteq {s} BY <2>8 DEF Compressing
    <3> QED BY <2>6, <2>7, <3>1, <3>2 DEF Inv, StreamsInv, Single
  <2>14. Compressed'
    <3> SUFFICES ASSUME NEW m \in Streams, excused'[m] = {}, Counts(m), NEW r \in Sweepers, at'[r] = m
                 PROVE  HasAll(m, r)'
      BY <2>10 DEF Compressed
    <3>1. CASE m = n /\ r = s
      <4>1. Kept(n) BY <2>6, <3>1 DEF Inv, StreamsInv, RecordKept
      <4>2. plain[n] = due[n]
        <5>1. CASE ~Safe(n) BY <1>2, <3>1, <4>1, <5>1 DEF Kept, Safe, Reads
        <5>2. CASE Intact(n)
          <6>1. excused[n] = {} BY <2>6, <3>1
          <6>2. Reads(n, [plain |-> plain[n], gz |-> gz[n]]) = due[n] \/ Taken(n)
            BY <5>2, <6>1 DEF Inv, HereInv, Here
          <6> QED BY <1>2, <6>2 DEF Taken, Reads
        <5> QED BY <3>1, <5>1, <5>2 DEF Counts
      <4>3. part'[n] = Gz(Half, {s}) BY <2>7, <2>8, <2>9, <3>1
      <4>4. part'[n] # None BY <4>3, GzFields
      <4> QED BY <2>1, <2>8, <3>1, <4>2, <4>3, <4>4 DEF HasAll
    <3>2. CASE m = n /\ r # s BY <2>7, <2>8, <3>2 DEF HasAll, Compressing
    <3>3. CASE m # n
      <4>1. r # s /\ at[r] = m BY <2>8, <3>3
      <4>2. HasAll(m, r) BY <2>6, <4>1 DEF Inv, StreamsInv, Compressed
      <4> QED BY <2>1, <2>8, <3>3, <4>1, <4>2 DEF HasAll
    <3> QED BY <3>1, <3>2, <3>3
  <2>15. RecordKept' BY <2>1, <2>6 DEF Inv, StreamsInv, RecordKept, Kept, Reads
  <2>16. ArchiveInv' BY <2>1, <2>6, ArchiveStill DEF archives
  <2>17. HereInv' BY <2>1, <2>6, HereStill DEF archives
  <2> QED BY <2>4, <2>5, <2>11, <2>12, <2>13, <2>14, <2>15, <2>16, <2>17 DEF Inv, StreamsInv
<1> QED BY <1>1, <1>2

\* The sweep at a stream that is not in danger is the only one.
LEMMA Sole ==
    ASSUME Inv, NEW s \in Sweepers, NEW r \in Sweepers, excused[at[s]] = {}, at[r] = at[s],
           sweep[s] \in {"copy", "replace", "unlink"}, sweep[r] \in {"copy", "replace", "unlink"}
    PROVE  r = s
<1>1. at[s] \in Streams BY DEF Inv, StreamsInv, Working
<1>2. {s, r} \subseteq Compressing(at[s]) BY DEF Compressing
<1> QED BY <1>1, <1>2 DEF Inv, StreamsInv, Single

LEMMA CopiedInv ==
    ASSUME Inv, NEW s \in Sweepers, Copied(s)
    PROVE  Inv'
<1> DEFINE n == at[s]
<1>1. /\ sweep[s] = "copy" /\ sweep' = [sweep EXCEPT ![s] = "replace"]
      /\ part' = [part EXCEPT ![n] = Written(@, s)] /\ gz' = [gz EXCEPT ![n] = Written(@, s)]
      /\ UNCHANGED <<plain, dir, tree, target, loopv, todo, at, got, archives, missed, crashes,
                     due, history>>
  BY DEF Copied
<1>2. n \in Streams /\ got[s] \in Bytes
  BY <1>1 DEF Inv, StreamsInv, Working, Data, Plains
<1> HIDE DEF n
<1>3. /\ part'[n] = Written(part[n], s) /\ gz'[n] = Written(gz[n], s)
      /\ \A m \in Streams : m # n => part'[m] = part[m] /\ gz'[m] = gz[m]
      /\ sweep'[s] = "replace" /\ \A r \in Sweepers : r # s => sweep'[r] = sweep[r]
  BY <1>1, <1>2 DEF Inv, Data, Control
<1>4. part[n] \in GzFile /\ gz[n] \in GzFile BY <1>2 DEF Inv, Data
<1>5. Data' BY <1>1, <1>2, <1>4, WrittenFile DEF archives, Inv, Data
<1>6. Control' BY <1>1 DEF loopv, archives, Inv, Control
<1>7. \A m \in Streams : Counts(m)' => Counts(m) BY <1>1, CountsStays
<1>8. Working' BY <1>1, <1>2, <1>3 DEF Inv, StreamsInv, Working, n
<1>9. Opened'
  <2> SUFFICES ASSUME NEW m \in Streams, NEW r \in Sweepers,
                      (part'[m] # None /\ r \in part'[m].by) \/ (gz'[m] # None /\ r \in gz'[m].by)
               PROVE  sweep'[r] = "dead" \/ (sweep'[r] = "copy" /\ at[r] = m)
    BY <1>1 DEF Opened
  <2>1. /\ (part[m] # None /\ r \in part[m].by) \/ (gz[m] # None /\ r \in gz[m].by)
        /\ m = n => r # s
    <3>1. CASE m # n BY <1>3, <3>1
    <3>2. CASE m = n
      <4>1. \A file \in GzFile : Written(file, s) # None =>
               file # None /\ Written(file, s).by = file.by \ {s}
        BY <1>2, WrittenFile
      <4>2. part'[n] # None => part[n] # None /\ part'[n].by = part[n].by \ {s}
        BY <1>3, <1>4, <4>1
      <4>3. gz'[n] # None => gz[n] # None /\ gz'[n].by = gz[n].by \ {s}
        BY <1>3, <1>4, <4>1
      <4> QED BY <3>2, <4>2, <4>3
    <3> QED BY <3>1, <3>2
  <2>2. sweep[r] = "dead" \/ (sweep[r] = "copy" /\ at[r] = m)
    BY <2>1 DEF Inv, StreamsInv, Opened
  <2>3. r # s BY <1>1, <2>1, <2>2 DEF n
  <2> QED BY <1>3, <2>2, <2>3
<1>10. \A m \in Streams : Compressing(m)' = Compressing(m) BY <1>1, <1>3 DEF Compressing
<1>11. Single' BY <1>1, <1>10 DEF Inv, StreamsInv, Single
<1>12. Compressed'
  <2> SUFFICES ASSUME NEW m \in Streams, excused[m] = {}, Counts(m), NEW r \in Sweepers, at[r] = m
               PROVE  HasAll(m, r)'
    BY <1>1, <1>7 DEF Compressed
  <2>1. HasAll(m, r) BY DEF Inv, StreamsInv, Compressed
  <2>2. CASE r = s
    <3>1. m = n BY <2>2 DEF n
    <3>2. plain[n] = due[n] /\ got[s] = due[n] /\ part[n] # None /\ part[n] = Gz(Half, {s})
      BY <1>1, <2>1, <2>2, <3>1 DEF HasAll
    <3>3. part'[n] # None /\ part'[n] = Gz(due[n], {}) BY <1>2, <1>3, <1>4, <3>2, WrittenFile
    <3> QED BY <1>1, <1>3, <2>2, <3>1, <3>2, <3>3 DEF HasAll
  <2>3. CASE r # s /\ m # n BY <1>1, <1>3, <2>1, <2>3 DEF HasAll
  <2>4. CASE r # s /\ m = n
    <3>1. sweep[r] \notin {"copy", "replace", "unlink"} BY <1>1, <2>4, Sole DEF n
    <3> QED BY <1>3, <2>4, <3>1 DEF HasAll
  <2> QED BY <2>2, <2>3, <2>4
<1>13. RecordKept'
  <2> SUFFICES ASSUME NEW m \in Streams, excused[m] = {} PROVE Kept(m)' BY <1>1 DEF RecordKept
  <2>1. Kept(m) BY DEF Inv, StreamsInv, RecordKept
  <2>2. CASE m # n BY <1>1, <1>3, <2>1, <2>2 DEF Kept, Reads
  <2>3. CASE m = n
    <3>1. gz[n] # None /\ gz[n].by = {} => gz'[n] = gz[n] BY <1>2, <1>3, <1>4, WrittenFile
    <3> QED BY <1>1, <2>1, <2>3, <3>1 DEF Kept, Reads
  <2> QED BY <2>2, <2>3
<1>14. ArchiveInv' BY <1>1, ArchiveStill DEF archives
<1>15. HereInv'
  <2>1. Bare' BY <1>1 DEF Inv, HereInv, Bare
  <2>2. Here'
    <3> SUFFICES ASSUME NEW m \in Streams, excused[m] = {}, Intact(m)
                 PROVE  Reads(m, [plain |-> plain[m], gz |-> gz'[m]]) = due[m] \/ Taken(m)
      BY <1>1 DEF archives, Here, Reads, Intact, Taken
    <3>1. Reads(m, [plain |-> plain[m], gz |-> gz[m]]) = due[m] \/ Taken(m)
      BY DEF Inv, HereInv, Here
    <3>2. gz[m] # None /\ gz[m].by = {} => gz'[m] = gz[m]
      <4>1. CASE m # n BY <1>3, <4>1
      <4>2. CASE m = n BY <1>2, <1>3, <1>4, <4>2, WrittenFile
      <4> QED BY <4>1, <4>2
    <3>3. due[m] # None BY DEF Intact
    <3> QED BY <3>1, <3>2, <3>3 DEF Reads
  <2> QED BY <2>1, <2>2 DEF HereInv
<1> QED BY <1>5, <1>6, <1>8, <1>9, <1>11, <1>12, <1>13, <1>14, <1>15 DEF Inv, StreamsInv

LEMMA ReplaceInv ==
    ASSUME Inv, NEW s \in Sweepers, Replace(s)
    PROVE  Inv'
<1> DEFINE n == at[s]
<1>1. CASE part[n] = None
  <2>1. Fails(s) /\ sweep[s] = "replace" BY <1>1 DEF Replace
  <2> QED BY <2>1, FailsInv DEF Replace
<1>2. CASE part[n] # None
  <2>1. /\ sweep[s] = "replace" /\ sweep' = [sweep EXCEPT ![s] = "unlink"]
        /\ gz' = [gz EXCEPT ![n] = part[n]] /\ part' = [part EXCEPT ![n] = None]
        /\ UNCHANGED <<plain, todo, at, got, excused, dir, tree, target, loopv, archives,
                       missed, crashes, due, raised, torn>>
    BY <1>2 DEF Replace
  <2>2. n \in Streams BY <2>1 DEF Inv, StreamsInv, Working
  <2> HIDE DEF n
  <2>3. /\ part'[n] = None /\ gz'[n] = part[n]
        /\ \A m \in Streams : m # n => part'[m] = part[m] /\ gz'[m] = gz[m]
        /\ sweep'[s] = "unlink" /\ \A r \in Sweepers : r # s => sweep'[r] = sweep[r]
    BY <2>1, <2>2 DEF Inv, Data, Control
  <2>4. part[n] \in GzFile BY <2>2 DEF Inv, Data
  <2>5. Data' BY <2>1, <2>2, <2>4, GzFields DEF archives, Inv, Data
  <2>6. Control' BY <2>1 DEF loopv, archives, Inv, Control
  <2>7. \A m \in Streams : Counts(m)' => Counts(m) BY <2>1, CountsStays
  <2>8. Working' BY <2>1, <2>2, <2>3 DEF Inv, StreamsInv, Working, n
  <2>9. Opened'
    <3> SUFFICES ASSUME NEW m \in Streams, NEW r \in Sweepers,
                        (part'[m] # None /\ r \in part'[m].by) \/ (gz'[m] # None /\ r \in gz'[m].by)
                 PROVE  sweep'[r] = "dead" \/ (sweep'[r] = "copy" /\ at[r] = m)
      BY <2>1 DEF Opened
    <3>1. (part[m] # None /\ r \in part[m].by) \/ (gz[m] # None /\ r \in gz[m].by)
      BY <1>2, <2>3
    <3>2. sweep[r] = "dead" \/ (sweep[r] = "copy" /\ at[r] = m)
      BY <3>1 DEF Inv, StreamsInv, Opened
    <3> QED BY <2>1, <2>3, <3>2
  <2>10. \A m \in Streams : Compressing(m)' = Compressing(m) BY <2>1, <2>3 DEF Compressing
  <2>11. Single' BY <2>1, <2>10 DEF Inv, StreamsInv, Single
  <2>12. Counts(n) /\ excused[n] = {} =>
            plain[n] = due[n] /\ due[n] # None /\ part[n] = Gz(due[n], {})
    BY <2>1, <2>2 DEF Inv, StreamsInv, Compressed, HasAll, Safe, Counts, Intact, n
  <2>13. Compressed'
    <3> SUFFICES ASSUME NEW m \in Streams, excused[m] = {}, Counts(m), NEW r \in Sweepers, at[r] = m
                 PROVE  HasAll(m, r)'
      BY <2>1, <2>7 DEF Compressed
    <3>1. HasAll(m, r) BY DEF Inv, StreamsInv, Compressed
    <3>2. CASE r = s
      <4>1. m = n BY <3>2 DEF n
      <4> QED BY <1>2, <2>1, <2>3, <2>12, <3>2, <4>1 DEF HasAll
    <3>3. CASE r # s /\ m # n BY <2>1, <2>3, <3>1, <3>3 DEF HasAll
    <3>4. CASE r # s /\ m = n
      <4>1. sweep[r] \notin {"copy", "replace", "unlink"} BY <2>1, <3>4, Sole DEF n
      <4> QED BY <2>3, <3>4, <4>1 DEF HasAll
    <3> QED BY <3>2, <3>3, <3>4
  <2>14. RecordKept'
    <3> SUFFICES ASSUME NEW m \in Streams, excused[m] = {} PROVE Kept(m)' BY <2>1 DEF RecordKept
    <3>1. Kept(m) BY DEF Inv, StreamsInv, RecordKept
    <3>2. CASE m # n BY <2>1, <2>3, <3>1, <3>2 DEF Kept, Reads
    <3>3. CASE m = n BY <2>1, <2>12, <3>3 DEF Kept, Reads, Safe, Counts
    <3> QED BY <3>2, <3>3
  <2>15. ArchiveInv' BY <2>1, ArchiveStill DEF archives
  <2>16. HereInv'
    <3>1. Bare' BY <2>1 DEF Inv, HereInv, Bare
    <3>2. Here'
      <4> SUFFICES ASSUME NEW m \in Streams, excused[m] = {}, Intact(m)
                   PROVE  Reads(m, [plain |-> plain[m], gz |-> gz'[m]]) = due[m] \/ Taken(m)
        BY <2>1 DEF archives, Here, Reads, Intact, Taken
      <4>1. CASE m = n BY <2>12, <4>1 DEF Counts, Reads
      <4>2. CASE m # n BY <2>3, <4>2 DEF Inv, HereInv, Here, Reads
      <4> QED BY <4>1, <4>2
    <3> QED BY <3>1, <3>2 DEF HereInv
  <2> QED BY <2>5, <2>6, <2>8, <2>9, <2>11, <2>13, <2>14, <2>15, <2>16 DEF Inv, StreamsInv
<1> QED BY <1>1, <1>2

LEMMA UnlinkInv ==
    ASSUME Inv, NEW s \in Sweepers, Unlink(s)
    PROVE  Inv'
<1> DEFINE n == at[s]
<1>1. CASE plain[n] = None
  <2>1. Fails(s) /\ sweep[s] = "unlink" BY <1>1 DEF Unlink
  <2> QED BY <2>1, FailsInv DEF Unlink
<1>2. CASE plain[n] # None
  <2>1. PICK where \in {"next", "done"} :
          /\ sweep[s] = "unlink" /\ sweep' = [sweep EXCEPT ![s] = where]
          /\ plain' = [plain EXCEPT ![n] = None]
          /\ at' = [at EXCEPT ![s] = None] /\ got' = [got EXCEPT ![s] = None]
          /\ UNCHANGED <<gz, part, todo, excused, dir, tree, target, loopv, archives,
                         missed, crashes, due, raised, torn>>
    BY <1>2 DEF Unlink, Onward
  <2>2. n \in Streams BY <2>1 DEF Inv, StreamsInv, Working
  <2> HIDE DEF n
  <2>3. /\ plain'[n] = None /\ \A m \in Streams : m # n => plain'[m] = plain[m]
        /\ sweep'[s] = where
        /\ \A r \in Sweepers : r # s => sweep'[r] = sweep[r] /\ at'[r] = at[r] /\ got'[r] = got[r]
    BY <2>1, <2>2 DEF Inv, Data, Control
  <2>4. Data' BY <2>1, <2>2 DEF archives, Inv, Data, Plains
  <2>5. Control' BY <2>1 DEF loopv, archives, Inv, Control
  <2>6. \A m \in Streams : Counts(m)' => Counts(m) BY <2>1, CountsStays
  <2>7. Working' BY <2>3 DEF Inv, StreamsInv, Working
  <2>8. Opened' BY <2>1, <2>3 DEF Inv, StreamsInv, Opened
  <2>9. \A m \in Streams : Compressing(m)' \subseteq Compressing(m) BY <2>3 DEF Compressing
  <2>10. Single' BY <2>1, <2>9 DEF Inv, StreamsInv, Single
  <2>11. Compressed'
    <3> SUFFICES ASSUME NEW m \in Streams, excused[m] = {}, Counts(m), NEW r \in Sweepers, at'[r] = m
                 PROVE  HasAll(m, r)'
      BY <2>1, <2>6 DEF Compressed
    <3>1. CASE r = s BY <2>3, <3>1 DEF HasAll
    <3>2. CASE r # s
      <4>1. at[r] = m /\ HasAll(m, r) BY <2>3, <3>2 DEF Inv, StreamsInv, Compressed
      <4>2. CASE m # n BY <2>1, <2>3, <3>2, <4>1, <4>2 DEF HasAll
      <4>3. CASE m = n
        <5>1. sweep[r] \notin {"copy", "replace", "unlink"} BY <2>1, <3>2, <4>1, <4>3, Sole DEF n
        <5> QED BY <2>3, <3>2, <5>1 DEF HasAll
      <4> QED BY <4>2, <4>3
    <3> QED BY <3>1, <3>2
  <2>12. RecordKept'
    <3> SUFFICES ASSUME NEW m \in Streams, excused[m] = {} PROVE Kept(m)' BY <2>1 DEF RecordKept
    <3>1. Kept(m) BY DEF Inv, StreamsInv, RecordKept
    <3>2. CASE m # n BY <2>1, <2>3, <3>1, <3>2 DEF Kept, Reads
    <3>3. CASE m = n /\ ~Safe(n)
      <4>1. plain[n] = due[n] /\ gz[n] # None /\ gz[n] = Gz(due[n], {})
        BY <2>1, <2>2, <3>3 DEF Inv, StreamsInv, Compressed, HasAll, Counts, n
      <4>2. gz[n].by = {} /\ gz[n].body = due[n] BY <4>1 DEF Gz
      <4> QED BY <2>1, <2>3, <3>3, <4>1, <4>2 DEF Kept, Reads
    <3>4. CASE m = n /\ Safe(n) BY <2>1, <3>4 DEF Kept, Safe
    <3> QED BY <3>2, <3>3, <3>4
  <2>13. ArchiveInv' BY <2>1, ArchiveStill DEF archives
  <2>14. HereInv'
    <3>1. Bare' BY <2>1, <2>3 DEF Inv, HereInv, Bare
    <3>2. Here'
      <4> SUFFICES ASSUME NEW m \in Streams, excused[m] = {}, Intact(m)
                   PROVE  Reads(m, [plain |-> plain'[m], gz |-> gz[m]]) = due[m] \/ Taken(m)'
        BY <2>1 DEF Here, Reads, Intact
      <4>1. CASE m = n
        <5>1. gz[n] # None /\ gz[n] = Gz(due[n], {})
          BY <2>1, <2>2, <4>1 DEF Inv, StreamsInv, Compressed, HasAll, Counts, n
        <5>2. gz[n].by = {} /\ gz[n].body = due[n] BY <5>1 DEF Gz
        <5> QED BY <2>3, <4>1, <5>1, <5>2 DEF Reads
      <4>2. CASE m # n BY <2>1, <2>3, <4>2 DEF archives, Inv, HereInv, Here, Taken, Reads
      <4> QED BY <4>1, <4>2
    <3> QED BY <3>1, <3>2 DEF HereInv
  <2> QED BY <2>4, <2>5, <2>7, <2>8, <2>10, <2>11, <2>12, <2>13, <2>14 DEF Inv, StreamsInv
<1> QED BY <1>1, <1>2

LEMMA SweepKilledInv ==
    ASSUME Inv, NEW s \in Sweepers, SweepKilled(s)
    PROVE  Inv'
<1> DEFINE stays(file) == IF file = None \/ file.by # {s} THEN file ELSE Gz(Half, {})
<1>1. /\ crashes < MaxCrashes /\ crashes' = crashes + 1
      /\ sweep' = [sweep EXCEPT ![s] = "dead"] /\ todo' = [todo EXCEPT ![s] = {}]
      /\ part' = [m \in Streams |-> stays(part[m])] /\ gz' = [m \in Streams |-> stays(gz[m])]
      /\ at' = [at EXCEPT ![s] = None] /\ got' = [got EXCEPT ![s] = None]
      /\ UNCHANGED <<plain, dir, tree, target, loopv, archives, missed, due, history>>
  BY DEF SweepKilled, Killed
<1>2. \A file \in GzFile : stays(file) \in GzFile /\ (stays(file) = None <=> file = None)
  BY GzFields
<1>3. \A file \in GzFile : file # None =>
        /\ stays(file).by \subseteq file.by
        /\ stays(file) # file => file.by = {s}
  BY GzFields
<1>4. \A m \in Streams : part'[m] = stays(part[m]) /\ gz'[m] = stays(gz[m])
                         /\ part[m] \in GzFile /\ gz[m] \in GzFile
  BY <1>1 DEF Inv, Data
<1> HIDE DEF stays
<1>5. sweep'[s] = "dead" /\ \A r \in Sweepers : r # s =>
        sweep'[r] = sweep[r] /\ at'[r] = at[r] /\ got'[r] = got[r]
  BY <1>1 DEF Inv, Data, Control
<1>6. Data' BY <1>1, <1>2 DEF archives, Inv, Data, Plains
<1>7. Control' BY <1>1, Kinds DEF loopv, archives, Inv, Control
<1>8. \A m \in Streams : Counts(m)' => Counts(m) BY <1>1, CountsStays
<1>9. Working' BY <1>5 DEF Inv, StreamsInv, Working
<1>10. Opened'
  <2> SUFFICES ASSUME NEW m \in Streams, NEW r \in Sweepers, r # s,
                      (part'[m] # None /\ r \in part'[m].by) \/ (gz'[m] # None /\ r \in gz'[m].by)
               PROVE  sweep'[r] = "dead" \/ (sweep'[r] = "copy" /\ at'[r] = m)
    BY <1>5 DEF Opened
  <2>1. (part[m] # None /\ r \in part[m].by) \/ (gz[m] # None /\ r \in gz[m].by)
    BY <1>2, <1>3, <1>4
  <2> QED BY <1>5, <2>1 DEF Inv, StreamsInv, Opened
<1>11. \A m \in Streams : Compressing(m)' \subseteq Compressing(m) BY <1>5 DEF Compressing
<1>12. Single' BY <1>1, <1>11 DEF Inv, StreamsInv, Single
<1>13. Compressed'
  <2> SUFFICES ASSUME NEW m \in Streams, excused[m] = {}, Counts(m), NEW r \in Sweepers, at'[r] = m
               PROVE  HasAll(m, r)'
    BY <1>1, <1>8 DEF Compressed
  <2>1. CASE r = s BY <1>5, <2>1 DEF HasAll
  <2>2. CASE r # s
    <3>1. HasAll(m, r) BY <1>5, <2>2 DEF Inv, StreamsInv, Compressed
    <3>2. \A data \in Bytes \cup {Half} : Gz(data, {}).by = {} /\ Gz(data, {r}).by = {r}
      BY GzFields
    <3>3. due[m] \in Bytes BY DEF Safe, Counts, Intact, Inv, Data, Plains
    <3>4. \A file \in GzFile : file # None /\ file.by \in {{}, {r}} => stays(file) = file
      BY <1>3, <2>2
    <3>5. part[m] # None /\ part[m] = Gz(Half, {r}) => part'[m] = part[m]
      BY <1>4, <3>2, <3>4
    <3>6. part[m] # None /\ part[m] = Gz(due[m], {}) => part'[m] = part[m]
      BY <1>4, <3>2, <3>3, <3>4
    <3>7. gz[m] # None /\ gz[m] = Gz(due[m], {}) => gz'[m] = gz[m]
      BY <1>4, <3>2, <3>3, <3>4
    <3> QED BY <1>1, <1>5, <2>2, <3>1, <3>5, <3>6, <3>7 DEF HasAll
  <2> QED BY <2>1, <2>2
<1>14. RecordKept'
  <2> SUFFICES ASSUME NEW m \in Streams, excused[m] = {} PROVE Kept(m)' BY <1>1 DEF RecordKept
  <2>1. Kept(m) BY DEF Inv, StreamsInv, RecordKept
  <2>2. gz[m] # None /\ gz[m].by = {} => gz'[m] = gz[m] BY <1>3, <1>4
  <2> QED BY <1>1, <2>1, <2>2 DEF Kept, Reads
<1>15. ArchiveInv' BY <1>1, ArchiveStill DEF archives
<1>16. crashes' # 0 BY <1>1, Kinds DEF Inv, Control
<1>17. HereInv' BY <1>1, <1>16 DEF Inv, HereInv, Bare, Here, Intact
<1> QED BY <1>6, <1>7, <1>9, <1>10, <1>12, <1>13, <1>14, <1>15, <1>17 DEF Inv, StreamsInv


-----------------------------------------------------------------------------
(* Archives. *)

\* What an archive that removes or is published makes of the streams: all is safe.
LEMMA SafeInv ==
    ASSUME Inv, UNCHANGED <<excused, sweep, at, got>>,
           \A n \in Streams : excused[n] = {} => Safe(n)',
           \A n \in Streams : excused[n] = {} /\ Intact(n)' =>
               \A s \in Sweepers : at[s] = n => HasAll(n, s)',
           \A n \in Streams :
               /\ part'[n] # None => part'[n].by = {} \/ part'[n] = part[n]
               /\ gz'[n] # None => gz'[n].by = {} \/ gz'[n] = gz[n]
    PROVE  StreamsInv'
<1>1. Working' BY DEF Inv, StreamsInv, Working
<1>2. Opened' BY DEF Inv, StreamsInv, Opened
<1>3. Single' BY DEF Inv, StreamsInv, Single, Compressing
<1>4. Compressed' BY DEF Compressed, Counts
<1>5. RecordKept' BY DEF RecordKept, Kept, Safe
<1> QED BY <1>1, <1>2, <1>3, <1>4, <1>5 DEF StreamsInv

\* An archive that moves, and gives no promise before it is answered
LEMMA ThreadMoves ==
    ASSUME Inv, NEW t \in Threads, NEW where \in {"ready", "copy", "verify", "restore"},
           arch' = [arch EXCEPT ![t] = where],
           left' \in [Threads -> SUBSET Streams], staging' \in [Threads -> Copies],
           \A r \in Threads : r # t => staging'[r] = staging[r] /\ left'[r] = left[r],
           tree' \in {tree, FALSE}, raised' = raised \/ raised',
           raised' \in BOOLEAN, arch[t] = "remove" => raised',
           arch[t] \in {"git", "restore"} =>
               raised' \/ ~tree' \/ where = "restore" \/ dir \/ target = None,
           UNCHANGED <<files, dir, target, loopv, sweeps, missed, crashes, due, excused, torn>>
    PROVE  Inv'
<1> USE DEF sweeps
<1>1. arch'[t] = where /\ \A r \in Threads : r # t => arch'[r] = arch[r]
  BY DEF Inv, Control
<1>2. Data' BY DEF files, Inv, Data
<1>3. Control' BY DEF loopv, Inv, Control
<1>4. StreamsInv' BY StreamsStill
<1>5. \A n \in Streams : Safe(n)' <=> Safe(n) BY SafeStays
<1>6. Archived'
  <2> SUFFICES ASSUME NEW n \in Streams, excused[n] = {}, ~Safe(n), NEW r \in Threads
               PROVE  /\ arch'[r] = "publish" => Reads(n, staging'[r][n]) = due[n]
                      /\ arch'[r] # "remove"
    BY <1>5 DEF Archived, Reads
  <2> QED BY <1>1 DEF Inv, ArchiveInv, Archived
<1>7. Gone' BY <1>5 DEF Inv, ArchiveInv, Gone
<1>8. Removed' /\ Listed' BY <1>1 DEF Inv, ArchiveInv, Removed, Listed, Deleted
<1>9. Pending'
  <2> SUFFICES ASSUME crashes = 0, ~raised', ~dir, tree', ~Deleted
               PROVE  \E r \in Threads : arch'[r] \in {"git", "restore"}
    BY DEF Pending, Deleted
  <2>1. tree /\ target # None BY DEF Inv, ArchiveInv, Removed, Control
  <2>2. PICK r \in Threads : arch[r] \in {"git", "restore"}
    BY <2>1 DEF Inv, ArchiveInv, Pending
  <2>3. CASE r # t BY <1>1, <2>2, <2>3
  <2>4. CASE r = t BY <1>1, <2>1, <2>2, <2>4
  <2> QED BY <2>3, <2>4
<1>10. HereInv' BY <1>1, HereStill DEF files
<1> QED BY <1>2, <1>3, <1>4, <1>6, <1>7, <1>8, <1>9, <1>10 DEF Inv, ArchiveInv

LEMMA NothingCopied == [n \in Streams |-> Nothing] \in Copies
BY DEF Copies, Nothing, Plains, Gzs

LEMMA AnsweredTypes ==
    ASSUME Inv, NEW t \in Threads, Answered(t)
    PROVE  /\ left' \in [Threads -> SUBSET Streams] /\ staging' \in [Threads -> Copies]
           /\ \A r \in Threads : r # t => staging'[r] = staging[r] /\ left'[r] = left[r]
BY NothingCopied DEF Answered, Inv, Control, Data

\* A request that fails is answered, and nothing else happens.
LEMMA AnsweredInv ==
    ASSUME Inv, NEW t \in Threads, Answered(t),
           raised' = raised \/ raised', raised' \in BOOLEAN,
           arch[t] \in {"git", "restore"} => raised' \/ dir \/ target = None,
           arch[t] = "remove" => raised',
           UNCHANGED <<files, dir, tree, target, loopv, sweeps, missed, crashes, due, excused, torn>>
    PROVE  Inv'
<1>1. arch' = [arch EXCEPT ![t] = "ready"] BY DEF Answered
<1> QED BY <1>1, AnsweredTypes, ThreadMoves

LEMMA LookInv ==
    ASSUME Inv, NEW t \in Threads, Look(t)
    PROVE  Inv'
<1>1. /\ arch' = [arch EXCEPT ![t] = "copy"] /\ left' = [left EXCEPT ![t] = Streams]
      /\ arch[t] = "ready"
      /\ UNCHANGED <<staging, files, dir, tree, target, loopv, sweeps, missed, crashes, due, history>>
      /\ raised \in BOOLEAN
  BY DEF Look, Inv, Control
<1>2. left' \in [Threads -> SUBSET Streams] /\ \A r \in Threads : r # t => left'[r] = left[r]
  BY <1>1 DEF Inv, Control
<1>3. staging' \in [Threads -> Copies] BY <1>1 DEF Inv, Data
<1> QED BY <1>1, <1>2, <1>3, ThreadMoves

LEMMA CopyInv ==
    ASSUME Inv, NEW t \in Threads, Copy(t)
    PROVE  Inv'
<1>1. /\ arch[t] = "copy"
      /\ UNCHANGED <<files, dir, tree, target, loopv, sweeps, missed, crashes, due, history>>
      /\ raised \in BOOLEAN
  BY DEF Copy, Inv, Control
<1>2. CASE Answered(t) BY <1>1, <1>2, AnsweredInv
<1>3. CASE ~Answered(t)
  <2>1. PICK n \in left[t] :
          /\ staging' = [staging EXCEPT ![t][n] = Snap(n)]
          /\ left' = [left EXCEPT ![t] = @ \ {n}]
          /\ arch' = [arch EXCEPT ![t] = IF left[t] = {n} THEN "verify" ELSE @]
    BY <1>3 DEF Copy
  <2>2. n \in Streams BY <2>1 DEF Inv, Control
  <2>3. PICK where \in {"copy", "verify"} : arch' = [arch EXCEPT ![t] = where]
    BY <1>1, <2>1
  <2>4. left' \in [Threads -> SUBSET Streams] BY <2>1 DEF Inv, Control
  <2>5. Snap(n) \in [plain : Plains, gz : Gzs({{}}), part : Gzs({{}})]
    BY <2>2, SnapType DEF Inv
  <2>6. /\ staging' \in [Threads -> Copies]
        /\ \A r \in Threads : r # t => staging'[r] = staging[r] /\ left'[r] = left[r]
    BY <2>1, <2>2, <2>5 DEF Inv, Data, Control, Copies
  <2> QED BY <1>1, <2>3, <2>4, <2>6, ThreadMoves
<1> QED BY <1>2, <1>3

\* A copy that is compared has all that can be read.
LEMMA VerifyInv ==
    ASSUME Inv, NEW t \in Threads, Verify(t)
    PROVE  Inv'
<1>1. /\ arch[t] = "verify"
      /\ UNCHANGED <<files, dir, tree, target, loopv, sweeps, missed, crashes, due, history>>
      /\ raised \in BOOLEAN
  BY DEF Verify, Inv, Control
<1>2. CASE Answered(t) BY <1>1, <1>2, AnsweredInv
<1>3. CASE ~Answered(t)
  <2>1. /\ \A n \in Streams : staging[t][n] = Snap(n)
        /\ arch' = [arch EXCEPT ![t] = "publish"] /\ UNCHANGED <<left, staging>>
    BY <1>3 DEF Verify
  <2>2. arch'[t] = "publish" /\ \A r \in Threads : r # t => arch'[r] = arch[r]
    BY <2>1 DEF Inv, Control
  <2>3. Data' BY <1>1, <2>1 DEF files, sweeps, Inv, Data
  <2>4. Control' BY <1>1, <2>1 DEF loopv, sweeps, Inv, Control
  <2>5. StreamsInv' BY <1>1, StreamsStill DEF sweeps
  <2>6. \A n \in Streams : Safe(n)' <=> Safe(n) BY <1>1, SafeStays
  <2>7. Archived'
    <3> SUFFICES ASSUME NEW n \in Streams, excused[n] = {}, ~Safe(n), NEW r \in Threads
                 PROVE  /\ arch'[r] = "publish" => Reads(n, staging[r][n]) = due[n]
                        /\ arch'[r] # "remove"
      BY <1>1, <2>1, <2>6 DEF Archived, Reads
    <3>1. CASE r # t BY <2>2, <3>1 DEF Inv, ArchiveInv, Archived
    <3>2. CASE r = t
      <4>1. Kept(n) BY DEF Inv, StreamsInv, RecordKept
      <4>2. Reads(n, [plain |-> plain[n], gz |-> gz[n]]) = due[n] /\ due[n] # None
        BY <4>1 DEF Kept, Safe
      <4>3. Reads(n, Snap(n)) = due[n] BY <4>2, SnapReads DEF Inv
      <4> QED BY <2>1, <2>2, <3>2, <4>3
    <3> QED BY <3>1, <3>2
  <2>8. Gone' BY <1>1, <2>6 DEF Inv, ArchiveInv, Gone
  <2>9. Removed' /\ Listed' BY <1>1, <2>2 DEF Inv, ArchiveInv, Removed, Listed, Deleted
  <2>10. Pending' BY <1>1, <2>2 DEF Inv, ArchiveInv, Pending, Deleted
  <2>11. HereInv' BY <1>1, <2>1, <2>2, HereStill DEF files
  <2> QED BY <2>3, <2>4, <2>5, <2>7, <2>8, <2>9, <2>10, <2>11 DEF Inv, ArchiveInv
<1> QED BY <1>2, <1>3

LEMMA PublishInv ==
    ASSUME Inv, NEW t \in Threads, Publish(t)
    PROVE  Inv'
<1>1. /\ arch[t] = "publish"
      /\ UNCHANGED <<files, dir, tree, loopv, sweeps, missed, crashes, due, history>>
      /\ raised \in BOOLEAN
  BY DEF Publish, Inv, Control
<1>2. CASE target # None
  <2>1. Answered(t) /\ UNCHANGED target BY <1>2 DEF Publish
  <2> QED BY <1>1, <2>1, AnsweredInv
<1>3. CASE target = None
  <2>1. /\ target' = staging[t] /\ arch' = [arch EXCEPT ![t] = "remove"]
        /\ left' = [left EXCEPT ![t] = Streams] /\ UNCHANGED staging
    BY <1>3 DEF Publish
  <2>2. arch'[t] = "remove" /\ \A r \in Threads : r # t => arch'[r] = arch[r]
    BY <2>1 DEF Inv, Control
  <2>3. target' \in Copies /\ target' # None BY <2>1, BoundAssumption DEF Inv, Data
  <2>4. Data' BY <1>1, <2>1, <2>3 DEF files, sweeps, Inv, Data
  <2>5. Control' BY <1>1, <2>1 DEF loopv, sweeps, Inv, Control
  <2>6. \A n \in Streams : excused[n] = {} => Safe(n)'
    <3> SUFFICES ASSUME NEW n \in Streams, excused[n] = {}, due[n] # None
                 PROVE  Reads(n, target'[n]) = due[n]
      BY <1>1, <2>3 DEF Safe, Reads
    <3>1. Reads(n, staging[t][n]) = due[n]
      BY <1>1, <1>3 DEF Inv, ArchiveInv, Archived, Safe
    <3> QED BY <2>1, <3>1
  <2>11. \A n \in Streams, s \in Sweepers :
            excused[n] = {} /\ Intact(n)' /\ at[s] = n => HasAll(n, s)'
    BY <1>1 DEF files, sweeps, Inv, StreamsInv, Compressed, Counts, Intact, HasAll
  <2>7. StreamsInv' BY <1>1, <2>6, <2>11, SafeInv DEF files, sweeps
  <2>8. Archived' /\ Gone' BY <1>1, <2>6 DEF Archived, Gone
  <2>9. Removed' /\ Listed' BY <2>3 DEF Removed, Listed
  <2>10. Pending' BY <1>1, <2>2 DEF Inv, ArchiveInv, Pending, Deleted
  <2>12. HereInv'
    <3>1. Bare' BY <1>1 DEF files, Inv, HereInv, Bare
    <3>2. Here'
      <4> SUFFICES ASSUME NEW n \in Streams, excused[n] = {}, Intact(n)
                   PROVE  Reads(n, [plain |-> plain[n], gz |-> gz[n]]) = due[n] \/ Taken(n)'
        BY <1>1 DEF files, Here, Reads, Intact
      <4>1. Taken(n) => Taken(n)' BY <1>1, <2>1, <2>2 DEF files, Taken, Inv, Control
      <4> QED BY <4>1 DEF Inv, HereInv, Here
    <3> QED BY <3>1, <3>2 DEF HereInv
  <2> QED BY <2>4, <2>5, <2>7, <2>8, <2>9, <2>10, <2>12 DEF Inv, ArchiveInv
<1> QED BY <1>2, <1>3

\* What is removed is in the archive.
LEMMA RemoveInv ==
    ASSUME Inv, NEW t \in Threads, Remove(t)
    PROVE  Inv'
<1>1. /\ arch[t] = "remove"
      /\ UNCHANGED <<tree, target, loopv, sweeps, missed, crashes, due, excused>>
  BY DEF Remove
<1>2. \A n \in Streams : Safe(n)' <=> Safe(n) BY <1>1, SafeStays
<1>3. \A n \in Streams : excused[n] = {} => Safe(n)
  BY <1>1 DEF Inv, ArchiveInv, Archived
<1>4. CASE Raises(t) /\ UNCHANGED <<files, dir, torn>>
  <2>1. Answered(t) /\ raised' = TRUE BY <1>4 DEF Raises
  <2> QED BY <1>1, <1>4, <2>1, AnsweredInv
<1>5. ASSUME dir, NEW n \in left[t],
             plain' = [plain EXCEPT ![n] = None], gz' = [gz EXCEPT ![n] = None],
             part' = [part EXCEPT ![n] = None], left' = [left EXCEPT ![t] = @ \ {n}],
             torn' = IF Compressing(n) = {} THEN torn ELSE torn \cup {n},
             UNCHANGED <<dir, arch, staging, raised>>
      PROVE  Inv'
  <2>1. n \in Streams BY DEF Inv, Control
  <2>2. /\ plain'[n] = None /\ part'[n] = None /\ gz'[n] = None
        /\ \A m \in Streams : m # n =>
             plain'[m] = plain[m] /\ part'[m] = part[m] /\ gz'[m] = gz[m]
    BY <1>5, <2>1 DEF Inv, Data
  <2>3. Data' BY <1>1, <1>5, <2>1, GzFields DEF sweeps, Inv, Data, Plains
  <2>4. torn' \in SUBSET Streams BY <1>5, <2>1 DEF Inv, Control
  <2>5. Control' BY <1>1, <1>5, <2>4 DEF loopv, sweeps, Inv, Control
  <2>6. \A m \in Streams : Intact(m)' =>
          Intact(m) /\ (m = n => Compressing(n) = {})
    BY <1>1, <1>5 DEF Intact
  <2>7. \A m \in Streams, s \in Sweepers :
          excused[m] = {} /\ Intact(m)' /\ at[s] = m => HasAll(m, s)'
    <3> SUFFICES ASSUME NEW m \in Streams, NEW s \in Sweepers,
                        excused[m] = {}, Intact(m)', at[s] = m
                 PROVE  HasAll(m, s)'
      OBVIOUS
    <3>1. CASE m = n
      <4>1. sweep[s] \notin {"copy", "replace", "unlink"} BY <2>6, <3>1 DEF Compressing
      <4> QED BY <1>1, <4>1 DEF sweeps, HasAll
    <3>2. CASE m # n
      <4>1. HasAll(m, s) BY <2>6 DEF Inv, StreamsInv, Compressed, Counts
      <4> QED BY <1>1, <2>2, <3>2, <4>1 DEF sweeps, HasAll
    <3> QED BY <3>1, <3>2
  <2>8. StreamsInv' BY <1>1, <1>2, <1>3, <2>2, <2>7, SafeInv DEF sweeps
  <2>9. ArchiveInv' BY <1>1, <1>5, ArchiveStill
  <2>10. Here'
    <3> SUFFICES ASSUME NEW m \in Streams, excused[m] = {}, Intact(m)'
                 PROVE  Reads(m, [plain |-> plain'[m], gz |-> gz'[m]]) = due[m] \/ Taken(m)'
      BY <1>1 DEF Here, Reads
    <3>1. n \notin left'[t] /\ \A r \in Threads : left'[r] \subseteq left[r]
      BY <1>5 DEF Inv, Control
    <3>2. CASE m = n BY <1>1, <1>5, <2>2, <3>1, <3>2 DEF Taken
    <3>3. CASE m # n
      <4>1. Reads(m, [plain |-> plain[m], gz |-> gz[m]]) = due[m] \/ Taken(m)
        BY <2>6 DEF Inv, HereInv, Here
      <4>2. Taken(m) => Taken(m)' BY <1>5, <2>2, <3>1, <3>3 DEF Taken
      <4> QED BY <2>2, <3>3, <4>1, <4>2 DEF Reads
    <3> QED BY <3>2, <3>3
  <2>11. Bare' BY <1>5 DEF Bare
  <2> QED BY <2>3, <2>5, <2>8, <2>9, <2>10, <2>11 DEF Inv, HereInv
<1>6. ASSUME dir, files = <<Empty, Empty, Empty>>,
             dir' = FALSE, arch' = [arch EXCEPT ![t] = "git"],
             UNCHANGED <<files, left, staging, raised, torn>>
      PROVE  Inv'
  <2>1. arch'[t] = "git" BY <1>6 DEF Inv, Control
  <2>2. Data' BY <1>1, <1>6 DEF files, sweeps, Inv, Data
  <2>3. Control' BY <1>1, <1>6 DEF loopv, sweeps, Inv, Control
  <2>4. StreamsInv' BY <1>1, <1>6, StreamsStill DEF sweeps
  <2>5. Archived' /\ Gone' BY <1>1, <1>2, <1>3 DEF Archived, Gone
  <2>6. target # None \/ Deleted BY <1>1, <1>6 DEF Inv, ArchiveInv, Removed
  <2>7. Removed' /\ Listed' BY <1>1, <1>6, <2>6 DEF Removed, Listed, Deleted
  <2>8. Pending' BY <2>1 DEF Pending
  <2>9. \A n \in Streams : plain'[n] = None BY <1>6 DEF files, Empty
  <2>10. HereInv' BY <1>6, <2>9 DEF HereInv, Bare, Here, Taken
  <2> QED BY <2>2, <2>3, <2>4, <2>5, <2>7, <2>8, <2>10 DEF Inv, ArchiveInv
<1> QED BY <1>4, <1>5, <1>6 DEF Remove

LEMMA GitInv ==
    ASSUME Inv, NEW t \in Threads, Git(t)
    PROVE  Inv'
<1>1. /\ arch[t] = "git" /\ raised \in BOOLEAN
      /\ UNCHANGED <<files, dir, target, loopv, sweeps, missed, crashes, due, excused, torn>>
  BY DEF Git, Inv, Control
<1>2. CASE tree' = FALSE /\ Answered(t) /\ UNCHANGED raised
  <2>1. arch' = [arch EXCEPT ![t] = "ready"] BY <1>2 DEF Answered
  <2> QED BY <1>1, <1>2, <2>1, AnsweredTypes, ThreadMoves
<1>3. CASE arch' = [arch EXCEPT ![t] = "restore"] /\ UNCHANGED <<tree, left, staging, raised>>
  <2>1. left' \in [Threads -> SUBSET Streams] BY <1>3 DEF Inv, Control
  <2>2. staging' \in [Threads -> Copies] BY <1>3 DEF Inv, Data
  <2> QED BY <1>1, <1>3, <2>1, <2>2, ThreadMoves
<1>4. CASE Raises(t) /\ UNCHANGED tree
  <2>1. Answered(t) /\ raised' = TRUE BY <1>4 DEF Raises
  <2> QED BY <1>1, <1>4, <2>1, AnsweredInv
<1> QED BY <1>2, <1>3, <1>4 DEF Git, RemoveWorktree

\* What a copytree of the archive makes of the run directory, if all of it is safe
\* there: either it has everything, or it raised.
LEMMA BroughtInv ==
    ASSUME Inv, NEW t \in Threads, NEW some \in SUBSET Streams, Brought(some),
           arch[t] = "restore", Answered(t), ~dir, target # None,
           (some = Streams /\ raised' = raised) \/ raised' = TRUE,
           UNCHANGED <<tree, target, loopv, sweeps, missed, crashes, due, excused, torn>>
    PROVE  Inv'
<1> DEFINE from(n) == IF n \in some THEN target[n] ELSE Nothing
<1>1. /\ dir' = TRUE /\ plain' = [n \in Streams |-> from(n).plain]
      /\ gz' = [n \in Streams |-> from(n).gz] /\ part' = [n \in Streams |-> from(n).part]
  BY DEF Brought
<1>2. target \in Copies BY DEF Inv, Data
<1>3. \A n \in Streams : from(n).plain \in Plains /\ from(n).gz \in Gzs({{}})
                         /\ from(n).part \in Gzs({{}})
  BY <1>2 DEF Copies, Nothing, Plains, Gzs
<1>4. \A n \in Streams : n \in some => from(n) = target[n] OBVIOUS
<1> HIDE DEF from
<1>5. \A file \in Gzs({{}}) : file \in GzFile /\ (file # None => file.by = {})
  BY DEF Gzs, GzFile
<1>6. Data' BY <1>1, <1>3, <1>5, AnsweredTypes DEF sweeps, Inv, Data
<1>7. arch' \in [Threads -> {"ready", "copy", "verify", "publish", "remove", "git", "restore"}]
  BY DEF Answered, Inv, Control
<1>8. Control' BY <1>1, <1>7, AnsweredTypes DEF loopv, sweeps, Inv, Control
<1>9. \A n \in Streams : excused[n] = {} => Safe(n) /\ Safe(n)'
  BY SafeStays DEF Inv, ArchiveInv, Gone
<1>10. \A n \in Streams : Intact(n)' => Intact(n) /\ some = Streams BY DEF Intact
<1>11. \A n \in Streams, s \in Sweepers :
         excused[n] = {} /\ Intact(n)' /\ at[s] = n => HasAll(n, s)'
  <2> SUFFICES ASSUME NEW n \in Streams, NEW s \in Sweepers,
                      excused[n] = {}, Intact(n), at[s] = n
               PROVE  HasAll(n, s)'
    BY <1>10
  <2>1. HasAll(n, s) BY DEF Inv, StreamsInv, Compressed, Counts
  <2>2. plain[n] # due[n] BY DEF Inv, HereInv, Bare, Intact
  <2>3. sweep[s] \notin {"copy", "replace", "unlink"} BY <2>1, <2>2 DEF HasAll
  <2> QED BY <2>3 DEF sweeps, HasAll
<1>12. StreamsInv' BY <1>1, <1>3, <1>5, <1>9, <1>11, SafeInv DEF sweeps
<1>13. Archived' /\ Gone' BY <1>9 DEF Archived, Gone
<1>14. Removed' /\ Listed' /\ Pending' BY <1>1 DEF Removed, Listed, Pending
<1>15. Here'
  <2> SUFFICES ASSUME NEW n \in Streams, excused[n] = {}, Intact(n)'
               PROVE  Reads(n, [plain |-> plain'[n], gz |-> gz'[n]]) = due[n]
    BY DEF Here, Reads
  <2>1. Reads(n, target[n]) = due[n] BY <1>9, <1>10 DEF Safe, Intact
  <2>2. plain'[n] = target[n].plain /\ gz'[n] = target[n].gz BY <1>1, <1>4, <1>10
  <2> QED BY <2>1, <2>2 DEF Reads
<1>16. HereInv' BY <1>1, <1>15 DEF HereInv, Bare
<1> QED BY <1>6, <1>8, <1>12, <1>13, <1>14, <1>16 DEF Inv, ArchiveInv

\* What is brought back was published before it was removed.
LEMMA RestoreInv ==
    ASSUME Inv, NEW t \in Threads, Restore(t)
    PROVE  Inv'
<1>1. /\ arch[t] = "restore" /\ raised \in BOOLEAN
      /\ UNCHANGED <<tree, target, loopv, sweeps, missed, crashes, due, excused, torn>>
  BY DEF Restore, Inv, Control
<1>2. CASE dir /\ Answered(t) /\ UNCHANGED <<files, dir, raised>>
  BY <1>1, <1>2, AnsweredInv
<1>3. CASE ~dir /\ target # None /\ Answered(t) /\ Brought(Streams) /\ UNCHANGED raised
  BY <1>1, <1>3, BroughtInv
<1>4. CASE ~dir /\ target # None /\ Raises(t) /\ \E some \in SUBSET Streams : Brought(some)
  BY <1>1, <1>4, BroughtInv DEF Raises
<1>5. CASE Raises(t) /\ UNCHANGED <<files, dir>>
  <2>1. Answered(t) /\ raised' = TRUE BY <1>5 DEF Raises
  <2> QED BY <1>1, <1>5, <2>1, AnsweredInv
<1> QED BY <1>2, <1>3, <1>4, <1>5 DEF Restore

\* A record that is deleted is not due any more.
LEMMA DeleteInv ==
    ASSUME Inv, Delete
    PROVE  Inv'
<1>1. /\ ~dir /\ due' = [n \in Streams |-> None]
      /\ UNCHANGED <<files, dir, tree, loopv, sweeps, archives, missed, crashes, history>>
  BY DEF Delete, Found
<1>0. target' = None \/ target' \in Copies
  <2>1. Nothing \in [plain : Plains, gz : Gzs({{}}), part : Gzs({{}})]
    BY DEF Nothing, Plains, Gzs
  <2>2. target # None /\ target \in Copies BY DEF Delete, Found, Inv, Data
  <2>3. CASE target' = None BY <2>3
  <2>4. ASSUME NEW some \in SUBSET Streams,
               target' = [n \in Streams |-> IF n \in some THEN target[n] ELSE Nothing]
        PROVE  target' \in Copies
    BY <2>1, <2>2, <2>4 DEF Copies
  <2> QED BY <2>3, <2>4 DEF Delete
<1>2. Deleted' BY <1>1 DEF Deleted
<1>3. Data' BY <1>0, <1>1 DEF files, sweeps, archives, Inv, Data, Plains
<1>4. Control' BY <1>1 DEF loopv, sweeps, archives, Inv, Control
<1>5. \A n \in Streams : Safe(n)' BY <1>2 DEF Deleted, Safe
<1>9. \A n \in Streams : ~Intact(n)' BY <1>2 DEF Deleted, Intact
<1>6. StreamsInv' BY <1>1, <1>5, <1>9, SafeInv DEF files, sweeps
<1>7. Archived' /\ Gone' BY <1>5 DEF Archived, Gone
<1>8. Removed' /\ Listed' /\ Pending' BY <1>1, <1>2 DEF Removed, Listed, Pending
<1>10. HereInv' BY <1>1, <1>9 DEF files, Inv, HereInv, Bare, Here
<1> QED BY <1>3, <1>4, <1>6, <1>7, <1>8, <1>10 DEF Inv, ArchiveInv

LEMMA DashboardKilledInv ==
    ASSUME Inv, DashboardKilled
    PROVE  Inv'
<1>1. /\ crashes < MaxCrashes /\ crashes' = crashes + 1
      /\ arch' = [t \in Threads |-> "ready"] /\ left' = [t \in Threads |-> {}]
      /\ staging' = [t \in Threads |-> [n \in Streams |-> Nothing]]
      /\ UNCHANGED <<files, dir, tree, target, loopv, sweeps, missed, due, history>>
  BY DEF DashboardKilled, Killed
<1>2. crashes' \in 0..MaxCrashes /\ crashes' # 0 BY <1>1, Kinds DEF Inv, Control
<1>3. Data' BY <1>1, NothingCopied DEF files, sweeps, Inv, Data
<1>4. Control' BY <1>1, <1>2 DEF loopv, sweeps, Inv, Control
<1>5. StreamsInv' BY <1>1, StreamsStill DEF sweeps
<1>6. \A n \in Streams : Safe(n)' <=> Safe(n) BY <1>1, SafeStays
<1>7. Archived' BY <1>1 DEF Archived
<1>8. Gone' BY <1>1, <1>6 DEF Inv, ArchiveInv, Gone
<1>9. Removed' /\ Listed' BY <1>1 DEF Inv, ArchiveInv, Removed, Listed, Deleted
<1>10. Pending' BY <1>2 DEF Pending
<1>11. HereInv' BY <1>1, <1>2 DEF files, Inv, HereInv, Bare, Here, Intact
<1> QED BY <1>3, <1>4, <1>5, <1>7, <1>8, <1>9, <1>10, <1>11 DEF Inv, ArchiveInv

-----------------------------------------------------------------------------
(* Listings. *)

\* One that goes on has not found the directory, one that ends has found neither.
LEMMA ListStep ==
    ASSUME Inv, List
    PROVE  /\ missed' \in 0..2
           /\ missed' = 1 => ~dir
           /\ missed' = 2 => missed = 1 /\ target = None
<1>1. /\ Len(Places) = 2 /\ Places[1] = "runs" /\ Places[2] = "archive"
      /\ ListedIn("runs") = dir /\ ListedIn("archive") = (target # None)
  BY DEF Places, ListedIn
<1>2. missed \in 0..2 BY DEF Inv, Control
<1> HIDE DEF Places
<1>3. CASE missed = 0 BY <1>1, <1>3 DEF List
<1>4. CASE missed = 1
  <2>1. missed' = IF ListedIn(Places[2]) THEN 0 ELSE 2 BY <1>1, <1>4 DEF List
  <2>2. missed' = IF target # None THEN 0 ELSE 2 BY <2>1 DEF Places, ListedIn
  <2> QED BY <1>4, <2>2
<1>5. CASE missed = 2 BY <1>1, <1>5 DEF List
<1> QED BY <1>2, <1>3, <1>4, <1>5

LEMMA ListInv ==
    ASSUME Inv, List
    PROVE  Inv'
<1>1. UNCHANGED <<files, dir, tree, target, loopv, sweeps, archives, crashes, due, history>>
  BY DEF List
<1>2. Data' BY <1>1 DEF files, sweeps, archives, Inv, Data
<1>3. Control' BY <1>1, ListStep DEF loopv, sweeps, archives, Inv, Control
<1>4. StreamsInv' BY <1>1, StreamsStill DEF sweeps
<1>5. \A n \in Streams : Safe(n)' <=> Safe(n) BY <1>1, SafeStays
<1>6. Archived' BY <1>1, <1>5 DEF archives, Inv, ArchiveInv, Archived, Reads
<1>7. Gone' BY <1>1, <1>5 DEF Inv, ArchiveInv, Gone
<1>8. Removed' BY <1>1 DEF archives, Inv, ArchiveInv, Removed, Deleted
<1>9. Listed' BY <1>1, ListStep DEF Inv, ArchiveInv, Removed, Listed, Deleted
<1>10. Pending' BY <1>1 DEF archives, Inv, ArchiveInv, Pending, Deleted
<1>11. HereInv' BY <1>1, HereStill DEF files, archives
<1> QED BY <1>2, <1>3, <1>4, <1>6, <1>7, <1>8, <1>9, <1>10, <1>11 DEF Inv, ArchiveInv

-----------------------------------------------------------------------------
(* The theorems. *)

LEMMA InitInv == Init => Inv
<1> SUFFICES ASSUME Init PROVE Inv OBVIOUS
<1> USE DEF Init
<1>1. Data
  <2>1. None \in Plains BY DEF Plains
  <2>2. None \in GzFile BY GzFields
  <2> QED BY <2>1, <2>2, NothingCopied DEF Data
<1>2. Control
  <2>1. 0 \in 0..MaxLoops /\ 0 \in 0..MaxCrashes BY Kinds
  <2>2. dir \in BOOLEAN /\ tree \in BOOLEAN OBVIOUS
  <2>3. missed \in 0..2 /\ loop \in {None, Idle} \cup Streams OBVIOUS
  <2>4. loops \in 0..MaxLoops /\ crashes \in 0..MaxCrashes BY <2>1
  <2>5. /\ sweep \in [Sweepers -> {"ready", "list", "next", "copy", "replace", "unlink",
                                   "done", "dead"}]
        /\ todo \in [Sweepers -> SUBSET Streams] /\ at \in [Sweepers -> {None} \cup Streams]
    OBVIOUS
  <2>6. /\ arch \in [Threads -> {"ready", "copy", "verify", "publish", "remove", "git", "restore"}]
        /\ left \in [Threads -> SUBSET Streams]
        /\ excused \in [Streams -> SUBSET {"written", "shared", "raced"}]
        /\ raised \in BOOLEAN /\ torn \in SUBSET Streams
    OBVIOUS
  <2> QED BY <2>2, <2>3, <2>4, <2>5, <2>6 DEF Control
<1>3. Working /\ Opened BY DEF Working, Opened
<1>4. Single /\ Compressed BY Kinds DEF Single, Compressed, Compressing
<1>5. RecordKept BY DEF RecordKept, Kept
<1>6. Archived /\ Gone BY DEF Archived, Gone
<1>7. Removed /\ Listed /\ Pending BY DEF Removed, Listed, Pending
<1>8. HereInv BY DEF HereInv, Bare, Here, Intact
<1> QED BY <1>1, <1>2, <1>3, <1>4, <1>5, <1>6, <1>7, <1>8 DEF Inv, StreamsInv, ArchiveInv

LEMMA NextInv == Inv /\ [Next]_vars => Inv'
<1> SUFFICES ASSUME Inv, [Next]_vars PROVE Inv' OBVIOUS
<1>1. CASE Loop BY <1>1, QuietInv, OpenInv, WriteInv DEF Loop
<1>2. CASE Delete \/ List \/ LoopKilled \/ DashboardKilled
  BY <1>2, DeleteInv, ListInv, QuietInv, DashboardKilledInv
<1>3. ASSUME NEW s \in Sweepers, Sweep(s) \/ SweepKilled(s) PROVE Inv'
  BY <1>3, BeginsInv, OpenBothInv, CopiedInv, ReplaceInv, UnlinkInv, SweepKilledInv DEF Sweep
<1>4. ASSUME NEW t \in Threads, Archive(t) PROVE Inv'
  BY <1>4, LookInv, CopyInv, VerifyInv, PublishInv, RemoveInv, GitInv, RestoreInv DEF Archive
<1>5. CASE UNCHANGED vars BY <1>5, QuietInv
<1> QED BY <1>1, <1>2, <1>3, <1>4, <1>5 DEF Next

LEMMA AlwaysInv == Spec => []Inv
BY InitInv, NextInv, PTL DEF Spec

\* Every reachable state is well typed.
THEOREM TypeCorrect == Spec => []TypeOK
<1>1. Inv => TypeOK BY TypeParts DEF Inv
<1> QED BY <1>1, AlwaysInv, PTL

\* For any number of streams, sweeps, archiving threads, loops and kills: what a
\* stream was given can be read, in the run directory or in the archive, but for
\* the races that RecordKept names (prune.compress, service.archive_run).
THEOREM RecordsAreKept == Spec => []RecordKept
<1>1. Inv => RecordKept BY DEF Inv, StreamsInv
<1> QED BY <1>1, AlwaysInv, PTL

\* However many archives and deletes overlap: when all are answered, none was killed
\* and none raised, no worktree is without its record, and what a stream was given
\* can be read from it (service.archive_run, restore_source).
THEOREM TreesHaveRecords == Spec => []TreeHasRecord
<1>1. Inv => TreeHasRecord
  <2> SUFFICES ASSUME Inv, \A t \in Threads : arch[t] = "ready", crashes = 0, ~raised, tree
               PROVE  /\ dir \/ Deleted
                      /\ \A n \in Streams : excused[n] = {} /\ n \notin torn => HereWhole(n)
    BY DEF TreeHasRecord, Deleted
  <2>1. dir \/ Deleted BY DEF Inv, ArchiveInv, Pending
  <2>2. ASSUME NEW n \in Streams, excused[n] = {}, n \notin torn, due[n] # None
        PROVE  Reads(n, [plain |-> plain[n], gz |-> gz[n]]) = due[n]
    <3>1. Intact(n) BY <2>2 DEF Intact
    <3>2. ~Taken(n) BY <2>1, <2>2 DEF Taken, Deleted
    <3> QED BY <2>2, <3>1, <3>2 DEF Inv, HereInv, Here
  <2> QED BY <2>1, <2>2 DEF HereWhole
<1> QED BY <1>1, AlwaysInv, PTL

\* A listing misses no run that is not deleted, whatever happens between its two
\* looks (web/runs.py, all_runs).
THEOREM ListingsShowRuns == Spec => ListingShowsRun
<1> DEFINE Seen == missed' = Len(Places) => missed = missed' \/ \A n \in Streams : due[n] = None
<1>1. ASSUME Inv, Next PROVE Seen
  <2> SUFFICES ASSUME missed' = 2, missed # missed' PROVE Deleted BY DEF Places, Deleted
  <2>1. ~Loop BY DEF Loop, Resume, Open, Write, CloseStream
  <2>2. ~Delete /\ ~LoopKilled /\ ~DashboardKilled
    BY DEF Delete, LoopKilled, DashboardKilled
  <2>3. \A s \in Sweepers : ~Sweep(s) /\ ~SweepKilled(s)
    BY DEF Sweep, Ends, Passes, Compressible, OpenBoth, Copied, Replace, Unlink, SweepKilled
  <2>4. \A t \in Threads : ~Archive(t)
    BY DEF Archive, Look, Copy, Verify, Publish, Remove, Git, Restore
  <2>5. List BY <1>1, <2>1, <2>2, <2>3, <2>4 DEF Next
  <2>6. missed = 1 /\ target = None BY <1>1, <2>5, ListStep
  <2> QED BY <1>1, <2>6 DEF Inv, ArchiveInv, Listed
<1>2. Inv /\ [Next]_vars => [Seen]_vars BY <1>1
<1> QED BY <1>2, AlwaysInv, PTL DEF Spec, ListingShowsRun
=============================================================================
