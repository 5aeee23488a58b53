------------------------------ MODULE UserDict ------------------------------
(***************************************************************************)
(* One user dictionary: the file of its database and the snapshot beside   *)
(* it, the UserDb that all sessions of the process share, a UserDictionary *)
(* for each session with its own copy of the tick, and UserDictManager,    *)
(* which opens the file when no session does (deployment runs before there *)
(* are sessions, and the tools wait for the lock of the file).             *)
(*                                                                         *)
(* A handler of a session is one step, since the sessions share a thread.  *)
(* What is done in several steps is what a crash may interrupt: recovery   *)
(* of a broken file, upgrading, and restoring from a snapshot.             *)
(***************************************************************************)
EXTENDS UserDb

CONSTANTS
  Dicts,        \* the sessions
  Period,       \* a backup is made every so many ticks: 50
  FirstFile,    \* what is on disk at first
  Foreign,      \* snapshots that may come from other machines
  Imports,      \* counts that an imported line may give
  MaxCount,     \* bound: how often an entry is committed
  MaxCrashes    \* bound: how often the process dies

ASSUME PeriodAssumption == Period \in Nat \ {0}
ASSUME FilesAssumption == FirstFile \in File /\ Foreign \subseteq Store
ASSUME ImportAssumption == Imports \subseteq Int
ASSUME BoundAssumption == MaxCount \in Nat /\ MaxCrashes \in Nat

Off == -1       \* the session does not exist
Loading == -2   \* it is in the constructor of its translator

VARIABLES
  file,       \* the database on disk
  snapshot,   \* the file ".snapshot"
  db,         \* the content of the open database, cache included, or Missing
  dicts,      \* tick_ of each UserDictionary
  stage,      \* what is under way, when that takes several steps
  src,        \* the snapshot that is being merged
  crashes,    \* how often the process died
  commits,    \* history: how often each entry was committed
  rejected,   \* history: the entries deleted before they were ever committed
  owed        \* history: what the snapshot held when damage was noticed,
              \* until the process dies again

vars == << file, snapshot, db, dicts, stage, src, crashes,
           commits, rejected, owed >>
disk == << file, snapshot >>
history == << commits, rejected, owed >>
task == << stage, src >>

Stages == {"idle", "recover", "remove", "merge", "tick"}

Init ==
  /\ file = FirstFile /\ snapshot = Missing /\ db = Missing
  /\ dicts = [d \in Dicts |-> Off]
  /\ stage = "idle" /\ src = Missing /\ crashes = 0
  /\ commits = [e \in Entries |-> 0] /\ rejected = {} /\ owed = {}

Loaded == db # Missing
NoSession == \A d \in Dicts : dicts[d] = Off

-----------------------------------------------------------------------------
(* UserDictionary::Load, TreeDb::Open and RecoverFromSnapshot               *)

\* After Open: a database without a tick is initialized.
Initialized(s) == IF FetchTickCount(s) = NoTick THEN [s EXCEPT !.tick = 0] ELSE s

\* A shared database that is loaded already is not opened again: Open
\* answers false, and the new UserDictionary keeps the tick 0.
LoadShared(d) ==
  /\ stage = "idle" /\ dicts[d] = Off /\ Loaded
  /\ dicts' = [dicts EXCEPT ![d] = 0]
  /\ UNCHANGED << disk, db, task, crashes, history >>

LoadFile(d) ==
  /\ stage = "idle" /\ dicts[d] = Off /\ ~ Loaded /\ file # Broken
  /\ file' = IF file = Missing THEN Fresh ELSE file
  /\ db' = Initialized(file')
  /\ dicts' = [dicts EXCEPT ![d] = FetchTickCount(db')]
  /\ UNCHANGED << snapshot, task, crashes, history >>

\* No snapshot: the dictionary is not loaded, and the session goes on without.
LoadNothing(d) ==
  /\ stage = "idle" /\ dicts[d] = Off /\ ~ Loaded
  /\ file = Broken /\ snapshot = Missing
  /\ dicts' = [dicts EXCEPT ![d] = 0]
  /\ UNCHANGED << disk, db, task, crashes, history >>

\* The broken file is moved away and a new database is opened,
LoadBroken(d) ==
  /\ stage = "idle" /\ dicts[d] = Off /\ ~ Loaded
  /\ file = Broken /\ snapshot # Missing
  /\ file' = Fresh /\ db' = Fresh
  /\ dicts' = [dicts EXCEPT ![d] = Loading]
  /\ stage' = "recover"
  /\ owed' = IF IsOk(snapshot) THEN Known(snapshot) ELSE {}
  /\ UNCHANGED << snapshot, src, crashes, commits, rejected >>

\* and the snapshot is read into it; of a broken one nothing is taken.
\* Mutant: the answer is given without reading it.
RestoredNothing(s) == Fresh

Restored(s) == IF IsOk(s) THEN s ELSE Fresh
Recover(d) ==
  /\ stage = "recover" /\ dicts[d] = Loading
  /\ db' = Initialized(Restored(snapshot))
  /\ dicts' = [dicts EXCEPT ![d] = FetchTickCount(db')]
  /\ stage' = "idle"
  /\ UNCHANGED << disk, src, crashes, history >>

\* The last UserDictionary takes the database with it.
Close(d) ==
  /\ stage = "idle" /\ dicts[d] # Off
  /\ dicts' = [dicts EXCEPT ![d] = Off]
  /\ IF Loaded /\ \A other \in Dicts \ {d} : dicts[other] = Off
     THEN file' = db /\ db' = Missing
     ELSE UNCHANGED << file, db >>
  /\ UNCHANGED << snapshot, task, crashes, history >>

-----------------------------------------------------------------------------
(* UserDictionary::Lookup and UpdateEntry                                   *)

InUse(d) == stage = "idle" /\ dicts[d] # Off /\ Loaded

\* A lookup refreshes the tick.  A commit need not follow one: the schema may
\* disable lookups for some inputs, not commits.
Refreshed(tick) == IF FetchTickCount(db) = NoTick THEN tick ELSE FetchTickCount(db)

Lookup(d) ==
  /\ InUse(d)
  /\ dicts' = [dicts EXCEPT ![d] = Refreshed(@)]
  /\ UNCHANGED << disk, db, task, crashes, history >>

Size(n) == IF n < 0 THEN - n ELSE n

\* UpdateEntry with commit = 0 for each part of the phrase, with commit = 1
\* for the phrase, and with commit = -1.
\* Mutant: a deleted entry is not revived.
CommittedUnrevived(s, e, tick) == Put(s, e, s.recs[e].c + 1, tick)

Touched(s, parts, tick) ==
  [s EXCEPT !.recs = [k \in Keys |->
     IF k \in parts THEN [c |-> @[k].c, t |-> tick] ELSE @[k]]]
Committed(s, e, tick) == Put(s, e, Size(s.recs[e].c) + 1, tick)
Deleted(s, e, tick) == Put(s, e, - Larger(1, s.recs[e].c), tick)

\* UpdateTickCount: a backup of the database as it is before the tick and
\* the phrase are written.
BackupDue(tick) == tick % Period = 0

\* R10nTranslator::OnCommit, for one phrase and its parts
Commit(d, parts, e) ==
  /\ InUse(d) /\ commits[e] < MaxCount
  /\ LET tick == dicts[d] + 1
         touched == Touched(db, parts, dicts[d])
     IN /\ dicts' = [dicts EXCEPT ![d] = tick]
        /\ db' = Committed([touched EXCEPT !.tick = tick], e, tick)
        /\ snapshot' = IF BackupDue(tick) THEN touched ELSE snapshot
  /\ commits' = [commits EXCEPT ![e] = @ + 1]
  /\ UNCHANGED << file, task, crashes, rejected, owed >>

\* R10nTranslator::OnDeleteEntry, which looks the input up once more
Delete(d, e) ==
  /\ InUse(d)
  /\ db' = Deleted(db, e, dicts[d])
  /\ \E tick \in {dicts[d], Refreshed(dicts[d])} : dicts' = [dicts EXCEPT ![d] = tick]
  /\ rejected' = rejected \cup (IF commits[e] = 0 THEN {e} ELSE {})
  /\ UNCHANGED << disk, task, crashes, commits, owed >>

-----------------------------------------------------------------------------
(* UserDictManager                                                          *)

\* "CAVEAT: the user dict should be closed before the following operations"
Closed == stage = "idle" /\ NoSession

\* TreeDb::Open of the manager; CanOpen is its answer.
CanOpen == file = Broken => snapshot # Missing
Opened ==
  IF file = Missing THEN Fresh
  ELSE IF file = Broken THEN Restored(snapshot)
  ELSE file

Backup ==
  /\ Closed /\ IsOk(file)
  /\ snapshot' = file
  /\ UNCHANGED << file, db, dicts, task, crashes, history >>

Import(e, n) ==
  /\ Closed /\ CanOpen
  /\ file' = ImportEntry(Opened, e, n)
  /\ UNCHANGED << snapshot, db, dicts, task, crashes, history >>

\* Restore reads the snapshot into a temporary database, then merges that:
\* first the entries, then the tick.
Restore(s) ==
  /\ Closed /\ IsOk(s)
  /\ src' = s /\ stage' = "merge"
  /\ UNCHANGED << disk, db, dicts, crashes, history >>

MergeFails ==
  /\ stage = "merge" /\ ~ CanOpen
  /\ stage' = "idle" /\ src' = Missing
  /\ UNCHANGED << disk, db, dicts, crashes, history >>

RestoreEntries ==
  /\ stage = "merge" /\ CanOpen
  /\ file' = MergeEntries(Opened, src)
  /\ stage' = "tick"
  /\ UNCHANGED << snapshot, db, dicts, src, crashes, history >>

RestoreTick ==
  /\ stage = "tick"
  /\ file' = MergeTick(file, src)
  /\ stage' = "idle" /\ src' = Missing
  /\ UNCHANGED << snapshot, db, dicts, crashes, history >>

\* UpgradeUserDict: Backup, then Close and Remove, then Restore.
CanUpgrade == Closed /\ IsOk(file) /\ file.old

UpgradeBackup ==
  /\ CanUpgrade
  /\ snapshot' = file
  /\ stage' = "remove" /\ src' = file
  /\ UNCHANGED << file, db, dicts, crashes, history >>

UpgradeRemove ==
  /\ stage = "remove"
  /\ file' = Missing /\ stage' = "merge"
  /\ UNCHANGED << snapshot, db, dicts, src, crashes, history >>

-----------------------------------------------------------------------------
(* The process dies: the file is as it was when it was opened, or holds     *)
(* what was in the cache, or is broken.                                     *)

Survivors ==
  IF Loaded THEN {file, db, Broken}
  ELSE IF stage = "tick" THEN {file, Broken}
  ELSE {file}

Dies ==
  /\ crashes < MaxCrashes /\ crashes' = crashes + 1
  /\ file' \in Survivors
  /\ db' = Missing /\ dicts' = [d \in Dicts |-> Off]
  /\ stage' = "idle" /\ src' = Missing
  /\ owed' = {}
  /\ UNCHANGED << commits, rejected >>

Crash ==
  /\ Loaded \/ stage # "idle"
  /\ Dies
  /\ UNCHANGED snapshot

\* Backup truncates the snapshot first.
CrashInBackup ==
  /\ \/ \E d \in Dicts : InUse(d) /\ BackupDue(dicts[d] + 1)
     \/ Closed /\ IsOk(file)
  /\ Dies
  /\ snapshot' = Broken

-----------------------------------------------------------------------------

Next ==
  \/ \E d \in Dicts :
       \/ LoadShared(d) \/ LoadFile(d) \/ LoadNothing(d)
       \/ LoadBroken(d) \/ Recover(d)
       \/ Close(d) \/ Lookup(d)
       \/ \E e \in Entries : \E parts \in SUBSET (Entries \ {e}) : Commit(d, parts, e)
       \/ \E e \in Entries : Delete(d, e)
  \/ Backup
  \/ \E e \in Entries, n \in Imports : Import(e, n)
  \/ \E s \in Foreign \cup {snapshot} : Restore(s)
  \/ MergeFails \/ RestoreEntries \/ RestoreTick
  \/ UpgradeBackup \/ UpgradeRemove
  \/ Crash \/ CrashInBackup

Spec == Init /\ [][Next]_vars

-----------------------------------------------------------------------------
(* Properties                                                               *)

\* What the dictionary holds now, wherever it is: while there is no file, the
\* snapshot that is about to be merged.
Content ==
  IF Loaded THEN db
  ELSE IF IsOk(file) THEN file
  ELSE IF file = Missing /\ IsOk(src) THEN src
  ELSE Fresh

\* The types of the variables: counts are integers, ticks are not negative.
TypeOK ==
  /\ file \in File /\ snapshot \in File /\ db \in Store \cup {Missing}
  /\ dicts \in [Dicts -> Nat \cup {Off, Loading}]
  /\ stage \in Stages /\ src \in Store \cup {Missing}
  /\ crashes \in 0 .. MaxCrashes
  /\ commits \in [Entries -> 0 .. MaxCount]
  /\ rejected \subseteq Entries /\ owed \subseteq Keys

\* With one session at a time, and as long as the process lives, no record is
\* later than the present tick: formula_d would let its weight grow instead of
\* decay. Restoring from another machine brings the tick along, and so does
\* upgrading; but into a file that waits to be upgraded the manager writes a
\* tick without having read the one under the key of earlier versions
\* (GetTickCount).
Timely(s) == \A k \in Keys : s.recs[k].t <= Larger(0, FetchTickCount(s))
NoRecordFromTheFuture ==
  (crashes = 0 /\ stage = "idle" /\ ~ Content.old) => Timely(Content)

\* No sequence of crashes, recoveries, upgrades and repeated restores makes up
\* a commit: above a count that comes from outside, a count is never larger than
\* the number of times the entry was committed, and one more only if the entry
\* was deleted before it was ever committed (UpdateEntry then writes -1).
Given(e) ==
  {0} \cup {Size(n) : n \in Imports}
    \cup {Size(s.recs[k].c) : s \in {f \in Foreign \cup {FirstFile} : IsOk(f)},
                             k \in {j \in Keys : Mended(j) = e}}
Earned(e) == commits[e] + (IF e \in rejected THEN 1 ELSE 0)
NothingInvented ==
  \A s \in {file, snapshot, db} : IsOk(s) =>
    \A e \in Entries : \E given \in Given(e) :
      Size(s.recs[e].c) <= given + Earned(e)

\* Snapshots may be merged in any order and as often as one likes: the
\* counts and the tick come out the same (UserDictManager::Restore).
Counted(s) == << [k \in Known(s) |-> s.recs[k].c], s.tick >>
RestoreInAnyOrder ==
  LET sources == {s \in Foreign \cup {snapshot} : IsOk(s)}
  IN (Closed /\ IsOk(file)) =>
       \A r, s \in sources :
         Counted(Merge(Merge(file, r), s)) =
           IF r = s THEN Counted(Merge(file, r))
           ELSE Counted(Merge(Merge(file, s), r))

\* The sessions, whose ticks may be stale, opening and closing, upgrading:
\* none of this is seen in the counts, as long as the process lives.  What is
\* lost is stored under mangled keys.
CountsOf(s) == [e \in Known(s) \cap Entries |-> s.recs[e].c]
LostOf(s) ==
  LET mangled == Known(s) \cap Mangled
  IN [e \in {Mend[k] : k \in mangled} |->
        Max({s.recs[k].c : k \in {j \in mangled : Mend[j] = e}})]
Seen == CountsOf(Content)
Saved == CountsOf(IF IsOk(snapshot) THEN snapshot ELSE Fresh)
LexiconOf ==
  INSTANCE Lexicon WITH
    count <- Seen,
    saved <- Saved,
    died <- crashes > 0,
    Counts <- Imports,
    Outside <- {CountsOf(s) : s \in Foreign},
    Lost <- {LostOf(s) : s \in {f \in Foreign \cup {FirstFile} : IsOk(f)}}
ImplementsLexicon == LexiconOf!Spec

\* "when the file of a user dictionary is found to be damaged, it is rebuilt
\* and the data are restored from the backup" (README of Weasel and of
\* Squirrel): whatever entries the snapshot had when the damage was found are in
\* the dictionary whenever it is in use again, unless the process dies a second
\* time; a mangled key may have been mended by an upgrade.
DataAreRestored ==
  (stage = "idle" /\ Loaded) => \A k \in owed : {k, Mended(k)} \cap Known(db) # {}
=============================================================================
