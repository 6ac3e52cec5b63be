------------------------------ MODULE Backups -------------------------------
(***************************************************************************)
(* Database dumps (services/backup.ts) and restoring one (backupOps.ts).    *)
(* The list of backups is itself in the database that is dumped and         *)
(* restored, the dump files are not; a file is named after the minute it    *)
(* was made in.  The web server and the worker each have their own          *)
(* running/restoring flags.                                                 *)
(***************************************************************************)
EXTENDS Integers, FiniteSets

CONSTANTS BackupProcs,   \* processes that make backups
          KeepLast,      \* backup settings: how many OK backups stay
          LastBackupMinute, MaxData, MaxBackups, \* bounds: clock, edits of the data, backups made
          MaxBackupFaults, \* bound: failing calls
          SameMinute     \* may two backups be made within one minute?

ASSUME BackupsAssumption ==
  /\ KeepLast \in Nat \ {0} /\ MaxData \in Nat /\ MaxBackups \in Nat /\ MaxBackupFaults \in Nat
  /\ LastBackupMinute \in Nat /\ SameMinute \in BOOLEAN

VARIABLES db,       \* the data, and the backup rows
          file,     \* dump files by minute: the database they hold, or no dump
          proc,     \* flags and current work of each process
          clock, made, faults,
          taken,    \* ghost: the data each backup was made of
          restored  \* ghost: the last restore that succeeded: backup, its safety backup

backupVars == <<db, file, proc, clock, made, faults, taken, restored>>

Minutes == 1..LastBackupMinute
BackupIds == 0..(MaxBackups + LastBackupMinute)  \* 0: none; ids above MaxBackups are imports
NoDump == [data |-> -1, rows |-> {}]
IdleProc == [at |-> "idle", running |-> FALSE, restoring |-> FALSE, id |-> 0, minute |-> 0, target |-> 0, path |-> 0, safety |-> 0]
NoRestore == [id |-> 0, safety |-> -1, data |-> -1]
Mixed == MaxData + 1  \* a half restored database
BackupsInit ==
  /\ db = [data |-> 0, rows |-> {}] /\ file = [m \in Minutes |-> NoDump]
  /\ proc = [p \in BackupProcs |-> IdleProc] /\ clock = 1 /\ made = 0 /\ faults = 0
  /\ taken = [i \in BackupIds |-> -1] /\ restored = NoRestore

Row(i) == CHOOSE r \in db.rows : r.id = i
Known(i) == \E r \in db.rows : r.id = i
OkRows == {r \in db.rows : r.st = "OK"}
SetStatus(rows, i, st) == {IF r.id = i THEN [r EXCEPT !.st = st] ELSE r : r \in rows}

(* -------------------------------- runBackup ----------------------------- *)

\* runBackup: refused while this process backs up or restores; the flag is up
\* before the row is created, and outside the block that lowers it.
runBackup(p, target, path) ==
  /\ ~proc[p].running /\ ~proc[p].restoring /\ made < MaxBackups
  /\ IF SameMinute THEN UNCHANGED clock ELSE clock < LastBackupMinute /\ clock' = clock + 1
  /\ proc' = [proc EXCEPT ![p] = [IdleProc EXCEPT !.at = "row", !.running = TRUE, !.minute = clock, !.target = target, !.path = path]]
  /\ restored' = NoRestore /\ UNCHANGED <<db, file, made, faults, taken>>
startBackup(p) == proc[p].at = "idle" /\ runBackup(p, 0, 0)

createRow(p) ==
  /\ proc[p].at = "row"
  /\ \/ /\ made' = made + 1 /\ proc' = [proc EXCEPT ![p].at = "dump", ![p].id = made + 1]
        /\ db' = [db EXCEPT !.rows = @ \union {[id |-> made + 1, minute |-> proc[p].minute, st |-> "RUNNING", at |-> clock]}]
        /\ UNCHANGED faults
     \/ /\ faults < MaxBackupFaults /\ faults' = faults + 1
        /\ proc' = [proc EXCEPT ![p].at = "idle", ![p].id = 0, ![p].minute = 0] /\ UNCHANGED <<db, made>>
  /\ UNCHANGED <<file, clock, taken, restored>>

\* The catch block: both files go, the row (if it is still there) says FAILED.
backupFails(p) ==
  /\ faults < MaxBackupFaults /\ faults' = faults + 1
  /\ file' = [file EXCEPT ![proc[p].minute] = NoDump]
  /\ db' = [db EXCEPT !.rows = SetStatus(@, proc[p].id, "FAILED")]
  /\ proc' = [proc EXCEPT ![p] = IdleProc] /\ UNCHANGED <<clock, made, taken, restored>>

\* pg_dump: one snapshot of the database, its own RUNNING row included.
pgDumpToGzip(p) ==
  /\ proc[p].at = "dump"
  /\ \/ /\ file' = [file EXCEPT ![proc[p].minute] = db] /\ taken' = [taken EXCEPT ![proc[p].id] = db.data]
        /\ proc' = [proc EXCEPT ![p].at = "finish"] /\ UNCHANGED <<db, clock, made, faults, restored>>
     \/ backupFails(p)

\* applyRetention: of the OK backups, newest first, the newest, the first keepLast
\* and the protected ones stay; deleteBackup removes row and file.
Newer(r, rows) == {x \in rows : x.at > r.at \/ (x.at = r.at /\ x.id > r.id)}
Expired(rows, protect) ==
  {r \in rows : r.st = "OK" /\ r.id \notin protect
                /\ LET index == Cardinality({x \in Newer(r, rows) : x.st = "OK"}) IN index > 0 /\ index >= KeepLast}
applyRetention(rows, protect) == rows \ Expired(rows, protect)
finishBackup(p) ==
  LET w == proc[p]
      rows == SetStatus(db.rows, w.id, "OK")
      gone == {r.minute : r \in Expired(rows, {w.id, w.target})} IN
  /\ w.at = "finish"
  /\ \/ /\ Known(w.id)
        /\ db' = [db EXCEPT !.rows = applyRetention(rows, {w.id, w.target})]
        /\ file' = [m \in Minutes |-> IF m \in gone THEN NoDump ELSE file[m]]
        /\ proc' = [proc EXCEPT ![p] = IF w.target = 0 THEN IdleProc ELSE [IdleProc EXCEPT !.at = "restore", !.restoring = TRUE, !.target = w.target, !.path = w.path, !.safety = w.minute]]
        /\ UNCHANGED <<clock, made, faults, taken, restored>>
     \/ ~Known(w.id) /\ file' = [file EXCEPT ![w.minute] = NoDump] /\ proc' = [proc EXCEPT ![p] = IdleProc]
        /\ UNCHANGED <<db, clock, made, faults, taken, restored>>
     \/ backupFails(p)

(* ------------------------- deleting and housekeeping -------------------- *)

\* deleteBackup, asked for on the backups page.
deleteBackup(i) ==
  /\ Known(i) /\ file' = [file EXCEPT ![Row(i).minute] = NoDump]
  /\ db' = [db EXCEPT !.rows = {r \in @ : r.id # i}] /\ restored' = NoRestore
  /\ UNCHANGED <<proc, clock, made, faults, taken>>

\* cleanupBackups: runs that have been RUNNING for hours are FAILED, OK rows without
\* their file go, and so do old FAILED ones.
Stale(r) == r.st = "RUNNING" /\ \A p \in BackupProcs : proc[p].id # r.id
cleanupBackups ==
  LET rows == {IF Stale(r) THEN [r EXCEPT !.st = "FAILED"] ELSE r : r \in db.rows} IN
  /\ db' = [db EXCEPT !.rows = {r \in rows : r.st = "OK" => file[r.minute] # NoDump}]
  /\ db' # db /\ UNCHANGED <<file, proc, clock, made, faults, taken, restored>>

\* reindexBackups: a dump file whose name no row has gets one.
Unlisted(rows) == {m \in Minutes : file[m] # NoDump /\ \A r \in rows : r.minute # m}
\* Mutant of reindexBackups: files without a row are left alone.
reindexNothing(rows) ==
  rows

reindexBackups(rows) ==
  rows \union {[id |-> MaxBackups + m, minute |-> m, st |-> "OK", at |-> m] : m \in Unlisted(rows)}
reindex ==
  /\ Unlisted(db.rows) # {} /\ db' = [db EXCEPT !.rows = reindexBackups(@)]
  /\ taken' = [i \in BackupIds |-> IF i - MaxBackups \in Unlisted(db.rows) THEN file[i - MaxBackups].data ELSE taken[i]]
  /\ UNCHANGED <<file, proc, clock, made, faults, restored>>

(* --------------------------------- restore ------------------------------ *)

\* restoreBackup: the integrity check, then the safety backup (which protects the
\* chosen one from retention).
restoreBackup(p, i) ==
  /\ proc[p].at = "idle" /\ Known(i) /\ Row(i).st = "OK" /\ file[Row(i).minute] # NoDump /\ runBackup(p, i, Row(i).minute)

\* psql reads the file by the path found before; then the files without a row are
\* imported again.  psql stops at the first error and nothing is rolled back.
psqlRestore(p) ==
  LET w == proc[p]
      dump == file[w.path] IN
  /\ w.at = "restore" /\ proc' = [proc EXCEPT ![p] = IdleProc] /\ UNCHANGED <<file, clock, made>>
  /\ \/ /\ dump # NoDump /\ db' = [data |-> dump.data, rows |-> reindexBackups(dump.rows)]
        /\ taken' = [i \in BackupIds |-> IF i - MaxBackups \in Unlisted(dump.rows) THEN file[i - MaxBackups].data ELSE taken[i]]
        /\ restored' = [id |-> w.target, safety |-> file[w.safety].data, data |-> dump.data] /\ UNCHANGED faults
     \/ /\ dump # NoDump /\ faults < MaxBackupFaults /\ faults' = faults + 1
        /\ db' = [data |-> Mixed, rows |-> {}] /\ restored' = [NoRestore EXCEPT !.safety = file[w.safety].data] /\ UNCHANGED taken
     \/ dump = NoDump /\ UNCHANGED <<db, faults, taken, restored>>

dataChanges == db.data < MaxData /\ db' = [db EXCEPT !.data = @ + 1] /\ restored' = NoRestore
               /\ UNCHANGED <<file, proc, clock, made, faults, taken>>
backupMinutePasses == clock < LastBackupMinute /\ clock' = clock + 1
                /\ UNCHANGED <<db, file, proc, made, faults, taken, restored>>

BackupsNext ==
  \/ \E p \in BackupProcs :
       \/ startBackup(p) \/ createRow(p) \/ pgDumpToGzip(p) \/ finishBackup(p) \/ psqlRestore(p)
       \/ \E i \in BackupIds : restoreBackup(p, i)
  \/ \E i \in BackupIds : deleteBackup(i)
  \/ cleanupBackups \/ reindex \/ dataChanges \/ backupMinutePasses

BackupsSpec == BackupsInit /\ [][BackupsNext]_backupVars

(* ------------------------------ properties ------------------------------ *)

\* Rows, files and the work of the processes stay within their types.
BackupsTypeOK ==
  /\ \A r \in db.rows : r.id \in BackupIds /\ r.minute \in Minutes /\ r.st \in {"RUNNING", "OK", "FAILED"}
  /\ \A p \in BackupProcs : proc[p].at \in {"idle", "row", "dump", "finish", "restore"}
  /\ \A m \in Minutes : file[m].data \in -1..Mixed

\* A restore that succeeds puts back the data the chosen backup was made of.
RestoreGivesChosenData == restored.id # 0 => restored.data = taken[restored.id]

\* After a restore the state from before it can be had again: a dump of it is on
\* disk, and listed as OK although its row was not in the restored database.  A
\* restore that broke off half way leaves at least the file.
RestoreCanBeUndone ==
  restored.safety # -1 => \E m \in Minutes : file[m].data = restored.safety /\ (restored.id # 0 => \E r \in OkRows : r.minute = m)

\* An OK backup of the list has its file and its data: no other backup wrote over
\* or deleted it.
ListedBackupIsGood == \A r \in OkRows : file[r.minute] # NoDump => file[r.minute].data = taken[r.id]

\* What backups promise through retention, deletions, crashes and restores.
BackupsSound == BackupsTypeOK /\ RestoreGivesChosenData /\ RestoreCanBeUndone /\ ListedBackupIsGood
=============================================================================
