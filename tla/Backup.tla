------------------------------- MODULE Backup -------------------------------
(***************************************************************************)
(* The backup to Google Drive (backup.go, main.go): F8 while the program   *)
(* runs, and once more on every orderly exit, both through one mutex.  A   *)
(* backup snapshots the database, exports ADIF from the snapshot, uploads  *)
(* both files and prunes each kind to the newest few.  Every upload and    *)
(* every pruning may fail.  The log changes meanwhile: by the operator     *)
(* until he quits, by background work until the exit has waited for it.    *)
(***************************************************************************)
EXTENDS Integers, FiniteSets

CONSTANTS
    Keep,       \* backupKeepCount
    MaxBackups, \* bound: backups ever started
    MaxCommits  \* bound: changes to the log

ASSUME BackupConstantsOK ==
    /\ Keep \in Nat \ {0} /\ {MaxBackups, MaxCommits} \subseteq Nat

VARIABLES
    committed,    \* the log, as the number of changes committed to it
    background, \* background work that writes to the log is in flight
    program,    \* what the process is doing
    backup,     \* the F8 backup and the exit backup
    mutex,      \* backupMu
    remote,     \* the files on the drive
    stamp       \* the last name handed out; a backup takes over a second

backupVars == <<committed, background, program, backup, mutex, remote, stamp>>

Who == {"f8", "exit"}
BackupKinds == {"db", "adi"}
NoOne == "none"

\* The steps of a backup: "idle", "waiting", "upload db", "upload adi",
\* "prune db", "prune adi", "done".
NoBackup == [step |-> "idle", stamp |-> 0, version |-> 0, failed |-> FALSE]

BackupInit ==
    /\ committed = 0
    /\ background = FALSE
    /\ program = "running"
    /\ backup = [w \in Who |-> NoBackup]
    /\ mutex = NoOne
    /\ remote = {}
    /\ stamp = 0
-----------------------------------------------------------------------------
(* The program. *)

\* The operator logs, edits or deletes a contact.
LogEdited ==
    /\ program = "running" /\ committed < MaxCommits
    /\ committed' = committed + 1
    /\ UNCHANGED <<background, program, backup, mutex, remote, stamp>>

\* runBgCmd: an import or an upload starts, commits, and ends.
Background ==
    /\ \/ /\ program = "running" /\ ~background /\ background' = TRUE
          /\ UNCHANGED committed
       \/ /\ background /\ committed < MaxCommits /\ committed' = committed + 1
          /\ UNCHANGED background
       \/ /\ background /\ background' = FALSE
          /\ UNCHANGED committed
    /\ UNCHANGED <<program, backup, mutex, remote, stamp>>

\* F8, unless one is in progress
F8 ==
    /\ program = "running" /\ backup["f8"].step = "idle"
    /\ backup' = [backup EXCEPT !["f8"].step = "waiting"]
    /\ UNCHANGED <<committed, background, program, mutex, remote, stamp>>

\* backupCompletedMsg
F8Reported ==
    /\ program = "running" /\ backup["f8"].step = "done"
    /\ backup' = [backup EXCEPT !["f8"] = NoBackup]
    /\ UNCHANGED <<committed, background, program, mutex, remote, stamp>>

\* Esc, Ctrl+C, SIGTERM, SIGHUP: p.Run returns, and bgCancel is called.
Quit ==
    /\ program = "running"
    /\ program' = "draining"
    /\ UNCHANGED <<committed, background, backup, mutex, remote, stamp>>

\* Mutant: the background work is cancelled, and not waited for.
DrainedAtOnce == program = "draining"

\* bgTasks.Wait
Drained == program = "draining" /\ ~background

ExitBackup ==
    /\ Drained
    /\ program' = "exiting"
    /\ backup' = [backup EXCEPT !["exit"].step = "waiting"]
    /\ UNCHANGED <<committed, background, mutex, remote, stamp>>

Exit ==
    /\ program = "exiting" /\ backup["exit"].step = "done"
    /\ program' = "exited"
    /\ UNCHANGED <<committed, background, backup, mutex, remote, stamp>>

Crash ==
    /\ program \in {"running", "draining", "exiting"}
    /\ program' = "running"
    /\ background' = FALSE
    /\ backup' = [w \in Who |-> NoBackup]
    /\ mutex' = NoOne
    /\ UNCHANGED <<committed, remote, stamp>>
-----------------------------------------------------------------------------
(* runBackupSerialized and runBackup. *)

Alive == program # "exited"

\* The name is taken, the database copied with VACUUM INTO, and the ADIF file
\* exported from the copy.  Nothing has been uploaded when one of them fails.
Snapshot(w) ==
    /\ Alive /\ backup[w].step = "waiting"
    /\ mutex = NoOne
    /\ \/ /\ stamp < MaxBackups
          /\ stamp' = stamp + 1
          /\ mutex' = w
          /\ backup' = [backup EXCEPT ![w] = [step |-> "upload db", stamp |-> stamp + 1,
                                              version |-> committed, failed |-> FALSE]]
       \/ /\ backup' = [backup EXCEPT ![w].step = "done", ![w].failed = TRUE]
          /\ UNCHANGED <<stamp, mutex>>
    /\ UNCHANGED <<committed, background, program, remote>>

\* Mutant: the ADIF file is exported from the live database.
LiveVersion(w, kind) == IF kind = "adi" THEN committed ELSE backup[w].version

Contents(w, kind) == backup[w].version

Put(w, kind) ==
    {f \in remote : ~(f.kind = kind /\ f.stamp = backup[w].stamp)} \union
       {[kind |-> kind, stamp |-> backup[w].stamp, version |-> Contents(w, kind)]}

\* rcloneCopyTo: after a failure the second file is not tried, the pruning is.
Upload(w) ==
    /\ Alive
    /\ \E kind \in BackupKinds :
          /\ backup[w].step = (IF kind = "db" THEN "upload db" ELSE "upload adi")
          /\ \/ /\ remote' = Put(w, kind)
                /\ backup' = [backup EXCEPT ![w].step =
                                IF kind = "db" THEN "upload adi" ELSE "prune db"]
             \/ /\ backup' = [backup EXCEPT ![w].step = "prune db", ![w].failed = TRUE]
                /\ UNCHANGED remote
    /\ UNCHANGED <<committed, background, program, mutex, stamp>>

\* pruneRemoteBackups: the last Keep names
Newest(kind) ==
    LET of == {f \in remote : f.kind = kind} IN
    {f \in of : Cardinality({g \in of : g.stamp >= f.stamp}) <= Keep}

\* It deletes one file after the other, oldest first, and stops at the first
\* it cannot delete.
Prune(w) ==
    /\ Alive
    /\ \E kind \in BackupKinds :
          LET doomed == {f \in remote : f.kind = kind} \ Newest(kind)
              next == IF kind = "db" THEN "prune adi" ELSE "done" IN
          /\ backup[w].step = (IF kind = "db" THEN "prune db" ELSE "prune adi")
          /\ \/ /\ doomed = {}
                /\ backup' = [backup EXCEPT ![w].step = next]
                /\ UNCHANGED remote
             \/ /\ \E f \in doomed :
                      /\ \A g \in doomed : f.stamp <= g.stamp
                      /\ remote' = remote \ {f}
                /\ UNCHANGED backup
             \/ /\ backup' = [backup EXCEPT ![w].step = next, ![w].failed = TRUE]
                /\ UNCHANGED remote
          /\ mutex' = IF backup'[w].step = "done" THEN NoOne ELSE mutex
    /\ UNCHANGED <<committed, background, program, stamp>>

BackupNext ==
    \/ LogEdited \/ Background \/ F8 \/ F8Reported
    \/ Quit \/ ExitBackup \/ Exit \/ Crash
    \/ \E w \in Who : Snapshot(w) \/ Upload(w) \/ Prune(w)
-----------------------------------------------------------------------------
(* Properties. *)

\* The database and the ADIF file of one backup hold the same log, whatever
\* was logged between their uploads, and no two backups share a name: F8 and
\* the exit backup take their turns (backupMu, runBackup).
PairsAgree ==
    /\ \A f, g \in remote : f.stamp = g.stamp => f.version = g.version
    /\ \A w \in Who : backup[w].step \notin {"idle", "waiting", "done"} => mutex = w

\* When the program has exited and its last backup reported success, the
\* drive holds the whole log, in both forms, for nothing was committed after
\* the snapshot; and it holds no more files than it may, unless an F8 backup
\* took its turn after the exit's (main, bgTasks.Wait, pruneRemoteBackups).
ExitBackupComplete ==
    program = "exited" /\ ~backup["exit"].failed =>
        \A kind \in BackupKinds :
           /\ stamp = backup["exit"].stamp =>
                 Cardinality({f \in remote : f.kind = kind}) <= Keep
           /\ \E f \in remote : f.kind = kind /\ f.version = committed
=============================================================================
