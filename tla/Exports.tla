------------------------------ MODULE Exports ------------------------------
(***************************************************************************)
(* Exports of the log to files (main.go, adif_export.go, csv_export.go,    *)
(* cabrillo_export.go, export_path.go, atomic_replace): a contest export   *)
(* writes over the last one of the contest, an ADIF export takes a name of *)
(* its own.  Each reads one snapshot of the log, writes a temporary file   *)
(* and renames it into place.  Several instances of the program may run on *)
(* one Downloads folder; each may fail at every step, and crash.           *)
(***************************************************************************)
EXTENDS Integers, FiniteSets

CONSTANTS
    Instance,   \* instances of the program
    Job,        \* bound: exports in flight
    Contest,    \* the contests exported, each with a file name of its own
    Name,       \* bound: the names ADIF exports of one second find, 1..n
    MaxVersion  \* bound: changes to the log

ASSUME ExportConstantsOK ==
    /\ Name = 1..Cardinality(Name) /\ IsFiniteSet(Name)
    /\ Contest \cap Name = {}
    /\ MaxVersion \in Nat

VARIABLES
    version,    \* the log, as the number of changes committed to it
    file,       \* the files of the folder
    job,        \* the exports in flight
    busy        \* cabrilloExportInProgress and adifExportInProgress

exportVars == <<version, file, job, busy>>

\* A file is absent, an empty reservation, or a whole export: of a version
\* of the log, by an instance.
Absent == [state |-> "absent"]
Reserved(i) == [state |-> "reserved", by |-> i]
Whole(i, v) == [state |-> "whole", by |-> i, version |-> v]

Path == Contest \union Name
Kind(p) == IF p \in Contest THEN "contest" ELSE "adif"

NoJob == [phase |-> "idle"]

ExportInit ==
    /\ version = 0
    /\ file = [p \in Path |-> Absent]
    /\ job = [j \in Job |-> NoJob]
    /\ busy = {}

\* A contact is logged, edited, imported or deleted by any instance.
LogChanges ==
    /\ version < MaxVersion
    /\ version' = version + 1
    /\ UNCHANGED <<file, job, busy>>

\* Mutant: Ctrl+X starts another export beside the one under way.
FreeAlways(i, kind) == TRUE

Free(i, kind) == <<i, kind>> \notin busy

Start(i, j, p) ==
    /\ Free(i, Kind(p))
    /\ job[j] = NoJob
    /\ busy' = busy \union {<<i, Kind(p)>>}
    \* readSnapshot: what is written is the log of this moment.
    /\ job' = [job EXCEPT ![j] = [phase |-> "writing", by |-> i, path |-> p,
                                  version |-> version]]
    /\ UNCHANGED version

\* Ctrl+X: cabrilloExportCmd; csvExportCmd of Ctrl+R is the same, to a file
\* and with a flag of its own.
ExportContest(i, j, c) ==
    /\ c \in Contest
    /\ Start(i, j, c)
    /\ UNCHANGED file

\* reserveExportPath: the first name that is free is created empty, with
\* O_EXCL, in one step.
Available(p) == file[p] = Absent

\* Ctrl+O: adifExportCmd
ExportADIF(i, j) ==
    \E n \in Name :
        /\ Available(n) /\ \A m \in 1..n - 1 : ~Available(m)
        /\ Start(i, j, n)
        /\ file' = [file EXCEPT ![n] = Reserved(i)]

\* writeADIFAtomic, writeCSVAtomic, writeCabrilloAtomic: the temporary file
\* is written, synced and closed.
Written(j) ==
    /\ job[j].phase = "writing"
    /\ job' = [job EXCEPT ![j].phase = "written"]
    /\ UNCHANGED <<version, file, busy>>

\* replaceFileAtomic
Publish(j) ==
    /\ job[j].phase = "written"
    /\ file' = [file EXCEPT ![job[j].path] = Whole(job[j].by, job[j].version)]
    /\ job' = [job EXCEPT ![j].phase = "ended"]
    /\ UNCHANGED <<version, busy>>

\* The file a failed export removes: the reservation of an ADIF export.
Removes(p) == IF p \in Name THEN [file EXCEPT ![p] = Absent] ELSE file

\* Any step up to the rename fails or panics, and the temporary file goes.
\* A panic leaves the reservation.
Fail(j) ==
    /\ job[j].phase \in {"writing", "written"}
    /\ file' \in {file, Removes(job[j].path)}
    /\ job' = [job EXCEPT ![j].phase = "ended"]
    /\ UNCHANGED <<version, busy>>

\* cabrilloExportedMsg, csvExportedMsg, adifExportedMsg
Exported(j) ==
    /\ job[j].phase = "ended"
    /\ busy' = busy \ {<<job[j].by, Kind(job[j].path)>>}
    /\ job' = [job EXCEPT ![j] = NoJob]
    /\ UNCHANGED <<version, file>>

\* An instance is killed, or exits without waiting for its results.
Killed(i) ==
    /\ \E j \in Job : job[j] # NoJob /\ job[j].by = i
    /\ job' = [j \in Job |-> IF job[j] # NoJob /\ job[j].by = i THEN NoJob ELSE job[j]]
    /\ busy' = {b \in busy : b[1] # i}
    /\ UNCHANGED <<version, file>>

ExportNext ==
    \/ LogChanges
    \/ \E i \in Instance, j \in Job :
          \/ \E c \in Contest : ExportContest(i, j, c)
          \/ ExportADIF(i, j)
    \/ \E j \in Job : Written(j) \/ Publish(j) \/ Fail(j) \/ Exported(j)
    \/ \E i \in Instance : Killed(i)
-----------------------------------------------------------------------------
(* Properties. *)

\* An export once in place is there for good: a failed or killed export takes
\* none away, an ADIF export is never overwritten, and an instance never puts
\* an older contest log over a newer one of its own (writeCabrilloAtomic).
ExportsStay ==
    [][\A p \in Path : file[p].state = "whole" /\ file'[p] # file[p] =>
          /\ p \in Contest
          /\ file'[p].state = "whole"
          /\ file'[p].by = file[p].by => file'[p].version >= file[p].version]_exportVars
=============================================================================
