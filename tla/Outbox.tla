------------------------------- MODULE Outbox -------------------------------
(***************************************************************************)
(* The durable upload outbox (outbox.go, upload_status.go, lotw.go and the *)
(* drain in main.go): logged contacts are queued per destination in        *)
(* SQLite, a periodic drain leases due rows and sends them from background *)
(* goroutines, and every outcome is written back to the queue.             *)
(*                                                                         *)
(* Three kinds of process interleave.  The UI goroutine runs one handler   *)
(* at a time; `pc` is its place inside the only handler with several       *)
(* database statements, the drain.  Upload goroutines live in `job`.  The  *)
(* operator, the clock and crashes come at any time.                       *)
(*                                                                         *)
(* next_attempt_at is kept as `wait`, the time left until it, so that no   *)
(* clock value has to be bounded.                                          *)
(***************************************************************************)
EXTENDS Integers, FiniteSets

CONSTANTS
    Qso,            \* row ids the qso table may hand out
    Dest,           \* upload destinations
    BatchDest,      \* destinations sent as one batch per drain ("lotw")
    Cred,           \* accounts: an API key, or a station location
    NoCred,         \* no credentials configured; also an unbound row
    Slot,           \* bound: upload goroutines alive at once
    MaxAttempts,    \* maxUploadAttempts
    DrainBatch,     \* uploadDrainBatch
    BufferDelay,    \* uploadBufferDelay
    Lease,          \* uploadInFlightLease
    DrainInterval,  \* uploadDrainInterval
    UploadTimeout,  \* the longest of the qrz, wrl and lotw upload timeouts
    BackoffBase,    \* first retry delay
    BackoffCap,     \* ceiling of the doubling retry delay
    ParkDelay,      \* delay of a row whose retry budget is exhausted
    Cooldown,       \* lotwBackfillMinInterval
    Overdue,        \* bound: how far past due a row's lateness is counted
    MaxFaults       \* bound: failing database statements per behaviour

ASSUME ConstantsOK ==
    /\ BatchDest \subseteq Dest
    /\ NoCred \notin Cred
    /\ {MaxAttempts, DrainBatch, DrainInterval, BackoffBase} \subseteq Nat \ {0}
    /\ {BufferDelay, Lease, UploadTimeout, BackoffCap, ParkDelay, Cooldown,
        Overdue, MaxFaults} \subseteq Nat
    /\ BackoffBase <= BackoffCap

\* "lease must exceed the upload timeout" (outbox.go, claimDueUploads).
ASSUME LeaseExceedsTimeout == UploadTimeout < Lease

VARIABLES
    \* the database
    qso,        \* each contact: "unused", "live" or "deleted"
    queued,     \* the (contact, destination) rows of upload_outbox
    attempts,   \* upload_outbox.attempts
    wait,       \* upload_outbox.next_attempt_at, relative to now
    lastError,  \* rows whose last_error IS NOT NULL
    binding,    \* upload_outbox.binding: the account a row is tied to
    uploadLog,  \* terminal outcomes written to upload_log
    cooldown,   \* time left of the hour after lotw_backfill_state's stamp
    \* the program
    ui,         \* "up", "quitting" (waiting for bgTasks) or "down"
    pc,         \* the UI goroutine: "idle", or inside a drain
    claimed,    \* rows the drain loop has claimed and not yet looked at
    batch,      \* rows the drain loop has collected for one tqsl call
    cred,       \* the credentials the model holds
    job,        \* the upload goroutines
    timer,      \* time left until the next drain tick
    \* the environment
    config,     \* the credential files
    fresh,      \* time since a contact was logged, up to BufferDelay
    faults,     \* database statements that have failed so far
    \* what the outside world knows
    owed,       \* rows ever queued
    accepted,   \* rows the service holds at least one copy of
    refused,    \* rows tqsl reported as duplicate or out of range
    acked       \* rows whose acceptance the program has seen and not lost
                \* to a crash, a failed write or a new order to send

outbox == <<queued, attempts, wait, lastError, binding>>
handler == <<pc, claimed, batch>>
remote == <<accepted, refused, acked>>
vars == <<qso, outbox, uploadLog, cooldown, ui, handler, cred, job, timer,
          config, fresh, faults, owed, remote>>

Row == Qso \X Dest
Account == Cred \union {NoCred}
RowsOf(q) == {q} \X Dest

Idle == [rows |-> {}, phase |-> "idle", age |-> 0, cred |-> NoCred]
Busy == {s \in Slot : job[s].phase # "idle"}
InFlight == UNION {job[s].rows : s \in Slot}

Status == {"sent", "suppressed"}
Phase == {"idle", "sending", "ok", "dup", "bad", "panic"}
Job == [rows : SUBSET Row, phase : Phase, age : 0..UploadTimeout,
        cred : Account]

TypeOK ==
    /\ qso \in [Qso -> {"unused", "live", "deleted"}]
    /\ queued \subseteq Row
    /\ attempts \in [Row -> Nat]
    /\ wait \in [Row -> Int]
    /\ lastError \subseteq Row
    /\ binding \in [Row -> Account]
    /\ uploadLog \subseteq Row \X Status
    /\ cooldown \in 0..Cooldown
    /\ ui \in {"up", "quitting", "down"}
    /\ pc \in {"idle", "claim", "loop"}
    /\ claimed \subseteq Row
    /\ batch \subseteq Row
    /\ cred \in [Dest -> Account]
    /\ job \in [Slot -> Job]
    /\ timer \in 0..DrainInterval
    /\ config \in [Dest -> Account]
    /\ fresh \in [Qso -> 0..BufferDelay]
    /\ faults \in 0..MaxFaults
    /\ owed \subseteq Row
    /\ accepted \subseteq Row
    /\ refused \subseteq Row
    /\ acked \subseteq Row

Init ==
    /\ qso = [q \in Qso |-> "unused"]
    /\ queued = {}
    /\ attempts = [r \in Row |-> 0]
    /\ wait = [r \in Row |-> 0]
    /\ lastError = {}
    /\ binding = [r \in Row |-> NoCred]
    /\ uploadLog = {}
    /\ cooldown = 0
    /\ ui = "up"
    /\ pc = "idle"
    /\ claimed = {}
    /\ batch = {}
    /\ config \in [Dest -> Account]
    /\ cred = config
    /\ job = [s \in Slot |-> Idle]
    /\ timer = DrainInterval
    /\ fresh = [q \in Qso |-> BufferDelay]
    /\ faults = 0
    /\ owed = {}
    /\ accepted = {}
    /\ refused = {}
    /\ acked = {}

-----------------------------------------------------------------------------
(* Statements on upload_outbox                                             *)

\* uploadBackoff: the delay doubles from BackoffBase to BackoffCap, and a row
\* out of attempts is parked.
Backoff(n) ==
    IF n >= MaxAttempts THEN ParkDelay
    ELSE LET doubled == BackoffBase * 2^(n - 1)
         IN  IF doubled \in BackoffBase..BackoffCap THEN doubled ELSE BackoffCap

\* Mutant: the not-before time is not stored.
EnqueueAtOnce(S, delay, account) ==
    LET new == S \ queued
    IN  /\ queued' = queued \union new
        /\ attempts' = [r \in Row |-> IF r \in new THEN 0 ELSE attempts[r]]
        /\ wait' = [r \in Row |-> IF r \in new THEN 0 ELSE wait[r]]
        /\ lastError' = lastError \ new
        /\ binding' = [r \in Row |->
                           IF r \in new THEN account[r[2]] ELSE binding[r]]
        /\ owed' = owed \union S

\* enqueueUploadTx for every row of S not queued yet (INSERT OR IGNORE).
Enqueue(S, delay, account) ==
    LET new == S \ queued
    IN  /\ queued' = queued \union new
        /\ attempts' = [r \in Row |-> IF r \in new THEN 0 ELSE attempts[r]]
        /\ wait' = [r \in Row |-> IF r \in new THEN delay ELSE wait[r]]
        /\ lastError' = lastError \ new
        /\ binding' = [r \in Row |->
                           IF r \in new THEN account[r[2]] ELSE binding[r]]
        /\ owed' = owed \union S

\* DELETE FROM upload_outbox of the rows in S.  The columns of an absent row
\* are reset so that they carry no information.
Remove(S) ==
    /\ queued' = queued \ S
    /\ attempts' = [r \in Row |-> IF r \in S THEN 0 ELSE attempts[r]]
    /\ wait' = [r \in Row |-> IF r \in S THEN 0 ELSE wait[r]]
    /\ lastError' = lastError \ S
    /\ binding' = [r \in Row |-> IF r \in S THEN NoCred ELSE binding[r]]

\* Mutant: an upsert brings back a row deleted while its upload ran.
RecordFailureUpsert(r) ==
    /\ queued' = queued \union {r}
    /\ attempts' = [attempts EXCEPT ![r] = @ + 1]
    /\ wait' = [wait EXCEPT ![r] = Backoff(attempts[r] + 1)]
    /\ lastError' = lastError \union {r}

\* Mutant: a row out of attempts is dropped instead of parked.
RecordFailureDropping(r) ==
    IF r \in queued
    THEN /\ attempts' = [attempts EXCEPT ![r] = @ + 1]
         /\ wait' = [wait EXCEPT ![r] = Backoff(attempts[r] + 1)]
         /\ IF attempts[r] + 1 < MaxAttempts
            THEN lastError' = lastError \union {r} /\ UNCHANGED queued
            ELSE queued' = queued \ {r} /\ UNCHANGED lastError
    ELSE UNCHANGED <<queued, attempts, wait, lastError>>

\* recordUploadFailure: a row deleted in the meantime is left alone.
RecordFailure(r) ==
    IF r \in queued
    THEN /\ attempts' = [attempts EXCEPT ![r] = @ + 1]
         /\ wait' = [wait EXCEPT ![r] = Backoff(attempts[r] + 1)]
         /\ lastError' = lastError \union {r}
         /\ UNCHANGED queued
    ELSE UNCHANGED <<queued, attempts, wait, lastError>>

\* Mutant: claimDueUploads forgets the retry budget.
DueBeyondBudget == {r \in queued : wait[r] <= 0}

\* The rows claimDueUploads may choose from.
Due == {r \in queued : attempts[r] < MaxAttempts /\ wait[r] <= 0}

\* Mutant: no ORDER BY.
FirstDueUnordered(C) ==
    /\ Cardinality(C) <= DrainBatch
    /\ Cardinality(C) < DrainBatch => C = Due

\* C is a result of ORDER BY next_attempt_at LIMIT DrainBatch.
FirstDue(C) ==
    /\ Cardinality(C) <= DrainBatch
    /\ Cardinality(C) < DrainBatch => C = Due
    /\ \A r \in C, other \in Due \ C : wait[r] <= wait[other]

\* Mutant: the claim only reads.
LeaseNothing(C) ==
    /\ lastError' = lastError \ C
    /\ UNCHANGED wait

\* The claim's UPDATE: the rows of C are out of the next drain's sight for
\* Lease, and their error is cleared.
LeaseRows(C) ==
    /\ wait' = [r \in Row |-> IF r \in C THEN Lease ELSE wait[r]]
    /\ lastError' = lastError \ C

\* A database statement fails; the caller reports it and goes on.
Fault == faults < MaxFaults /\ faults' = faults + 1

-----------------------------------------------------------------------------
(* The operator, through the UI goroutine                                  *)

UiIdle == ui = "up" /\ pc = "idle"

\* logCurrentQSO: the contact and one row per configured destination are
\* committed together (uploadDestinations, insertQSOWithUploads).
LogQso(q) ==
    /\ UiIdle
    /\ qso[q] = "unused"
    /\ qso' = [qso EXCEPT ![q] = "live"]
    /\ Enqueue({r \in RowsOf(q) : cred[r[2]] # NoCred}, BufferDelay, cred)
    /\ fresh' = [fresh EXCEPT ![q] = 0]
    /\ UNCHANGED <<uploadLog, cooldown, ui, handler, cred, job, timer, config,
                   faults, remote>>

\* insertQSOBatch of an ADIF import, in the background: no row is queued.
ImportQso(q) ==
    /\ ui = "up"
    /\ qso[q] = "unused"
    /\ qso' = [qso EXCEPT ![q] = "live"]
    /\ UNCHANGED <<outbox, uploadLog, cooldown, ui, handler, cred, job, timer,
                   config, fresh, faults, owed, remote>>

\* deleteQSO: the contact and its outbox rows go in one transaction.
DeleteQso(q) ==
    /\ UiIdle
    /\ qso[q] = "live"
    /\ qso' = [qso EXCEPT ![q] = "deleted"]
    /\ Remove(RowsOf(q))
    /\ UNCHANGED <<uploadLog, cooldown, ui, handler, cred, job, timer, config,
                   fresh, faults, owed, remote>>

\* The operator edits a credential file; a running program does not see it.
EditConfig(d, c) ==
    /\ config[d] # c
    /\ config' = [config EXCEPT ![d] = c]
    /\ UNCHANGED <<qso, outbox, uploadLog, cooldown, ui, handler, cred, job,
                   fresh, faults, owed, remote, timer>>

\* saveStationSetup writes the LoTW station and reloads it at once.
SaveStationSetup(d, c) ==
    /\ UiIdle
    /\ d \in BatchDest
    /\ cred[d] # c \/ config[d] # c
    /\ config' = [config EXCEPT ![d] = c]
    /\ cred' = [cred EXCEPT ![d] = c]
    /\ UNCHANGED <<qso, outbox, uploadLog, cooldown, ui, handler, job, fresh,
                   faults, owed, remote, timer>>

\* Ctrl+U, retryFailedUploads: credentials are reloaded, every row that shows
\* an error and has a configured destination is reset and rebound to it, one
\* statement per destination; a failing one ends the loop.  Either way the
\* same handler then drains.
RetriableAll(account) == {r \in queued : account[r[2]] # NoCred}  \* mutant

Retriable(account) == {r \in lastError : account[r[2]] # NoCred}

RetryFailed ==
    /\ UiIdle
    /\ cred' = config
    /\ \E dests \in SUBSET Dest :
           LET S == {r \in Retriable(config) : r[2] \in dests}
           IN  /\ \/ dests = Dest /\ UNCHANGED faults
                  \/ dests # Dest /\ Fault
               /\ attempts' = [r \in Row |-> IF r \in S THEN 0 ELSE attempts[r]]
               /\ wait' = [r \in Row |-> IF r \in S THEN 0 ELSE wait[r]]
               /\ lastError' = lastError \ S
               /\ binding' = [r \in Row |->
                                  IF r \in S THEN config[r[2]] ELSE binding[r]]
    /\ pc' = "claim"
    /\ UNCHANGED <<qso, queued, uploadLog, cooldown, ui, claimed, batch, job,
                   timer, config, fresh, owed, remote>>

\* Ctrl+Y: every contact is queued for LoTW, unbound and due at once
\* (enqueueLoTWBackfill), the cooldown is stamped (recordLoTWBackfillAt), and
\* the same handler drains.  When the stamp cannot be written the handler
\* stops there, with the rows queued.
Backfill(d) ==
    /\ UiIdle
    /\ d \in BatchDest
    /\ cred[d] # NoCred
    /\ cooldown = 0
    /\ LET S == {r \in Row : r[2] = d /\ qso[r[1]] = "live"}
       IN  /\ Enqueue(S, 0, [e \in Dest |-> NoCred])
           /\ acked' = acked \ (S \ queued)
    /\ \/ cooldown' = Cooldown /\ pc' = "claim" /\ UNCHANGED faults
       \/ Fault /\ UNCHANGED <<cooldown, pc>>
    /\ UNCHANGED <<qso, uploadLog, ui, claimed, batch, cred, job, timer,
                   config, fresh, accepted, refused>>

-----------------------------------------------------------------------------
(* drainOutbox, in the UI goroutine: on the drain tick or after a key      *)

\* uploadDrainMsg: the handler drains and arms the next tick.
DrainTick ==
    /\ UiIdle
    /\ timer = 0
    /\ timer' = DrainInterval
    /\ pc' = "claim"
    /\ UNCHANGED <<qso, outbox, uploadLog, cooldown, ui, claimed, batch, cred,
                   job, config, fresh, faults, owed, remote>>

\* claimDueUploads, one transaction.
Claim(C) ==
    /\ ui = "up" /\ pc = "claim"
    /\ FirstDue(C)
    /\ C # {}
    /\ LeaseRows(C)
    /\ claimed' = C
    /\ pc' = "loop"
    /\ UNCHANGED <<qso, queued, attempts, binding, uploadLog, cooldown, ui,
                   batch, cred, job, timer, config, fresh, faults, owed,
                   remote>>

\* Nothing is due, or the claim fails: the handler ends.
ClaimNothing ==
    /\ ui = "up" /\ pc = "claim"
    /\ \/ Due = {} /\ UNCHANGED faults
       \/ Fault
    /\ pc' = "idle"
    /\ UNCHANGED <<qso, outbox, uploadLog, cooldown, ui, claimed, batch, cred,
                   job, timer, config, fresh, owed, remote>>

\* Mutant: the binding is not compared.
MaySendToAnyone(r) == cred[r[2]] # NoCred

\* The row may go out with the credentials the model holds now.
MaySend(r) ==
    /\ cred[r[2]] # NoCred
    /\ binding[r] \in {NoCred, cred[r[2]]}

\* One claimed row is taken up by the loop.
TakeUp(r) ==
    /\ ui = "up" /\ pc = "loop"
    /\ r \in claimed
    /\ claimed' = claimed \ {r}
    /\ UNCHANGED <<qso, queued, uploadLog, cooldown, ui, pc, cred, timer,
                   config, fresh, owed, remote>>

\* Mutant: the pause leaves no reason behind.
PauseSilently(r) ==
    /\ TakeUp(r)
    /\ ~MaySend(r)
    /\ UNCHANGED <<attempts, wait, lastError, binding, batch, job, faults>>

\* Missing or changed credentials: the row is paused with a reason.
Pause(r) ==
    /\ TakeUp(r)
    /\ ~MaySend(r)
    /\ lastError' = lastError \union {r}
    /\ UNCHANGED <<attempts, wait, binding, batch, job, faults>>

\* Writing the reason, or the first binding of an unbound row, fails: the row
\* keeps its lease.
SkipOnFault(r) ==
    /\ TakeUp(r)
    /\ ~MaySend(r) \/ binding[r] = NoCred
    /\ Fault
    /\ UNCHANGED <<attempts, wait, lastError, binding, batch, job>>

\* Legacy and backfilled rows are bound before their first send.
Bind(r) ==
    binding' = [binding EXCEPT ![r] = IF binding[r] = NoCred THEN cred[r[2]]
                                      ELSE binding[r]]

\* Reading the contact fails; the row is charged with a failed attempt.
ReadFault(r) ==
    /\ TakeUp(r)
    /\ MaySend(r)
    /\ Bind(r)
    /\ Fault
    /\ RecordFailure(r)
    /\ UNCHANGED <<batch, job>>

Dispatch(s, S, account) ==
    /\ s \notin Busy
    /\ job' = [job EXCEPT ![s] = [rows |-> S, phase |-> "sending", age |-> 0,
                                  cred |-> account]]

\* qrzOutboxUploadCmd, wrlOutboxUploadCmd: a goroutine of its own per row.
SendOne(r, s) ==
    /\ TakeUp(r)
    /\ MaySend(r)
    /\ r[2] \notin BatchDest
    /\ Bind(r)
    /\ Dispatch(s, {r}, cred[r[2]])
    /\ UNCHANGED <<attempts, wait, lastError, batch, faults>>

\* LoTW rows are collected for one call.
Collect(r) ==
    /\ TakeUp(r)
    /\ MaySend(r)
    /\ r[2] \in BatchDest
    /\ Bind(r)
    /\ batch' = batch \union {r}
    /\ UNCHANGED <<attempts, wait, lastError, job, faults>>

\* After the loop the collected rows go out in one goroutine
\* (lotwOutboxUploadCmd), and the handler ends.
SendBatch(s, d) ==
    /\ ui = "up" /\ pc = "loop" /\ claimed = {}
    /\ d \in BatchDest
    /\ batch # {}
    /\ batch \subseteq Qso \X {d}
    /\ Dispatch(s, batch, cred[d])
    /\ batch' = {}
    /\ pc' = "idle"
    /\ UNCHANGED <<qso, outbox, uploadLog, cooldown, ui, claimed, cred, timer,
                   config, fresh, faults, owed, remote>>

LoopEnd ==
    /\ ui = "up" /\ pc = "loop" /\ claimed = {} /\ batch = {}
    /\ pc' = "idle"
    /\ UNCHANGED <<qso, outbox, uploadLog, cooldown, ui, claimed, batch, cred,
                   job, timer, config, fresh, faults, owed, remote>>

-----------------------------------------------------------------------------
(* The upload goroutines                                                   *)

\* The attempt ends.  A failure the program sees (a rejection, a timeout, a
\* cancelled context) may hide that the service took the contact all the same.
Outcome(s, phase) ==
    /\ job[s].phase = "sending"
    /\ phase = "dup" => \A r \in job[s].rows : r[2] \in BatchDest
    /\ job' = [job EXCEPT ![s].phase = phase]
    /\ \E A \in SUBSET job[s].rows :
           /\ phase = "ok" => A = job[s].rows
           /\ accepted' = accepted \union A
    /\ refused' = IF phase = "dup" THEN refused \union job[s].rows ELSE refused
    /\ acked' = IF phase = "ok" THEN acked \union job[s].rows ELSE acked
    /\ UNCHANGED <<qso, outbox, uploadLog, cooldown, ui, handler, cred, timer,
                   config, fresh, faults, owed>>

\* The goroutine has dealt with row r; it ends with its last row.
Finish(s, r) ==
    LET rest == job[s].rows \ {r}
    IN  job' = [job EXCEPT ![s] = IF rest = {} THEN Idle
                                  ELSE [job[s] EXCEPT !.rows = rest]]

\* Phases that settle a row: lotwExitDelivered, or a service's success reply.
TerminalAlways == {"ok", "dup", "bad"}  \* mutant
Terminal == {"ok", "dup"}

\* Mutant: every settled row is logged as sent.
LogAllSent(s, r) == uploadLog' = uploadLog \union {<<r, "sent">>}

\* The upload_log entry of a finished row; its failure is ignored.
LogEvent(s, r) ==
    uploadLog' = uploadLog \union
        {<<r, IF job[s].phase = "ok" THEN "sent" ELSE "suppressed">>}

\* markUploadDone, then the upload_log entry.
PersistDone(s, r) ==
    /\ job[s].phase \in Terminal
    /\ r \in job[s].rows
    /\ Remove({r})
    /\ \/ LogEvent(s, r) /\ UNCHANGED faults
       \/ Fault /\ UNCHANGED uploadLog
    /\ Finish(s, r)
    /\ UNCHANGED <<qso, cooldown, ui, handler, cred, timer, config, fresh,
                   owed, remote>>

\* recordUploadFailure, still from the goroutine.
PersistFailure(s, r) ==
    /\ job[s].phase = "bad"
    /\ r \in job[s].rows
    /\ RecordFailure(r)
    /\ Finish(s, r)
    /\ UNCHANGED <<qso, binding, uploadLog, cooldown, ui, handler, cred,
                   timer, config, fresh, faults, owed, remote>>

\* Either write fails (queueErr): the row keeps its lease.  The outcome is
\* entered in upload_log all the same.
PersistFault(s, r) ==
    /\ job[s].phase \in {"ok", "dup", "bad"}
    /\ r \in job[s].rows
    /\ Fault
    /\ \/ job[s].phase # "bad" /\ LogEvent(s, r)
       \/ UNCHANGED uploadLog
    /\ Finish(s, r)
    /\ acked' = acked \ {r}
    /\ UNCHANGED <<qso, outbox, cooldown, ui, handler, cred, timer, config,
                   fresh, owed, accepted, refused>>

\* The goroutine panics before it has written anything; runBgCmd recovers and
\* reports it in a message to the UI.
JobPanic(s) ==
    /\ job[s].phase \in {"sending", "ok"}
    /\ Fault
    /\ job' = [job EXCEPT ![s].phase = "panic"]
    /\ acked' = acked \ job[s].rows
    /\ UNCHANGED <<qso, outbox, uploadLog, cooldown, ui, handler, cred, timer,
                   config, fresh, owed, accepted, refused>>

\* Update gets that message: for QRZ and WRL it records the failure itself,
\* for LoTW it only shows it and the lease runs out.
PanicMsg(s, r) ==
    /\ UiIdle
    /\ job[s].phase = "panic"
    /\ r \in job[s].rows
    /\ IF r[2] \in BatchDest
       THEN UNCHANGED <<queued, attempts, wait, lastError>>
       ELSE RecordFailure(r)
    /\ Finish(s, r)
    /\ UNCHANGED <<qso, binding, uploadLog, cooldown, ui, handler, cred,
                   timer, config, fresh, faults, owed, remote>>

-----------------------------------------------------------------------------
(* The clock, and the life of the process                                  *)

\* Time passes.  A handler does not last a unit of time, a goroutine is done
\* within UploadTimeout (context.WithTimeout, then one quick write), and the
\* event loop takes a drain tick when it comes.
Tick ==
    /\ pc = "idle"
    /\ \A s \in Busy : job[s].age < UploadTimeout
    /\ ui = "up" => timer > 0
    /\ timer' = IF ui = "up" THEN timer - 1 ELSE timer
    /\ wait' = [r \in Row |-> IF r \in queued /\ wait[r] > -Overdue
                              THEN wait[r] - 1 ELSE wait[r]]
    /\ job' = [s \in Slot |-> IF s \in Busy
                              THEN [job[s] EXCEPT !.age = @ + 1] ELSE job[s]]
    /\ fresh' = [q \in Qso |-> IF fresh[q] < BufferDelay
                               THEN fresh[q] + 1 ELSE fresh[q]]
    /\ cooldown' = IF cooldown > 0 THEN cooldown - 1 ELSE 0
    /\ UNCHANGED <<qso, queued, attempts, lastError, binding, uploadLog, ui,
                   handler, cred, config, faults, owed, remote>>

\* The process dies.  Requests already on the wire may still be taken.
Crash ==
    /\ ui # "down"
    /\ ui' = "down"
    /\ pc' = "idle" /\ claimed' = {} /\ batch' = {}
    /\ job' = [s \in Slot |-> Idle]
    /\ \E A \in SUBSET UNION {job[s].rows : s \in
                                  {t \in Slot : job[t].phase = "sending"}} :
           accepted' = accepted \union A
    /\ acked' = {}
    /\ UNCHANGED <<qso, outbox, uploadLog, cooldown, cred, timer, config,
                   fresh, faults, owed, refused>>

\* The operator quits: no more handlers run, uploads are cancelled.
Quit ==
    /\ UiIdle
    /\ ui' = "quitting"
    /\ UNCHANGED <<qso, outbox, uploadLog, cooldown, handler, cred, job,
                   timer, config, fresh, faults, owed, remote>>

\* bgTasks.Wait returns once every goroutine is done; a panic message still
\* under way is dropped with the event loop.
TasksIgnored == TRUE  \* mutant
TasksDone == \A s \in Busy : job[s].phase = "panic"

Exit ==
    /\ ui = "quitting"
    /\ TasksDone
    /\ ui' = "down"
    /\ job' = [s \in Slot |-> Idle]
    /\ UNCHANGED <<qso, outbox, uploadLog, cooldown, handler, cred, timer,
                   config, fresh, faults, owed, remote>>

\* main loads the credentials again.
Start ==
    /\ ui = "down"
    /\ ui' = "up"
    /\ cred' = config
    /\ timer' = DrainInterval
    /\ UNCHANGED <<qso, outbox, uploadLog, cooldown, handler, job, config,
                   fresh, faults, owed, remote>>

-----------------------------------------------------------------------------

Operator ==
    \/ \E q \in Qso : LogQso(q) \/ ImportQso(q) \/ DeleteQso(q)
    \/ \E d \in Dest, c \in Account : EditConfig(d, c) \/ SaveStationSetup(d, c)
    \/ RetryFailed
    \/ \E d \in Dest : Backfill(d)

Drain ==
    \/ DrainTick
    \/ \E C \in SUBSET Due : Claim(C)
    \/ ClaimNothing
    \/ \E r \in claimed : Pause(r) \/ SkipOnFault(r) \/ ReadFault(r)
    \/ \E r \in claimed, s \in Slot : SendOne(r, s)
    \/ \E r \in claimed : Collect(r)
    \/ \E s \in Slot, d \in Dest : SendBatch(s, d)
    \/ LoopEnd

Upload(s) ==
    \/ \E phase \in {"ok", "dup", "bad"} : Outcome(s, phase)
    \/ JobPanic(s)
    \/ \E r \in job[s].rows :
           PersistDone(s, r) \/ PersistFailure(s, r) \/ PersistFault(s, r)
             \/ PanicMsg(s, r)

Process == Crash \/ Quit \/ Exit \/ Start

Next == Operator \/ Drain \/ (\E s \in Slot : Upload(s)) \/ Tick \/ Process

Spec == Init /\ [][Next]_vars

\* Fairness.  The drain tick re-arms itself in the handler it wakes, a started
\* goroutine runs and ends, the event loop takes the messages sent to it, and
\* time passes.  Nothing is assumed of the operator or of crashes.
Fairness ==
    /\ SF_vars(Tick)
    /\ SF_vars(DrainTick)
    /\ WF_vars(Drain)
    /\ \A s \in Slot : SF_vars(Upload(s))

LiveSpec == Spec /\ Fairness

-----------------------------------------------------------------------------
(* Properties                                                              *)

\* No row is in two hands at once: two goroutines never send the same row,
\* and the drain never claims a row some goroutine still works on.  The lease
\* of claimDueUploads is what prevents it, against every order of ticks, late
\* answers, Ctrl+U and restarts.
NoDoubleSend ==
    /\ \A s, t \in Slot : s # t => job[s].rows \intersect job[t].rows = {}
    /\ InFlight \intersect (claimed \union batch) = {}
    /\ claimed \intersect batch = {}

\* A row no drain will ever claim again still shows its error, which is what
\* Ctrl+U selects on: no row is stuck beyond the operator's reach.
ExhaustedIsVisible ==
    \A r \in queued : attempts[r] >= MaxAttempts => r \in lastError

\* An automatic attempt goes to the account the row is bound to ("so a
\* subsequent credential change cannot silently redirect an automatic retry",
\* drainOutbox), even when credentials change while it is under way.
BoundAccount ==
    \A s \in Slot : \A r \in job[s].rows \intersect queued :
        binding[r] = job[s].cred

\* Once bound, a row changes its account only under Ctrl+U, and then only if
\* it was waiting with an error.
RebindOnlyByRetry ==
    [][\A r \in queued \intersect queued' :
           binding[r] \notin {NoCred, binding'[r]}
               => RetryFailed /\ r \in lastError]_vars

\* The outbox has no row for a contact that is not in the log (deleteQSO
\* clears both in one transaction, and no late result brings a row back).
NoOrphanRow == \A r \in queued : qso[r[1]] = "live"

\* A row is absent only for a reason: of the pairs ever queued, one whose
\* contact is still in the log is queued, held by its service, or was declined
\* by tqsl for good.
NothingLost ==
    \A r \in owed : qso[r[1]] = "live" => r \in queued \union accepted \union refused

\* An acceptance the program has seen is never forgotten by an orderly exit:
\* if the row is still queued, the goroutine that saw it is still at work
\* ("bgTasks makes shutdown wait for this closure", qrzOutboxUploadCmd).
NoResendAfterAck ==
    \A r \in acked \intersect queued :
        \E s \in Slot : r \in job[s].rows /\ job[s].phase = "ok"

\* No contact logged by the operator leaves for QRZ or WRL inside its edit
\* window (uploadBufferDelay).
EditWindow ==
    \A s \in Slot : \A r \in job[s].rows :
        r[2] \notin BatchDest => fresh[r[1]] = BufferDelay

\* upload_log says "sent" only of contacts the service really has
\* (lotwExitSentCleanly against lotwExitDelivered).
SentIsConfirmed == \A r \in Row : <<r, "sent">> \in uploadLog => r \in accepted

-----------------------------------------------------------------------------
(* The inductive invariant behind the safety properties                    *)

\* Claimed rows exist only inside the drain loop, and handlers and goroutines
\* only while the process lives.
HandlerInv ==
    /\ pc # "loop" => claimed = {} /\ batch = {}
    /\ pc # "idle" => ui = "up"
    /\ ui = "down" => \A s \in Slot : job[s].phase = "idle"

\* A goroutine lives as long as it has rows, and what it has been told is true.
JobInv ==
    \A s \in Slot :
        /\ job[s].phase = "idle" <=> job[s].rows = {}
        /\ job[s].phase = "ok" => job[s].rows \subseteq accepted
        /\ job[s].phase = "dup" => job[s].rows \subseteq refused
        /\ job[s].rows \subseteq owed

\* The lease of a row runs from its claim exactly as its goroutine ages, and
\* nobody marks the row with an error meanwhile.
LeaseInv ==
    /\ \A s \in Slot : \A r \in job[s].rows \intersect queued :
           r \notin lastError /\ wait[r] + job[s].age = Lease
    /\ \A r \in claimed \union batch :
           r \in queued /\ r \notin lastError /\ wait[r] = Lease

\* How outbox rows, goroutines and the log of contacts relate.
RowInv ==
    /\ lastError \subseteq queued
    /\ queued \subseteq owed
    /\ acked \subseteq owed
    /\ \A r \in owed : qso[r[1]] # "unused"
    /\ \A s \in Slot : \A r \in job[s].rows :
           qso[r[1]] = "live" => r \in queued

\* Rows collected for tqsl are bound to the location the model holds.
BindingInv ==
    /\ BoundAccount
    /\ \A r \in batch : binding[r] = cred[r[2]]

IInv ==
    /\ TypeOK /\ HandlerInv /\ JobInv /\ LeaseInv /\ RowInv /\ BindingInv
    /\ NoDoubleSend /\ NoOrphanRow /\ ExhaustedIsVisible
    /\ NothingLost /\ NoResendAfterAck

Deleted == {q \in Qso : qso[q] = "deleted"}
D == INSTANCE Delivery WITH pending <- queued, cancelled <- Deleted

\* The outbox keeps the promise of module Delivery.
Delivers == D!Spec

\* While the program stays up, a queued row is settled, or fails in a way the
\* operator can see: a lease never hides a row for good.
StaysUp == <>[](ui = "up")
RowsResolve ==
    StaysUp => \A r \in Row : r \in queued ~> (r \notin queued \/ r \in lastError)

\* While the program stays up, a failed row with attempts left is tried again
\* however many other rows are due (ORDER BY next_attempt_at): it is claimed,
\* settled, or exhausted.
FailedRowsRetried ==
    StaysUp => \A r \in Row :
        r \in lastError /\ attempts[r] < MaxAttempts
            ~> r \notin lastError \/ attempts[r] >= MaxAttempts
=============================================================================
