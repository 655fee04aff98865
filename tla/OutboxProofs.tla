---------------------------- MODULE OutboxProofs ----------------------------
(***************************************************************************)
(* Proofs about Outbox, for any number of contacts, destinations, accounts *)
(* and goroutines and for any delays with UploadTimeout < Lease.           *)
(***************************************************************************)
EXTENDS Outbox, TLAPS

\* The retry delay of recordUploadFailure is a whole number of time units.
LEMMA BackoffType == ASSUME NEW n \in Nat PROVE Backoff(n) \in Nat
<1> DEFINE doubled == BackoffBase * 2^(n - 1)
<1>1. CASE n >= MaxAttempts
  BY <1>1, ConstantsOK DEF Backoff
<1>2. CASE ~(n >= MaxAttempts)
  <2>1. Backoff(n) = IF doubled \in BackoffBase..BackoffCap THEN doubled ELSE BackoffCap
    BY <1>2 DEF Backoff
  <2> HIDE DEF doubled
  <2>2. QED BY <2>1, ConstantsOK
<1>3. QED BY <1>1, <1>2

\* The variables of every state have the types of TypeOK.
THEOREM TypeCorrect == Spec => []TypeOK
<1>1. Init => TypeOK
  BY ConstantsOK DEF Init, TypeOK, Account, Job, Idle, Phase
<1>2. TypeOK /\ [Next]_vars => TypeOK'
  <2> SUFFICES ASSUME TypeOK, [Next]_vars PROVE TypeOK'
    OBVIOUS
  <2> USE ConstantsOK
  <2>1. ASSUME NEW q \in Qso, LogQso(q) PROVE TypeOK'
    BY <2>1 DEF LogQso, Enqueue, RowsOf, TypeOK, Row, Account, outbox, handler, remote
  <2>2. ASSUME NEW q \in Qso, ImportQso(q) PROVE TypeOK'
    BY <2>2 DEF ImportQso, TypeOK, outbox, handler, remote
  <2>3. ASSUME NEW q \in Qso, DeleteQso(q) PROVE TypeOK'
    BY <2>3 DEF DeleteQso, Remove, TypeOK, Account, handler, remote
  <2>4. ASSUME NEW d \in Dest, NEW c \in Account, EditConfig(d, c) PROVE TypeOK'
    BY <2>4 DEF EditConfig, TypeOK, outbox, handler, remote
  <2>5. ASSUME NEW d \in Dest, NEW c \in Account, SaveStationSetup(d, c) PROVE TypeOK'
    BY <2>5 DEF SaveStationSetup, TypeOK, outbox, handler, remote
  <2>6. CASE RetryFailed
    BY <2>6 DEF RetryFailed, Retriable, Fault, TypeOK, Row, outbox, handler, remote
  <2>7. ASSUME NEW d \in Dest, Backfill(d) PROVE TypeOK'
    BY <2>7 DEF Backfill, Enqueue, Fault, TypeOK, Row, Account, outbox, handler, remote
  <2>8. CASE DrainTick
    BY <2>8 DEF DrainTick, TypeOK, outbox, handler, remote
  <2>9. ASSUME NEW C \in SUBSET Due, Claim(C) PROVE TypeOK'
    BY <2>9 DEF Claim, LeaseRows, Due, TypeOK, outbox, handler, remote
  <2>10. CASE ClaimNothing
    BY <2>10 DEF ClaimNothing, Fault, TypeOK, outbox, handler, remote
  <2>11. ASSUME NEW r \in claimed, Pause(r) PROVE TypeOK'
    BY <2>11 DEF Pause, TakeUp, TypeOK, outbox, handler, remote
  <2>12. ASSUME NEW r \in claimed, SkipOnFault(r) PROVE TypeOK'
    BY <2>12 DEF SkipOnFault, TakeUp, Fault, TypeOK, outbox, handler, remote
  <2>13. ASSUME NEW r \in Row, RecordFailure(r)
         PROVE  /\ queued' = queued
                /\ attempts' \in [Row -> Nat]
                /\ wait' \in [Row -> Int]
                /\ lastError' \subseteq Row
    <3>1. CASE r \in queued
      <4>1. attempts[r] + 1 \in Nat
        BY DEF TypeOK
      <4>2. Backoff(attempts[r] + 1) \in Int
        BY <4>1, BackoffType
      <4>3. QED BY <2>13, <3>1, <4>1, <4>2 DEF RecordFailure, TypeOK
    <3>2. CASE r \notin queued
      BY <2>13, <3>2 DEF RecordFailure, TypeOK
    <3>3. QED BY <3>1, <3>2
  <2>14. ASSUME NEW r \in claimed, ReadFault(r) PROVE TypeOK'
    <3>1. r \in Row
      BY DEF TypeOK
    <3>2. RecordFailure(r)
      BY <2>14 DEF ReadFault
    <3>3. /\ attempts' \in [Row -> Nat] /\ wait' \in [Row -> Int]
          /\ lastError' \subseteq Row
      BY <3>1, <3>2, <2>13
    <3>4. cred[r[2]] \in Account
      BY <3>1 DEF TypeOK, Row
    <3>5. binding' \in [Row -> Account] /\ faults' \in 0..MaxFaults
      BY <2>14, <3>1, <3>4 DEF ReadFault, Bind, Fault, TypeOK
    <3>6. QED BY <2>14, <3>3, <3>5 DEF ReadFault, TakeUp, TypeOK, handler, remote
  <2>15. ASSUME NEW r \in claimed, NEW s \in Slot, SendOne(r, s) PROVE TypeOK'
    <3>1. r \in Row /\ cred[r[2]] \in Account
      BY DEF TypeOK, Row
    <3>2. job' \in [Slot -> Job]
      BY <2>15, <3>1 DEF SendOne, Dispatch, Job, Phase, TypeOK
    <3>3. QED BY <2>15, <3>1, <3>2 DEF SendOne, TakeUp, Bind, TypeOK, handler, remote
  <2>16. ASSUME NEW r \in claimed, Collect(r) PROVE TypeOK'
    <3>1. r \in Row /\ cred[r[2]] \in Account
      BY DEF TypeOK, Row
    <3>2. QED BY <2>16, <3>1 DEF Collect, TakeUp, Bind, TypeOK, handler, remote
  <2>17. ASSUME NEW s \in Slot, NEW d \in Dest, SendBatch(s, d) PROVE TypeOK'
    <3>1. job' \in [Slot -> Job]
      BY <2>17 DEF SendBatch, Dispatch, Job, Phase, TypeOK
    <3>2. QED BY <2>17, <3>1 DEF SendBatch, TypeOK, outbox, handler, remote
  <2>18. CASE LoopEnd
    BY <2>18 DEF LoopEnd, TypeOK, outbox, handler, remote
  <2>19. ASSUME NEW s \in Slot, NEW phase \in {"ok", "dup", "bad"}, Outcome(s, phase)
         PROVE TypeOK'
    <3>1. job' \in [Slot -> Job] /\ job[s].rows \subseteq Row
      BY <2>19 DEF Outcome, Job, Phase, TypeOK
    <3>2. QED BY <2>19, <3>1 DEF Outcome, TypeOK, outbox, handler, remote
  <2>20. ASSUME NEW s \in Slot, JobPanic(s) PROVE TypeOK'
    <3>1. job' \in [Slot -> Job]
      BY <2>20 DEF JobPanic, Job, Phase, TypeOK
    <3>2. QED BY <2>20, <3>1 DEF JobPanic, Fault, TypeOK, outbox, handler, remote
  <2>21. ASSUME NEW s \in Slot, NEW r \in job[s].rows, Finish(s, r)
         PROVE r \in Row /\ job' \in [Slot -> Job]
    <3> DEFINE rest == job[s].rows \ {r}
    <3>1. job[s] \in Job /\ job \in [Slot -> Job] /\ r \in Row
      BY DEF TypeOK, Job
    <3>2. Idle \in Job /\ [job[s] EXCEPT !.rows = rest] \in Job
      BY <3>1 DEF Idle, Job, Phase, Account
    <3>3. job' = [job EXCEPT ![s] = IF rest = {} THEN Idle
                                    ELSE [job[s] EXCEPT !.rows = rest]]
      BY <2>21 DEF Finish
    <3> HIDE DEF rest
    <3>4. QED BY <3>1, <3>2, <3>3
  <2>22. ASSUME NEW s \in Slot, NEW r \in job[s].rows, PersistDone(s, r) PROVE TypeOK'
    <3>1. r \in Row /\ job' \in [Slot -> Job]
      BY <2>22, <2>21 DEF PersistDone, Terminal
    <3>2. QED BY <2>22, <3>1 DEF PersistDone, Terminal, LogEvent, Remove, Fault, Status, Account, TypeOK, handler, remote
  <2>23. ASSUME NEW s \in Slot, NEW r \in job[s].rows, PersistFailure(s, r) PROVE TypeOK'
    <3>1. r \in Row /\ job' \in [Slot -> Job]
      BY <2>23, <2>21 DEF PersistFailure
    <3>2. QED BY <2>23, <3>1, <2>13 DEF PersistFailure, TypeOK, handler, remote
  <2>24. ASSUME NEW s \in Slot, NEW r \in job[s].rows, PersistFault(s, r) PROVE TypeOK'
    <3>1. r \in Row /\ job' \in [Slot -> Job]
      BY <2>24, <2>21 DEF PersistFault
    <3>2. QED BY <2>24, <3>1 DEF PersistFault, LogEvent, Status, Fault, TypeOK, outbox, handler, remote
  <2>25. ASSUME NEW s \in Slot, NEW r \in job[s].rows, PanicMsg(s, r) PROVE TypeOK'
    <3>1. r \in Row /\ job' \in [Slot -> Job]
      BY <2>25, <2>21 DEF PanicMsg
    <3>2. QED BY <2>25, <3>1, <2>13 DEF PanicMsg, TypeOK, handler, remote
  <2>26. CASE Tick
    <3>1. job' \in [Slot -> Job]
      BY <2>26 DEF Tick, Busy, Job, TypeOK
    <3>2. wait' \in [Row -> Int] /\ fresh' \in [Qso -> 0..BufferDelay]
      BY <2>26 DEF Tick, TypeOK
    <3>3. timer' \in 0..DrainInterval /\ cooldown' \in 0..Cooldown
      BY <2>26 DEF Tick, TypeOK
    <3>4. QED BY <2>26, <3>1, <3>2, <3>3 DEF Tick, TypeOK, handler, remote
  <2>27. CASE Crash
    <3>1. job' \in [Slot -> Job] /\ accepted' \subseteq Row
      BY <2>27 DEF Crash, Idle, Job, Phase, Account, TypeOK
    <3>2. QED BY <2>27, <3>1 DEF Crash, TypeOK, outbox, handler, remote
  <2>28. CASE Quit
    BY <2>28 DEF Quit, TypeOK, outbox, handler, remote
  <2>29. CASE Exit
    BY <2>29 DEF Exit, TasksDone, Idle, Job, Phase, Account, TypeOK, outbox, handler, remote
  <2>30. CASE Start
    BY <2>30 DEF Start, TypeOK, outbox, handler, remote
  <2>31. CASE UNCHANGED vars
    BY <2>31 DEF vars, TypeOK, outbox, handler, remote
  <2>32. QED
    BY <2>1, <2>2, <2>3, <2>4, <2>5, <2>6, <2>7, <2>8, <2>9, <2>10, <2>11, <2>12,
       <2>14, <2>15, <2>16, <2>17, <2>18, <2>19, <2>20, <2>22, <2>23, <2>24,
       <2>25, <2>26, <2>27, <2>28, <2>29, <2>30, <2>31
       DEF Next, Operator, Drain, Upload, Process
<1>3. QED BY <1>1, <1>2, PTL DEF Spec

-----------------------------------------------------------------------------
(* Safety.  SafeInv is the part of IInv beyond types; the lease argument is  *)
(* in LeaseInv: the time left of a row's lease and the age of the goroutine  *)
(* that sends it always add up to Lease, and a goroutine's age stays below   *)
(* it, so a row somebody works on is never due.                              *)

SafeInv ==
    /\ HandlerInv /\ JobInv /\ LeaseInv /\ RowInv /\ BindingInv
    /\ NoDoubleSend /\ NoOrphanRow /\ ExhaustedIsVisible
    /\ NothingLost /\ NoResendAfterAck

\* The initial states satisfy the invariant: nothing is queued or under way.
LEMMA SafeInit == Init => SafeInv
BY DEF Init, SafeInv, HandlerInv, JobInv, LeaseInv, RowInv, BindingInv,
       NoDoubleSend, NoOrphanRow, ExhaustedIsVisible, NothingLost,
       NoResendAfterAck, BoundAccount, InFlight, Idle

\* Every step of the system keeps the invariant, one case per action.
LEMMA SafeStep ==
    ASSUME TypeOK, TypeOK', SafeInv, [Next]_vars
    PROVE  SafeInv'
<1> USE ConstantsOK, LeaseExceedsTimeout
        DEF SafeInv, HandlerInv, JobInv, LeaseInv, RowInv, BindingInv,
            NoDoubleSend, NoOrphanRow, ExhaustedIsVisible, NothingLost,
            NoResendAfterAck, BoundAccount, InFlight,
            TypeOK, Job, Row, outbox, handler, remote
<1>1. ASSUME NEW q \in Qso, LogQso(q) PROVE SafeInv'
  <2>1. HandlerInv'
    BY <1>1 DEF LogQso, Enqueue, RowsOf, UiIdle
  <2>2. JobInv'
    BY <1>1 DEF LogQso, Enqueue, RowsOf, UiIdle
  <2>3. LeaseInv'
    BY <1>1 DEF LogQso, Enqueue, RowsOf, UiIdle
  <2>4. RowInv'
    BY <1>1 DEF LogQso, Enqueue, RowsOf, UiIdle
  <2>5. BindingInv'
    BY <1>1 DEF LogQso, Enqueue, RowsOf, UiIdle
  <2>6. NoDoubleSend'
    BY <1>1 DEF LogQso, Enqueue, RowsOf, UiIdle
  <2>7. NoOrphanRow'
    BY <1>1 DEF LogQso, Enqueue, RowsOf, UiIdle
  <2>8. ExhaustedIsVisible'
    BY <1>1 DEF LogQso, Enqueue, RowsOf, UiIdle
  <2>9. NothingLost'
    BY <1>1 DEF LogQso, Enqueue, RowsOf, UiIdle
  <2>10. NoResendAfterAck'
    BY <1>1 DEF LogQso, Enqueue, RowsOf, UiIdle
  <2>11. QED BY <2>1, <2>2, <2>3, <2>4, <2>5, <2>6, <2>7, <2>8, <2>9, <2>10
<1>2. ASSUME NEW q \in Qso, ImportQso(q) PROVE SafeInv'
  BY <1>2 DEF ImportQso
<1>3. ASSUME NEW q \in Qso, DeleteQso(q) PROVE SafeInv'
  <2>1. HandlerInv'
    BY <1>3 DEF DeleteQso, Remove, RowsOf, UiIdle
  <2>2. JobInv'
    BY <1>3 DEF DeleteQso, Remove, RowsOf, UiIdle
  <2>3. LeaseInv'
    BY <1>3 DEF DeleteQso, Remove, RowsOf, UiIdle
  <2>4. RowInv'
    BY <1>3 DEF DeleteQso, Remove, RowsOf, UiIdle
  <2>5. BindingInv'
    BY <1>3 DEF DeleteQso, Remove, RowsOf, UiIdle
  <2>6. NoDoubleSend'
    BY <1>3 DEF DeleteQso, Remove, RowsOf, UiIdle
  <2>7. NoOrphanRow'
    BY <1>3 DEF DeleteQso, Remove, RowsOf, UiIdle
  <2>8. ExhaustedIsVisible'
    BY <1>3 DEF DeleteQso, Remove, RowsOf, UiIdle
  <2>9. NothingLost'
    BY <1>3 DEF DeleteQso, Remove, RowsOf, UiIdle
  <2>10. NoResendAfterAck'
    BY <1>3 DEF DeleteQso, Remove, RowsOf, UiIdle
  <2>11. QED BY <2>1, <2>2, <2>3, <2>4, <2>5, <2>6, <2>7, <2>8, <2>9, <2>10
<1>4. ASSUME NEW d \in Dest, NEW c \in Account, EditConfig(d, c) PROVE SafeInv'
  BY <1>4 DEF EditConfig
<1>5. ASSUME NEW d \in Dest, NEW c \in Account, SaveStationSetup(d, c) PROVE SafeInv'
  BY <1>5 DEF SaveStationSetup, UiIdle
<1>6. CASE RetryFailed
  BY <1>6 DEF RetryFailed, Retriable, Fault, UiIdle
<1>7. ASSUME NEW d \in Dest, Backfill(d) PROVE SafeInv'
  <2>1. HandlerInv'
    BY <1>7 DEF Backfill, Enqueue, Fault, UiIdle
  <2>2. JobInv'
    BY <1>7 DEF Backfill, Enqueue, Fault, UiIdle
  <2>3. LeaseInv'
    BY <1>7 DEF Backfill, Enqueue, Fault, UiIdle
  <2>4. RowInv'
    BY <1>7 DEF Backfill, Enqueue, Fault, UiIdle
  <2>5. BindingInv'
    BY <1>7 DEF Backfill, Enqueue, Fault, UiIdle
  <2>6. NoDoubleSend'
    BY <1>7 DEF Backfill, Enqueue, Fault, UiIdle
  <2>7. NoOrphanRow'
    BY <1>7 DEF Backfill, Enqueue, Fault, UiIdle
  <2>8. ExhaustedIsVisible'
    BY <1>7 DEF Backfill, Enqueue, Fault, UiIdle
  <2>9. NothingLost'
    BY <1>7 DEF Backfill, Enqueue, Fault, UiIdle
  <2>10. NoResendAfterAck'
    BY <1>7 DEF Backfill, Enqueue, Fault, UiIdle
  <2>11. QED BY <2>1, <2>2, <2>3, <2>4, <2>5, <2>6, <2>7, <2>8, <2>9, <2>10
<1>8. CASE DrainTick
  BY <1>8 DEF DrainTick, UiIdle
<1>9. ASSUME NEW C \in SUBSET Due, Claim(C) PROVE SafeInv'
  BY <1>9 DEF Claim, LeaseRows, Due
<1>10. CASE ClaimNothing
  BY <1>10 DEF ClaimNothing
<1>11. ASSUME NEW r \in claimed, Pause(r) PROVE SafeInv'
  BY <1>11 DEF Pause, TakeUp
<1>12. ASSUME NEW r \in claimed, SkipOnFault(r) PROVE SafeInv'
  BY <1>12 DEF SkipOnFault, TakeUp, Fault
<1>13. ASSUME NEW r \in claimed, ReadFault(r) PROVE SafeInv'
  BY <1>13 DEF ReadFault, TakeUp, Fault, Bind, MaySend, RecordFailure
<1>14. ASSUME NEW r \in claimed, NEW s \in Slot, SendOne(r, s) PROVE SafeInv'
  BY <1>14 DEF SendOne, TakeUp, MaySend, Bind, Dispatch, Busy
<1>15. ASSUME NEW r \in claimed, Collect(r) PROVE SafeInv'
  BY <1>15 DEF Collect, TakeUp, MaySend, Bind
<1>16. ASSUME NEW s \in Slot, NEW d \in Dest, SendBatch(s, d) PROVE SafeInv'
  BY <1>16 DEF SendBatch, Dispatch, Busy
<1>17. CASE LoopEnd
  BY <1>17 DEF LoopEnd
<1>18. ASSUME NEW s \in Slot, NEW phase \in {"ok", "dup", "bad"}, Outcome(s, phase) PROVE SafeInv'
  BY <1>18 DEF Outcome
<1>19. ASSUME NEW s \in Slot, JobPanic(s) PROVE SafeInv'
  BY <1>19 DEF JobPanic, Fault
<1>20. ASSUME NEW s \in Slot, NEW r \in job[s].rows, PersistDone(s, r) PROVE SafeInv'
  BY <1>20 DEF PersistDone, Terminal, LogEvent, Remove, Finish, Idle, Fault
<1>21. ASSUME NEW s \in Slot, NEW r \in job[s].rows, PersistFailure(s, r) PROVE SafeInv'
  BY <1>21 DEF PersistFailure, RecordFailure, Finish, Idle
<1>22. ASSUME NEW s \in Slot, NEW r \in job[s].rows, PersistFault(s, r) PROVE SafeInv'
  BY <1>22 DEF PersistFault, LogEvent, Finish, Idle, Fault
<1>23. ASSUME NEW s \in Slot, NEW r \in job[s].rows, PanicMsg(s, r) PROVE SafeInv'
  BY <1>23 DEF PanicMsg, RecordFailure, Finish, Idle, UiIdle
<1>24. CASE Tick
  <2>1. LeaseInv'
    <3>1. ASSUME NEW s \in Slot, NEW r \in job'[s].rows \intersect queued'
          PROVE  r \notin lastError' /\ wait'[r] + job'[s].age = Lease
      <4>1. s \in Busy /\ r \in job[s].rows \intersect queued
        BY <1>24, <3>1 DEF Tick, Busy
      <4>2. r \notin lastError /\ wait[r] + job[s].age = Lease
        BY <4>1
      <4>3. job[s].age \in Nat /\ wait[r] \in Int /\ r \in Row /\ job[s].age < UploadTimeout
        BY <1>24, <4>1 DEF Tick
      <4>4. wait[r] > -Overdue
        BY <4>2, <4>3
      <4>5. wait'[r] = wait[r] - 1
        BY <1>24, <4>1, <4>3, <4>4 DEF Tick
      <4>6. job'[s].age = job[s].age + 1
        BY <1>24, <4>1 DEF Tick
      <4>7. QED BY <1>24, <4>2, <4>3, <4>5, <4>6 DEF Tick
    <3>2. claimed' \union batch' = {}
      BY <1>24 DEF Tick
    <3>3. QED BY <3>1, <3>2 DEF LeaseInv
  <2>2. HandlerInv' /\ JobInv' /\ RowInv' /\ BindingInv'
    BY <1>24 DEF Tick, Busy
  <2>3. NoDoubleSend' /\ NoOrphanRow' /\ ExhaustedIsVisible'
    BY <1>24 DEF Tick, Busy
  <2>4. NothingLost' /\ NoResendAfterAck'
    BY <1>24 DEF Tick, Busy
  <2>5. QED BY <2>1, <2>2, <2>3, <2>4
<1>25. CASE Crash
  BY <1>25 DEF Crash, Idle
<1>26. CASE Quit
  BY <1>26 DEF Quit, UiIdle
<1>27. CASE Exit
  BY <1>27 DEF Exit, TasksDone, Busy, Idle
<1>28. CASE Start
  BY <1>28 DEF Start
<1>29. CASE UNCHANGED vars
  BY <1>29 DEF vars
<1> HIDE DEF SafeInv, TypeOK
<1> QED
  BY <1>1, <1>2, <1>3, <1>4, <1>5, <1>6, <1>7, <1>8, <1>9, <1>10, <1>11,
     <1>12, <1>13, <1>14, <1>15, <1>16, <1>17, <1>18, <1>19, <1>20, <1>21,
     <1>22, <1>23, <1>24, <1>25, <1>26, <1>27, <1>28, <1>29
     DEF Next, Operator, Drain, Upload, Process

\* The inductive invariant holds in every reachable state.
THEOREM Safety == Spec => []IInv
<1>1. TypeOK /\ TypeOK' /\ SafeInv /\ [Next]_vars => SafeInv'
  BY SafeStep
<1>2. TypeOK /\ SafeInv => IInv
  BY DEF SafeInv, IInv
<1>3. QED BY <1>1, <1>2, SafeInit, TypeCorrect, PTL DEF Spec

\* No row is ever sent by two goroutines at once, nor claimed while one still
\* works on it (claimDueUploads).
THEOREM NoDoubleSendHolds == Spec => []NoDoubleSend
<1>1. IInv => NoDoubleSend
  BY DEF IInv
<1>2. QED BY <1>1, Safety, PTL

\* A row out of automatic attempts always shows the error Ctrl+U selects on
\* (recordUploadFailure, retryFailedUploads).
THEOREM ExhaustedIsVisibleHolds == Spec => []ExhaustedIsVisible
<1>1. IInv => ExhaustedIsVisible
  BY DEF IInv
<1>2. QED BY <1>1, Safety, PTL

\* Every pair ever queued whose contact is still logged is queued, delivered
\* or declined for good: through crashes, failed writes and deletions.
THEOREM NothingLostHolds == Spec => []NothingLost
<1>1. IInv => NothingLost
  BY DEF IInv
<1>2. QED BY <1>1, Safety, PTL

\* An orderly exit keeps every acceptance the program has seen.
THEOREM NoResendAfterAckHolds == Spec => []NoResendAfterAck
<1>1. IInv => NoResendAfterAck
  BY DEF IInv
<1>2. QED BY <1>1, Safety, PTL

\* An attempt under way goes to the account its row is bound to (drainOutbox).
THEOREM BoundAccountHolds == Spec => []BoundAccount
<1>1. IInv => BoundAccount
  BY DEF IInv, BindingInv
<1>2. QED BY <1>1, Safety, PTL

\* The outbox has no row for a contact that is not in the log: deleting one
\* takes its rows along, and no late result brings one back (deleteQSO).
THEOREM NoOrphanRowHolds == Spec => []NoOrphanRow
<1>1. IInv => NoOrphanRow
  BY DEF IInv
<1>2. QED BY <1>1, Safety, PTL

\* upload_log says "sent" only of contacts the service has, for any number of
\* goroutines and crashes (lotwExitSentCleanly).
THEOREM SentIsConfirmedHolds == Spec => []SentIsConfirmed
<1>1. Init => SentIsConfirmed
  BY DEF Init, SentIsConfirmed
<1>2. IInv /\ SentIsConfirmed /\ [Next]_vars => SentIsConfirmed'
  <2> SUFFICES ASSUME IInv, SentIsConfirmed, [Next]_vars PROVE SentIsConfirmed'
    OBVIOUS
  <2>1. accepted \subseteq accepted'
    BY DEF Next, Operator, Drain, Upload, Process, vars, remote, LogQso, ImportQso, DeleteQso, EditConfig,
           SaveStationSetup, RetryFailed, Backfill, DrainTick, Claim, ClaimNothing, Pause, SkipOnFault,
           ReadFault, SendOne, Collect, TakeUp, SendBatch, LoopEnd, Outcome, JobPanic, PersistDone,
           PersistFailure, PersistFault, PanicMsg, Tick, Crash, Quit, Exit, Start
  <2>2. CASE uploadLog' = uploadLog
    BY <2>1, <2>2 DEF SentIsConfirmed
  <2>3. ASSUME NEW s \in Slot, NEW r \in job[s].rows, LogEvent(s, r) PROVE SentIsConfirmed'
    <3>1. job[s].phase = "ok" => r \in accepted
      BY DEF IInv, JobInv
    <3> QED
      BY <2>1, <2>3, <3>1 DEF LogEvent, SentIsConfirmed
  <2> QED
    BY <2>2, <2>3
       DEF Next, Operator, Drain, Upload, Process, vars, LogQso, ImportQso, DeleteQso, EditConfig,
           SaveStationSetup, RetryFailed, Backfill, DrainTick, Claim, ClaimNothing, Pause, SkipOnFault,
           ReadFault, SendOne, Collect, TakeUp, SendBatch, LoopEnd, Outcome, JobPanic, PersistDone,
           PersistFailure, PersistFault, PanicMsg, Tick, Crash, Quit, Exit, Start
<1>3. QED BY <1>1, <1>2, Safety, PTL DEF Spec

\* A contact past its edit window, for the destinations that wait for it.
Waited(r) == r[2] \in BatchDest \/ fresh[r[1]] = BufferDelay

\* A row that its contact's window still covers has not been touched, and is
\* due no earlier than the window ends.
WindowInv ==
    /\ \A r \in queued : Waited(r) \/ (r \notin lastError /\ wait[r] + fresh[r[1]] >= BufferDelay)
    /\ \A r \in claimed : Waited(r)
    /\ EditWindow

LEMMA WindowStep ==
    ASSUME IInv, WindowInv, [Next]_vars
    PROVE  WindowInv'
<1> USE ConstantsOK DEF Waited, WindowInv, EditWindow, outbox, handler, remote
<1>0. /\ TypeOK /\ JobInv /\ RowInv
      /\ \A r \in Row : r[1] \in Qso /\ r[2] \in Dest
  BY DEF IInv, Row
<1>1. /\ \A r \in queued \union claimed : r \in Row
      /\ \A r \in Row : wait[r] \in Int /\ fresh[r[1]] \in 0..BufferDelay
      /\ \A s \in Slot : job[s].rows \subseteq Row
  BY <1>0 DEF TypeOK, Job
<1>2. CASE UNCHANGED <<queued, lastError, wait, claimed, fresh, job>>
  BY <1>2
<1>3. ASSUME NEW q \in Qso, LogQso(q) PROVE WindowInv'
  <2>1. \A r \in queued \union claimed : r[1] # q
    BY <1>0, <1>3 DEF LogQso, UiIdle, RowInv, IInv, HandlerInv
  <2>2. \A s \in Slot : \A r \in job[s].rows : r[1] # q
    BY <1>0, <1>3 DEF LogQso, JobInv, RowInv
  <2>3. /\ \A r \in Row : r[1] # q => fresh'[r[1]] = fresh[r[1]]
        /\ fresh'[q] = 0
    BY <1>0, <1>3 DEF LogQso, TypeOK
  <2>4. /\ lastError' \subseteq lastError
        /\ \A r \in queued : wait'[r] = wait[r]
        /\ \A r \in queued' \ queued : r[1] = q /\ wait'[r] = BufferDelay /\ r \notin lastError'
        /\ claimed' = claimed /\ job' = job
    BY <1>0, <1>1, <1>3 DEF LogQso, Enqueue, RowsOf, Row
  <2>5. \A r \in queued' : Waited(r)' \/ (r \notin lastError' /\ wait'[r] + fresh'[r[1]] >= BufferDelay')
    <3> SUFFICES ASSUME NEW r \in queued'
                 PROVE  Waited(r)' \/ (r \notin lastError' /\ wait'[r] + fresh'[r[1]] >= BufferDelay)
      OBVIOUS
    <3>1. CASE r \in queued
      BY <1>1, <2>1, <2>3, <2>4, <3>1
    <3>2. CASE r \notin queued
      BY <2>3, <2>4, <3>2
    <3> QED
      BY <3>1, <3>2
  <2> QED
    BY <1>1, <2>1, <2>2, <2>3, <2>4, <2>5
<1>4. ASSUME NEW q \in Qso, DeleteQso(q) PROVE WindowInv'
  BY <1>1, <1>4 DEF DeleteQso, Remove, RowsOf
<1>5. CASE RetryFailed
  BY <1>0, <1>1, <1>5 DEF RetryFailed, Retriable, RowInv
<1>6. ASSUME NEW d \in Dest, Backfill(d) PROVE WindowInv'
  BY <1>1, <1>6 DEF Backfill, Enqueue, Row
<1>7. ASSUME NEW C \in SUBSET Due, Claim(C) PROVE WindowInv'
  BY <1>1, <1>7 DEF Claim, LeaseRows, Due
<1>8. ASSUME NEW r \in Row, RecordFailure(r) \/ UNCHANGED <<queued, attempts, wait, lastError>>,
             Waited(r), claimed' \subseteq claimed, UNCHANGED fresh,
             \A s \in Slot : job'[s].rows \subseteq job[s].rows
      PROVE  WindowInv'
  <2>1. /\ queued' = queued /\ lastError' \subseteq lastError \union {r}
        /\ \A x \in Row \ {r} : wait'[x] = wait[x]
    BY <1>0, <1>8 DEF RecordFailure, TypeOK
  <2>2. \A x \in queued : Waited(x)' \/ (x \notin lastError' /\ wait'[x] + fresh'[x[1]] >= BufferDelay')
    BY <1>1, <1>8, <2>1
  <2> QED
    BY <1>1, <1>8, <2>1, <2>2
<1>9. ASSUME NEW s \in Slot, NEW r, Finish(s, r) PROVE \A t \in Slot : job'[t].rows \subseteq job[t].rows
  BY <1>0, <1>9 DEF Finish, Idle, TypeOK, Job
<1>10. ASSUME NEW r \in claimed, Pause(r) PROVE WindowInv'
  BY <1>1, <1>10 DEF Pause, TakeUp
<1>11. ASSUME NEW r \in claimed, SkipOnFault(r) \/ Collect(r) PROVE WindowInv'
  BY <1>1, <1>11 DEF SkipOnFault, Collect, TakeUp
<1>12. ASSUME NEW r \in claimed, ReadFault(r) PROVE WindowInv'
  BY <1>1, <1>8, <1>12 DEF ReadFault, TakeUp
<1>13. ASSUME NEW r \in claimed, NEW s \in Slot, SendOne(r, s) PROVE WindowInv'
  BY <1>0, <1>1, <1>13 DEF SendOne, TakeUp, Dispatch, TypeOK, Job
<1>14. ASSUME NEW s \in Slot, NEW d \in Dest, SendBatch(s, d) PROVE WindowInv'
  BY <1>0, <1>1, <1>14 DEF SendBatch, Dispatch, TypeOK, Job
<1>15. ASSUME NEW s \in Slot, (\E phase \in {"ok", "dup", "bad"} : Outcome(s, phase)) \/ JobPanic(s)
       PROVE  WindowInv'
  <2>1. /\ UNCHANGED <<queued, lastError, wait, claimed, fresh>>
        /\ \A t \in Slot : job'[t].rows = job[t].rows
    BY <1>0, <1>15 DEF Outcome, JobPanic, TypeOK, Job
  <2> QED
    BY <1>1, <2>1
<1>16. ASSUME NEW s \in Slot, NEW r \in job[s].rows, PersistDone(s, r) PROVE WindowInv'
  <2>1. /\ UNCHANGED <<claimed, fresh>> /\ queued' \subseteq queued /\ lastError' \subseteq lastError
        /\ \A x \in queued' : wait'[x] = wait[x]
        /\ \A t \in Slot : job'[t].rows \subseteq job[t].rows
    BY <1>1, <1>9, <1>16 DEF PersistDone, Remove
  <2> QED
    BY <1>1, <2>1
<1>17. ASSUME NEW s \in Slot, NEW r \in job[s].rows, PersistFailure(s, r) PROVE WindowInv'
  BY <1>1, <1>8, <1>9, <1>17 DEF PersistFailure
<1>18. ASSUME NEW s \in Slot, NEW r \in job[s].rows, PersistFault(s, r) PROVE WindowInv'
  BY <1>1, <1>9, <1>18 DEF PersistFault
<1>19. ASSUME NEW s \in Slot, NEW r \in job[s].rows, PanicMsg(s, r) PROVE WindowInv'
  BY <1>1, <1>8, <1>9, <1>19 DEF PanicMsg
<1>20. CASE Tick
  <2>1. /\ UNCHANGED <<queued, lastError, claimed>>
        /\ \A x \in Row : wait'[x] \in {wait[x], wait[x] - 1}
        /\ \A q \in Qso : fresh'[q] = IF fresh[q] < BufferDelay THEN fresh[q] + 1 ELSE fresh[q]
        /\ \A t \in Slot : job'[t].rows = job[t].rows
    BY <1>0, <1>1, <1>20 DEF Tick, TypeOK, Job
  <2>2. \A r \in Row : Waited(r) => Waited(r)'
    BY <1>0, <1>1, <2>1
  <2>3. \A r \in queued : Waited(r)' \/ (r \notin lastError' /\ wait'[r] + fresh'[r[1]] >= BufferDelay')
    BY <1>0, <1>1, <2>1, <2>2
  <2> QED
    BY <1>1, <2>1, <2>2, <2>3
<1>21. CASE Crash \/ Exit
  BY <1>1, <1>21 DEF Crash, Exit, Idle
<1> HIDE DEF WindowInv
<1> QED
  BY <1>2, <1>3, <1>4, <1>5, <1>6, <1>7, <1>10, <1>11, <1>12, <1>13, <1>14, <1>15, <1>16, <1>17,
     <1>18, <1>19, <1>20, <1>21
     DEF Next, Operator, Drain, Upload, Process, vars, ImportQso, EditConfig, SaveStationSetup,
         DrainTick, ClaimNothing, LoopEnd, Quit, Start

\* No contact logged by the operator leaves for QRZ or WRL inside its edit
\* window, for any delays and whatever fails or is retried meanwhile
\* (uploadBufferDelay).
THEOREM EditWindowHolds == Spec => []EditWindow
<1>1. Init => WindowInv
  BY DEF Init, WindowInv, EditWindow, Idle
<1>2. WindowInv => EditWindow
  BY DEF WindowInv
<1>3. QED BY <1>1, <1>2, WindowStep, Safety, PTL DEF Spec

\* Only Ctrl+U moves a queued row to another account, and only a row that
\* shows an error (retryFailedUploads).
THEOREM RebindOnlyByRetryHolds == Spec => RebindOnlyByRetry
<1>1. IInv /\ [Next]_vars =>
        [\A r \in queued \intersect queued' :
             binding[r] \notin {NoCred, binding'[r]} => RetryFailed /\ r \in lastError]_vars
  <2> SUFFICES ASSUME IInv, Next, NEW r \in queued \intersect queued',
                      binding[r] \notin {NoCred, binding'[r]}
               PROVE  RetryFailed /\ r \in lastError
    OBVIOUS
  <2>0. r \in Row /\ binding \in [Row -> Account]
    BY DEF IInv, TypeOK
  <2>1. binding' # binding
    OBVIOUS
  <2>2. CASE RetryFailed
    BY <2>0, <2>2 DEF RetryFailed, Retriable
  <2>3. ASSUME NEW S, NEW delay, NEW new, Enqueue(S, delay, new) PROVE FALSE
    BY <2>0, <2>3 DEF Enqueue
  <2>4. ASSUME NEW S, Remove(S) PROVE FALSE
    BY <2>0, <2>4 DEF Remove
  <2>5. ASSUME NEW x, Bind(x) PROVE FALSE
    BY <2>0, <2>5 DEF Bind
  <2> QED
    BY <2>1, <2>2, <2>3, <2>4, <2>5
       DEF Next, Operator, Drain, Upload, Process, outbox, LogQso, ImportQso, DeleteQso, EditConfig,
           SaveStationSetup, Backfill, DrainTick, Claim, ClaimNothing, Pause, SkipOnFault,
           ReadFault, SendOne, Collect, TakeUp, SendBatch, LoopEnd, Outcome, JobPanic, PersistDone,
           PersistFailure, PersistFault, PanicMsg, Tick, Crash, Quit, Exit, Start
<1>2. QED BY <1>1, Safety, PTL DEF Spec, RebindOnlyByRetry

-----------------------------------------------------------------------------
(* Refinement.  The outbox implements Delivery under the mapping that keeps  *)
(* owed, accepted and refused, reads pending as the queued rows, cancelled *)
(* as the deleted contacts.                                                  *)

\* Every step of the outbox is a step of Delivery or changes nothing it sees.
LEMMA MapStep ==
    ASSUME TypeOK, TypeOK', IInv, [Next]_vars
    PROVE  [D!Next]_(D!vars)
<1> USE DEF D!vars, outbox, handler, remote, Deleted
<1>1. D!Row = Row
  BY DEF D!Row, Row
<1>2. ASSUME NEW S \in SUBSET Row, D!Promise(S) PROVE D!Next
  BY <1>1, <1>2 DEF D!Next
<1>3. ASSUME NEW A \in SUBSET owed, NEW R \in SUBSET owed, D!Remote(A, R)
      PROVE  D!Next
  BY <1>3 DEF D!Next
<1>4. ASSUME NEW q \in Qso, LogQso(q) PROVE [D!Next]_(D!vars)
  <2> DEFINE S == {r \in RowsOf(q) : cred[r[2]] # NoCred}
  <2>1. S \in SUBSET Row
    BY DEF RowsOf, Row
  <2>2. Deleted' = Deleted
    BY <1>4 DEF LogQso, TypeOK
  <2>3. \A r \in S : r[1] \notin Deleted
    BY <1>4 DEF LogQso, RowsOf
  <2>4. D!Promise(S)
    BY <1>4, <2>2, <2>3 DEF LogQso, Enqueue, D!Promise
  <2>5. QED BY <1>2, <2>1, <2>4
<1>5. ASSUME NEW q \in Qso, ImportQso(q) PROVE [D!Next]_(D!vars)
  BY <1>5 DEF ImportQso, TypeOK
<1>6. ASSUME NEW q \in Qso, DeleteQso(q) PROVE [D!Next]_(D!vars)
  <2>1. q \notin Deleted /\ Deleted' = Deleted \union {q}
    BY <1>6 DEF DeleteQso, TypeOK
  <2>2. D!Cancel(q)
    BY <1>6, <2>1 DEF DeleteQso, Remove, RowsOf, D!Cancel
  <2>3. QED BY <2>2 DEF D!Next
<1>7. ASSUME NEW d \in Dest, NEW c \in Account, EditConfig(d, c)
       PROVE [D!Next]_(D!vars)
  BY <1>7 DEF EditConfig
<1>8. ASSUME NEW d \in Dest, NEW c \in Account, SaveStationSetup(d, c)
       PROVE [D!Next]_(D!vars)
  BY <1>8 DEF SaveStationSetup
<1>9. CASE RetryFailed
  BY <1>9 DEF RetryFailed
<1>10. ASSUME NEW d \in Dest, Backfill(d) PROVE [D!Next]_(D!vars)
  <2> DEFINE S == {r \in Row : r[2] = d /\ qso[r[1]] = "live"}
  <2>1. D!Promise(S)
    BY <1>10 DEF Backfill, Enqueue, D!Promise
  <2>2. QED BY <1>2, <2>1
<1>11. CASE DrainTick
  BY <1>11 DEF DrainTick
<1>12. ASSUME NEW C \in SUBSET Due, Claim(C) PROVE [D!Next]_(D!vars)
  BY <1>12 DEF Claim, LeaseRows
<1>13. CASE ClaimNothing
  BY <1>13 DEF ClaimNothing
<1>14. ASSUME NEW r \in claimed, Pause(r) PROVE [D!Next]_(D!vars)
  BY <1>14 DEF Pause, TakeUp
<1>15. ASSUME NEW r \in claimed, SkipOnFault(r) PROVE [D!Next]_(D!vars)
  BY <1>15 DEF SkipOnFault, TakeUp
<1>16. ASSUME NEW r \in claimed, ReadFault(r) PROVE [D!Next]_(D!vars)
  BY <1>16 DEF ReadFault, TakeUp, RecordFailure
<1>17. ASSUME NEW r \in claimed, NEW s \in Slot, SendOne(r, s)
       PROVE [D!Next]_(D!vars)
  BY <1>17 DEF SendOne, TakeUp
<1>18. ASSUME NEW r \in claimed, Collect(r) PROVE [D!Next]_(D!vars)
  BY <1>18 DEF Collect, TakeUp
<1>19. ASSUME NEW s \in Slot, NEW d \in Dest, SendBatch(s, d)
       PROVE [D!Next]_(D!vars)
  BY <1>19 DEF SendBatch
<1>20. CASE LoopEnd
  BY <1>20 DEF LoopEnd
<1>21. ASSUME NEW s \in Slot, NEW phase \in {"ok", "dup", "bad"}, Outcome(s, phase)
       PROVE [D!Next]_(D!vars)
  <2>1. PICK A \in SUBSET job[s].rows : accepted' = accepted \union A
    BY <1>21 DEF Outcome
  <2> DEFINE R == IF phase = "dup" THEN job[s].rows ELSE {}
  <2>2. job[s].rows \subseteq owed
    BY DEF IInv, JobInv
  <2>3. D!Remote(A, R)
    BY <1>21, <2>1 DEF Outcome, D!Remote
  <2>4. QED BY <1>3, <2>2, <2>3
<1>22. ASSUME NEW s \in Slot, JobPanic(s) PROVE [D!Next]_(D!vars)
  BY <1>22 DEF JobPanic
<1>23. ASSUME NEW s \in Slot, NEW r \in job[s].rows, PersistDone(s, r)
       PROVE [D!Next]_(D!vars)
  <2>1. r \in accepted \union refused
    BY <1>23 DEF PersistDone, Terminal, IInv, JobInv
  <2>2. CASE r \in queued
    <3>1. D!Settle(r)
      BY <1>23, <2>1 DEF PersistDone, Terminal, Remove, D!Settle
    <3>2. QED BY <2>2, <3>1 DEF D!Next
  <2>3. CASE r \notin queued
    BY <1>23, <2>3 DEF PersistDone, Terminal, Remove
  <2>4. QED BY <2>2, <2>3
<1>24. ASSUME NEW s \in Slot, NEW r \in job[s].rows, PersistFailure(s, r)
       PROVE [D!Next]_(D!vars)
  BY <1>24 DEF PersistFailure, RecordFailure
<1>25. ASSUME NEW s \in Slot, NEW r \in job[s].rows, PersistFault(s, r)
       PROVE [D!Next]_(D!vars)
  BY <1>25 DEF PersistFault
<1>26. ASSUME NEW s \in Slot, NEW r \in job[s].rows, PanicMsg(s, r)
       PROVE [D!Next]_(D!vars)
  BY <1>26 DEF PanicMsg, RecordFailure
<1>27. CASE Tick
  BY <1>27 DEF Tick
<1>28. CASE Crash
  <2> DEFINE Sent == UNION {job[s].rows : s \in {t \in Slot : job[t].phase = "sending"}}
  <2>1. PICK A \in SUBSET Sent : accepted' = accepted \union A
    BY <1>28 DEF Crash
  <2>2. A \in SUBSET owed
    BY DEF IInv, JobInv
  <2>3. D!Remote(A, {})
    BY <1>28, <2>1 DEF Crash, D!Remote
  <2>4. QED BY <1>3, <2>2, <2>3
<1>29. CASE Quit
  BY <1>29 DEF Quit
<1>30. CASE Exit
  BY <1>30 DEF Exit, TasksDone
<1>31. CASE Start
  BY <1>31 DEF Start
<1>32. CASE UNCHANGED vars
  BY <1>32 DEF vars
<1> QED
  BY <1>4, <1>5, <1>6, <1>7, <1>8, <1>9, <1>10, <1>11, <1>12, <1>13, <1>14,
     <1>15, <1>16, <1>17, <1>18, <1>19, <1>20, <1>21, <1>22, <1>23, <1>24,
     <1>25, <1>26, <1>27, <1>28, <1>29, <1>30, <1>31, <1>32
     DEF Next, Operator, Drain, Upload, Process

\* The outbox keeps Delivery's promise: a pair stops being pending only when
\* its service has it, tqsl has declined it, or its contact was deleted.
THEOREM Implements == Spec => Delivers
<1>1. Init => D!Init
  BY DEF Init, D!Init, Deleted
<1>2. TypeOK /\ TypeOK' /\ IInv /\ [Next]_vars => [D!Next]_(D!vars)
  BY MapStep
<1>3. QED BY <1>1, <1>2, TypeCorrect, Safety, PTL DEF Spec, Delivers, D!Spec

\* Of the pairs ever promised, none is unaccounted for.
Accounted ==
    /\ queued \union accepted \union refused \subseteq owed
    /\ \A r \in owed : r[1] \notin Deleted => r \in queued \union accepted \union refused

\* What Delivery promises, whoever implements it: a pair that is not pending is
\* held by its service, declined for good, or of a deleted contact; and nothing
\* arrives that was not asked for (enqueueUploadTx, markUploadDone).
THEOREM DeliveryAccounts == Delivers => []Accounted
<1>1. D!Init => Accounted
  BY DEF D!Init, Accounted
<1>2. ASSUME Accounted, [D!Next]_(D!vars)
      PROVE  Accounted'
  <2>1. ASSUME NEW S \in SUBSET D!Row, D!Promise(S) PROVE Accounted'
    BY <1>2, <2>1 DEF D!Promise, Accounted
  <2>2. ASSUME NEW A \in SUBSET owed, NEW R \in SUBSET owed, D!Remote(A, R) PROVE Accounted'
    BY <1>2, <2>2 DEF D!Remote, Accounted
  <2>3. ASSUME NEW r \in queued, D!Settle(r) PROVE Accounted'
    BY <1>2, <2>3 DEF D!Settle, Accounted
  <2>4. ASSUME NEW q \in Qso, D!Cancel(q) PROVE Accounted'
    BY <1>2, <2>4 DEF D!Cancel, Accounted
  <2>5. CASE UNCHANGED D!vars
    BY <1>2, <2>5 DEF D!vars, Accounted
  <2> QED
    BY <1>2, <2>1, <2>2, <2>3, <2>4, <2>5 DEF D!Next
<1> QED
  BY <1>1, <1>2, PTL DEF Delivers, D!Spec
=============================================================================
