# Verification of W4GNS Logger

TLA+ models, TLC runs and TLAPS proofs for the W4GNS Logger, a terminal CW
contact logger in Go: a Bubble Tea program over one SQLite file, with background
uploads to QRZ, WRL and LoTW, a LoTW confirmation sync, a DX-cluster connection, a
companion map and contest scoring. Paths below are relative to
`src/cmd/w4gns-logger/` unless they start with `internal/`.

## 1. The system

### 1.1 Processes

* **The event loop** (`main.go`, `Update`). One goroutine takes one message at a
  time: a key, a timer tick, the result of a command. A handler may make several
  database statements; no other handler runs meanwhile.
* **Background goroutines** started by `runBgCmd` (uploads, the LoTW sync, an
  ADIF import, exports). They start at once, write to the database themselves, send one
  message when they end, and are waited for at exit (`bgTasks`).
* **Commands** of Bubble Tea (lookups, the F8 backup, cluster dial and
  read, rig poll). Their result is a message; nobody waits for them at exit.
* **HTTP connections of the map** (`internal/mapserver`), one goroutine each.
* **SQLite**, one connection (`SetMaxOpenConns(1)`), so statements and
  transactions of all goroutines are serial.

### 1.2 Components

| Component | State | Operations | Hard part | What makes it correct |
|---|---|---|---|---|
| Upload outbox (`outbox.go`, `upload_status.go`, drain in `main.go`) | `upload_outbox`, `upload_log`, credentials in the model, upload goroutines | log, delete, drain, claim, send, record, Ctrl+U, Ctrl+Y | leases against late answers, deletes under uploads, failed statements, crashes, credential changes | no contact is sent twice at once or lost, nor to another account; failures stay visible |
| LoTW sync (`lotw_query.go`, `stats_panel.go`) | `lotw_confirmation`, `lotw_sync_state`, `statsSyncing` | press "s", answer, validate, match, commit | truncated answers, edits during the sync, a result on another screen | no credit for another contact; the bookmark never passes an unstored QSL |
| Entry form and editing (`main.go`) | form fields, edit session, lookup tables, serial | type, log, edit, cancel, delete, late lookups | answers that come after the form has moved on; nested edits | a lookup fills only its own contact; edits restore the operator's contest and serial |
| Contest index (`contest_state.go`) | worked stations, multipliers, points | record, rebuild | in-place update against rebuild | both give the same index |
| Cluster and rig (`cluster.go`, `rig.go`) | connection generation, delay, spot list | dial, read, disconnect, reconnect | results of abandoned connections | at most one live reader; stale results change nothing |
| Map feed (`mapfeed_tap.go`, `geo_cache.go`, `internal/mapfeed`, `internal/mapserver`) | report store, caches, pending spots, cursors | add, evict, expire, relocate, stream | deltas against a moving store, bounded queues | each spot is shown exactly once; a page that has caught up shows the store |
| Log store (`store.go`) | `qso` and its migrations | insert, edit, delete, backfill at start | re-running, partial batches | idempotent imports and migrations |
| Import, export, backup (`adif_import.go`, `adif_export.go`, `backup.go`) | files | stream, replace, snapshot, prune | cancellation, a second run, exit during a backup | no duplicates, no torn files, retention kept |
| Rules and tables (`events.go`, `contest_validation.go`, `dxcc.go`, ...) | none | pure functions | boundaries of windows and prefixes | agree with their definition |

`PROJECT.json` lists every component with its files and status.

### 1.3 Interactions

The form logs a contact and its outbox rows in one transaction. The drain reads the
contact afresh at send time, so it shares `qso` with edits. `deleteQSO` removes
outbox rows, `updateQSO` unlinks confirmations. Station Setup changes the
credentials the drain compares and the callsign the sync asks for. An import adds
contacts but no outbox rows. The exit cancels the context of the background
goroutines, waits for them, and only then takes the backup and closes the database.

## 2. Plan

| # | Module | Contents | State |
|---|---|---|---|
| 1 | `Delivery` | what an outbox promises: at-least-once delivery | done |
| 2 | `Outbox` | the outbox, drain, upload goroutines, clock, crash, exit; implements `Delivery` | done, proved |
| 3 | `LoTWSync` | the confirmation sync against a changing log | done, proved |
| 4 | `ReportStore`, `MapStream` | the map's report store and the event stream to its pages | done, proved |
| 5 | `GeoCache`, `MapTap` | how spots reach that store: caches with reservations, pending park spots; implements the event loop of `MapStream` | done, proved |
| 6 | `EntryForm` | the form, lookups that answer late, edit sessions, contest selection and serial | done, proved |
| 7 | `LogIndex` | the contest index in place and rebuilt, the duplicate check, ADIF import in chunks | done, proved |
| 8 | `PartyScore` | the state QSO parties: credits, duplicates with SETDUPE, score, NEW MULT | done, proved |
| 9 | `ClusterFeed`, `RigPoll`, `SpotList` | the cluster connection, rig polling, the spot list | done, proved |
| 10 | `RecentList`, `Exports`, `Backup` | the recent-contacts table, exports of two instances, F8 and exit backups | done, proved |

What would add most next: the value extractors of the contests (one multiplier
kind stands for all in `LogIndex`), the occurrence dates of the catalog against a
calendar definition, migrations and backfills at start. Runs are kept few: one per question, and
machines that share no state in one run.

## 3. The outbox

### 3.1 How the model corresponds to the code

`Outbox.tla` models the handlers and goroutines in which outbox rows change.

| Action | Code |
|---|---|
| `LogQso`, `ImportQso`, `DeleteQso` | `logCurrentQSO` with `insertQSOWithUploads`; `insertQSOBatch`; `deleteQSO` |
| `EditConfig`, `SaveStationSetup` | credential files changed on disk; Station Setup, which changes the LoTW location at once |
| `RetryFailed`, `Backfill` | Ctrl+U (`retryFailedUploads`) and Ctrl+Y (`enqueueLoTWBackfill`, `recordLoTWBackfillAt`), each followed by a drain in the same handler |
| `DrainTick` | `uploadDrainMsg` |
| `Claim`, `ClaimNothing` | `claimDueUploads`, one transaction |
| `Pause`, `SkipOnFault`, `ReadFault`, `SendOne`, `Collect`, `SendBatch`, `LoopEnd` | one turn of the loop of `drainOutbox`, by its outcome, and what follows the loop |
| `Outcome` | the request, or the tqsl process, ends: accepted, declined for good, or failed as far as the program can see |
| `PersistDone`, `PersistFailure`, `PersistFault` | `markUploadDone`, `recordUploadFailure`, `logUploadEvent` in the goroutine |
| `JobPanic`, `PanicMsg` | `recover` in `runBgCmd`, and the message handler that then records the failure |
| `Tick` | time |
| `Crash`, `Quit`, `Exit`, `Start` | death at any point; the orderly exit, which waits for `bgTasks`; `main` |

A handler with several statements is several actions (`pc`), because goroutines and
crashes come between its statements; other handlers do not (`UiIdle`). A statement
of its own transaction is one action.

Decisions that deserve a word:

* `next_attempt_at` is kept as `wait`, the time left. `Overdue` bounds how far a
  row's lateness is told apart; it only limits the order among overdue rows.
* `Outcome("bad")` lets the service have taken the contact all the same: a timeout
  or a lost answer looks like a failure. Sending again is then allowed (at least
  once); sending twice *at once* is not.
* `accepted`, `refused` and `acked` are knowledge of the outside world or of the
  reader. No guard of the program reads them.
* A credential is a model value. A key, a logbook id or a tqsl location has one
  value per account; `binding` compares them as the hash does. tqsl being found or not
  is the LoTW credential being there or not, and changes only between handlers.
* One station profile. Ctrl+U and Ctrl+Y are scoped to a profile and the drain is
  not; with one profile the two agree.
* The branch of the drain for a row whose contact is gone is left out: `NoOrphanRow`
  shows that it is not reached. A drain with all slots busy waits in the model:
  `Slot` is a bound on goroutines, not a pool of the program.
* A handler takes no time and a goroutine is done within `UploadTimeout`
  (`context.WithTimeout` around the request, then one local statement per row).
  A panic message is taken before its lease ends.

### 3.2 Properties and runs

Bounds are small numbers in the code's proportions: a lease of 2 ticks over an
upload of at most 1, a drain every tick, at most 2 attempts, a backoff of 1.
`outbox_live` drains every 2 ticks: two rows then come due again before the next
batch of one, as in a queue longer than the code can send in one lease (90 rows, at 20
rows every 20 s). Without that the order of claims would not matter.

| Run | Instance | Shows |
|---|---|---|
| `outbox_single` | 2 contacts, QRZ, 2 accounts, 2 goroutines, batch of 1, 1 fault | `NoOrphanRow`, `ExhaustedIsVisible`, `BoundAccount`, `EditWindow`, `RebindOnlyByRetry` |
| `outbox_batch` | 2 contacts, LoTW, 2 accounts, 2 goroutines, batch of 2, 2 faults, Ctrl+Y with its cooldown, within `OneContactOrSimple` | `NoDoubleSend`, `NothingLost`, `NoResendAfterAck`, `SentIsConfirmed`, and `Delivers`: `Outbox` implements `Delivery` |
| `outbox_live` | 2 contacts, QRZ, 1 goroutine, batch of 1, fairness | `RowsResolve`, `FailedRowsRetried` |

Two contacts are the least for competition in a batch and for a batch answered
partly; two goroutines are the least for a double send; two accounts the least for a
redirected retry; two faults let a failed write meet a failed retry. `OneContactOrSimple`
of `MCOutbox` bounds `outbox_batch`: faults, retries and a second account come with one
contact, two contacts with none of them, since a fault or a retry concerns one row, and
what two rows share is their batch and goroutine. Contacts,
goroutines and accounts are interchangeable, hence the symmetry sets (not in
`outbox_live`, where symmetry would be unsound).

`outbox_live` assumes the fairness of the program's own parts: the tick re-arms
itself in its handler, goroutines end, the event loop takes messages, time passes.
Strong fairness of `Tick` and `DrainTick` is needed since operator actions may keep
interrupting the idle loop; a handler of the loop is never starved for ever by keys.
Nothing is assumed of operator, service or crashes, and both properties are
conditional on the program staying up from some time on.

### 3.3 Proofs (`OutboxProofs.tla`)

For any contacts, destinations, accounts and slots, and any limits with
`UploadTimeout < Lease` (the comment on `claimDueUploads` demands it; the constants
are 20 to 60 s against 90 s) and `BackoffBase <= BackoffCap`:

* `TypeCorrect`, `Safety` (the invariant `IInv`), and from it `NoDoubleSendHolds`,
  `ExhaustedIsVisibleHolds`, `NothingLostHolds`, `NoResendAfterAckHolds`,
  `BoundAccountHolds`, `NoOrphanRowHolds`, `SentIsConfirmedHolds`;
* `EditWindowHolds`, with `WindowInv` besides; `RebindOnlyByRetryHolds`, a step
  property that follows from the actions one by one;
* `Implements`: the outbox implements `Delivery`. `MapStep` maps each action to a
  step of `Delivery` or to a stutter.
* `DeliveryAccounts`: what `Delivery` promises, of whoever implements it. Each pair ever
  queued is pending, held by its service, declined for good, or of a deleted contact.

The argument. That no row is in two hands is not inductive by itself: a row under
upload could be due. `LeaseInv` says that for a row somebody works on, the time left of
its lease and the age of its goroutine add up to `Lease`. Age is at most
`UploadTimeout < Lease`, so the row is not due and `Claim` cannot take it. No other
action may shorten the wait of such a row: Ctrl+U takes only rows with an error, and
`LeaseInv` adds that rows in hand have none. `RowInv` ties goroutines to rows of live
contacts, which gives `NoOrphanRow`; `JobInv` ties what a goroutine has been told to
what is true, which gives `NothingLost` and `SentIsConfirmed`; `HandlerInv` confines
rows in hand to handlers and processes that live. `WindowInv` says that a row either has
outlasted its window, or has no error (so that Ctrl+U cannot reach it) and the age of the
contact and the wait of the row add up to at least `BufferDelay`; a row in hand has
outlasted it.

### 3.4 What the model assumes of time

The lease is written with the wall clock, while upload timeouts and the drain's timer
are monotonic. On a machine that sleeps, the lease ends and the upload does not, and
the next drain may claim a row whose upload is under way. `Outbox` has one clock, so
`NoDoubleSend` speaks of a machine that stays awake. Ctrl+Y queues contacts again that
were delivered, since their rows are deleted on delivery; tqsl then declines them as
duplicates, as the comment on `enqueueLoTWBackfill` expects.

## 4. The confirmation sync

### 4.1 How the model corresponds to the code

`LoTWSync.tla` follows one sync through its phases: asked (`lotwStatsSyncCmd` has
captured the callsign, the goroutine has loaded the bookmark and sent the query),
replied, told (result on its way to the event loop). Validation (`Complete`) and the
transaction (`Commit`, which matches every record against the log of that moment and
stores the bookmark) are one action, as they are in the code between the last byte
read and the commit. Edits, deletions and new contacts come in between. `Restart`
stands for exit and crash at any point.

A QSL record is a model value; `Rec` gives its own callsign, its worked call and band
(one value, since the code only compares both), mode and time. The tie between
candidates is the code's: mode first, then time, then the first row found.

LoTW is external: `Asked` is inclusive at the bookmark, and the header's
`APP_LoTW_LASTQSL`, where present, is the latest receipt among the records asked for.
Truncation is any subset of the records without the end marker; missing records in the
middle are noticed only by `APP_LoTW_NUMREC`, so a header without it is assumed to
come complete or cut off.

Left out: dates LoTW cannot parse (never matched), geography copied from
confirmations at start (`backfillQSOGeographyFromConfirmations`), the award queries.

### 4.2 Properties, run and proofs

`sync_core` (2 contacts, 2 QSLs one out of the other's window, 2 calls and bands, 2
modes, 2 own callsigns, LoTW clock of 2) checks `CreditIsOwn` and `NeverSkipped`. Two
clock values suffice for a QSL behind, at and past the bookmark.

`LoTWSyncProofs.tla` proves `SyncSafety`, `CreditIsOwnHolds` and `NeverSkippedHolds`
for any log, set of QSLs and window. `NeverSkipped` needs `InFlightInv`: a
sync's starting point is still the stored bookmark when it commits (one sync at a
time; nobody else writes it), and a complete reply holds every QSL from there to its
last. The cardinality argument, that a reply with the declared number of records holds
all of them, is the lemma `CompleteReply`. `LinkInv` says that a new contact cannot
inherit the link of a deleted one (ids are not reused).

### 4.3 A statement that does not hold

`claims_callsign`. The bookmark is said never to pass confirmations that were not
delivered. It is kept per profile and the query is per callsign, so a
callsign change leaves the new call's earlier QSLs behind the bookmark.
docs/LoTW_Integration_Design.md:339-340 wants the operator's whole confirmed history.
`NeverSkipped` therefore speaks of profiles that kept their callsign (`moved`).

A result that arrives while another screen is open is dropped (`Deliver`), and
`statsSyncing` then stays set until the program is started again. What is stored does
not depend on the flag.

## 5. The map

### 5.1 How the models correspond to the code

`ReportStore.tla` holds the methods of `mapfeed.Store`, each one step under its lock.
The slice is in order of `EventID`, so it is a set. A location update gives every
report it touches the next revision, even when the coordinate is the old one: the code
compares pointers, and every answer is a new one.

`MapStream.tla` adds the readers. Each browser page has one connection, a goroutine
of `events` whose turn is `Begin` (take the time, expire, copy the state),
`StreamSample` (rows and metadata under one lock), `Deliver` (write, flush, and
`stream.onmessage` in the page); `Drop` ends it, and the browser connects again with
the page as it was. In between the event loop adds, relocates and changes the
filter, and other connections expire rows. `Begin` joins the expiry with the read of
the state: a `SetState` between them would commute with the expiry. A page's row
carries the filter it was judged by, which is what `MatchesLogger` depends on.

`MapTap.tla` is the event loop in detail: `Receive` (cluster line with
`queuePendingPOTASpot`), `QRZAnswer`, `POTAAnswer`, `DrainTick`, and `AddNext` for the
single `Add` calls a handler makes, since connections read between them. `GeoCache.tla`
is the cache both lookups use; an entry is fresh or `stale` rather than dated. A
location is its source and a coordinate, and the country table, or no location, is the
value `Reference`. Whether QRZ credentials are set is left open at every spot. A
handler takes no time, so no entry passes its ttl inside one.

### 5.2 Properties and runs

| Run | Instance | Shows |
|---|---|---|
| `map_stream` | 2 pages, capacity 2, 3 revisions, 2 locations, 2 filters with one change, clock of 2, retention 1, spots up to 1 late | `PageShowsStore`, `OneFilter` |
| `map_tap` | 3 spots, 2 naming one park, 3 calls, caches of 1 (QRZ) and 2 (POTA), queue of 2, timeout 1, drain every tick | `PublishedOnce`, `BestLocation`, `Reservation`, `HeldBriefly`, `FeedsStream` |

In `map_stream` three revisions fill a store of two and evict, or move a row on
a page; late spots arrive between fresher ones, so that expiry leaves a hole in the
middle of the store, which the page must close by time and not by `OldestID`. In
`map_tap` a QRZ cache of one is always full, a POTA cache of two lets two queues
wait at once; three spots against a queue of two reach the limit, and the timeout is
no longer than the drain interval, as in the code (15 s, 20 s). With one
coordinate, `BestLocation` tells sources apart but not an answer from a later one.

`FeedsStream` is the link between the two: `MapTap` without pages implements the event
loop of `MapStream`. `map_stream` therefore need not know why a report is published
late or moves, and its result holds of the tap as well. In `FeedsStream` the steps
that leave the store alone are tested first, which changes nothing but the time TLC
takes.

### 5.3 Proofs

`MapStreamProofs.tla` proves `StreamSafety` (the invariant `IInv`),
`PageShowsStoreHolds` and `OneFilterHolds` for any pages, capacity, retention and
lateness. The argument is about `View`, the page as it will be once the packet on its
way is applied, so that one invariant covers a page before and after delivery. A page
that has been synced satisfies, against the store of any moment: every fresh row up to
its cursor is in the view (`Complete`); a fresh row of the view is in the store or
older than all of it (`NothingStale`, the eviction that `OldestID` then repeats); and a
row in both is the same row, up to its cursor (`Agrees`). The lemma `PageStutter` says
these survive whatever leaves the page alone and changes the store only as `Add`,
`Expire` and `UpdateLocations` do; `SampleStep` says that a sample brings the view
to the store.

`MapTapProofs.tla` proves every safety property of the tap for any spots, calls, parks,
capacities and times: `TapTypeCorrect`, `SpotsPublishedOnce`, `SpotsHeldBriefly`,
`ReportsBestLocated`, `ReservationHolds` and the refinement `TapFeedsStream`. The
inductive invariant is `TapInv`:

* `CachesSound`, from lemmas on the cache in `GeoCacheProofs.tla` (`SoundStart`,
  `SoundStored`, `SoundAge`): entries and reservations are disjoint and fit, so an answer
  always finds the place of its own reservation.
* `QueuesInv`: a queue of a park holds only its own spots, in the order they were received
  and none twice. `PublishedOnce` is inductive with it: a handler moves spots from one
  place to another (`ReceiveMoves`, `AddMoves`, `FlushStep`), and a drain that flushes
  several parks at once loses none, whatever order it takes them in (`FlattenSeqOK`).
* `TimeInv`: the time a spot has waited and the time to the next drain add up to less than
  the timeout and the interval, and a spot on its way to the store has not outlasted
  them. The head of a queue is its oldest spot, which is why a drain may look at heads alone.
  It needs `LookupTimeout > 0`, which `TapConstantsOK` states (15 s in the code).
* `LocatedInv`: a spot waits only for a lookup in flight; a spot to be added finds no stale
  answer. `BestLocation` then holds whichever cache answers first, or drops an entry.

`TapFeedsStream` maps each action of the tap to a step of `MapStream` or a stutter. Its
hypothesis, that `revision` stays within `MaxRevision`, is the bound on revisions that
`MapStream` has in its guards and the tap has not; the result speaks of any such bound.

## 6. The entry form

### 6.1 How the model corresponds to the code

`EntryForm.tla` has one action per handler of `Update` that touches the form.

| Action | Code |
|---|---|
| `TypeCall`, `LeaveCall` | keys in the call field; leaving it forwards (`resetDetailsForCall`, `autoFillFromQRZ`, `autoFillPOTAReference`) |
| `TogglePost`, `NewDay` | Ctrl+P; the date, which names the occurrence a contact falls in |
| `SelectEvent`, `ClearSelection` | the catalog |
| `OpenContest`, `NameContest`, `OverrideSerial` | F7, and what is typed on the contest screen: another contest name or none, another serial |
| `LeaveContest`, `TurnFromContest` | Esc and F1, which save the selection; F6, F7 and the panels, which do not |
| `Log`, `LogDupe`, `Zap` | `logCurrentQSO` for a new contact, accepted or refused as a duplicate; ZAP |
| `BeginEdit`, `CancelEdit`, `DeleteEditing`, `SaveEdit`, `DeleteRow` | an edit session, and deletes from the table beside it |
| `QRZAnswer`, `QRZError`, `POTAAnswer` | `qrzCallsignLookupMsg`, `potaLookupMsg`, at any later moment |
| `AskMap`, `MapAnswer` | `startQRZGeoLookupIfNeeded` and `qrzMapGeoMsg`, as far as they concern the session key; what the map makes of the answer is in `MapTap` |
| `SaveCredentials` | Station Setup with other QRZ credentials |
| `ImportRow`, `ImportDone` | a committed row of an import; `adifImportedMsg` |
| `Restart` | exit or crash, `initialModel`, `restoreContestSelection` |

A contact is its call, occurrence, serial and two details, one for each lookup. A
detail is named by the call it was asked for, which is what tells the right one from
another contact's. A lookup is `known` while the program's table holds it and an
`orphan` when only its goroutine is left; one of the map is `current` while its
`credGeneration` is that of the program, a number that only grows. A contest is a dated
occurrence of one event, or a name of it typed without a date (`Undated`), which is never
rolled; a blank name and one no event answers to are `General`.

`home`, `sure` and `unsaved` are history variables: `home` is the selection at the start
of the edit session, `sure` says why the serial can be trusted, and `unsaved` that
another name was typed for the operator's own selection and not saved. No guard of the
program reads them.

Serial, occurrence and edit session interact, and lookups interact with edit sessions,
but a serial never meets a lookup, nor a park's answer one of the map. The run `entry_form`
looks at six instances (`MCEntryForm`), a behaviour being of one:

* Contest operation without lookups, 1 call: two contacts over two days with nothing
  typed; one contact with names typed over two days, one of them undated; two contacts of
  one day with serials typed; two with names typed. Two serials (one where names are
  typed) make one above and one below what is stored. Two rows are the least for an edit
  begun within an edit, two days for an occurrence that rolls.
* Lookups without a contest, 2 calls, 1 row, 1 account and none: two callsign lookups
  with a park lookup, or with a lookup of the map. Two callsign lookups are the least for
  an abandoned one beside that of the form. The identity of calls and slots does not
  matter, hence the symmetry set.

### 6.2 Properties and proofs

`entry_form` checks `SerialAhead`, `SelectionSurvives`, `SelectionRestored`,
`EditCopyFresh`, `SessionKeyCurrent` and `LateAnswerMatches`.
`EntryFormProofs.tla` proves all six, and `FormTypes`, for any calls, rows, days, names,
serials, lookups and accounts:

* `EditInv`: a row open for editing equals `original`, because an answer goes to a row
  only when that row is not open (`ToRow`), and every other writer of a row either
  removes it or ends the session.
* `KeyInv`: a lookup of the form that is still known, and one of the map that is still
  current, was asked for with the credentials of now. Changing them makes all of the form
  orphans (`Abandon`) and outdates those of the map (`Outdate`), and then their keys are
  dropped (`QRZAnswer`, `TakesKey`).
* `SelInv`, for the three about the selection: what the session set aside (`pre`) is
  the selection at its start (`SetAsideOK`);
  `contest_selection` follows the operator's own contest (`SelectionSurvives`); and the
  serial of the form, or that set aside, is above every stored serial of its occurrence
  while `sure` says so (`SerialOK`). Its lemmas state what the helpers do to a serial:
  `ResumeOK`, `RaisedOK`, `RolledOK`, `AdvancedOK`. The largest stored serial exists by
  well-foundedness (`SerialMax`).

`SerialAhead` leaves out three cases that the code leaves open. The operator may type any
serial. He may type another contest's name: `updateQSOContest` then resumes no serial, and
`logCurrentQSO` does only when it rewrites a dated name, so the serial offered may be one
already sent in the contest named. And an import that ends during an edit session does not
resume the serial, nor does the end of the session (`adifImportedMsg` tests
`editingQSOID`), although README.md:138 says that an import resumes it.

`SelectionSurvives` speaks of the contest itself, up to the date that a restart rolls it
to. It leaves out a name that was typed and not saved: Esc and F1 save the contest screen,
F6, F7 and the panels leave it without (main.go:3586-3591), and a restart then brings back
the contest selected before, unless a contact was logged meanwhile.

### 6.3 A statement that does not hold

`claims_details`. The comment on `resetDetailsForCall` says that details never carry over from the
previous contact. Shift+Tab leaves the call field without it (main.go:3441), and
`logCurrentQSO` does not compare `detailsCall` with the call it logs. The run looks a
call up, types another over it, leaves the field backwards, and logs the second call
with the first one's details.

## 7. The contest index and QSO parties

`LogIndex.tla` keeps the log and, beside it, the index as the code does: `Record` is
`contestState.record`, `Built` folds it over the log from the earliest contact to the
`Latest` (`forEachQSOForContest` orders by time and id),
`Rebuilt` may fail and then leaves the index stale or absent. `LogContact` records in
place; every other change of the log, of the selected contest or of the station
rebuilds. `Dupe` is `isDupe` with the three scopes of the catalog, the SETDUPE baseline
and the ten-minute window of general logging. `ImportStarts`, `ImportChunk` and
`ImportReported` are an ADIF import: chunks are committed one by one between the
handlers, a chunk may fail or be cancelled, and the index is rebuilt only when the
message arrives.

The multiplier kinds of the code are a call's own (`unique_call`), one derived from the call
(`prefix`) and one received (`exchange`); each `per` of the catalog is looked at. Points
depend on the station, which Station Setup can change, and on the exchange. Bounds of
the index in `scoring`: 2 calls, 2 bands, 2 sessions of one event, 2 stations, files of 2 records in
chunks of 1, 3 contacts, 4 operations altogether. Three contacts are the least for two of
one station and one between them; chunks of 1 let an import fail half way. `Band` holds the
bands of the event: `logCurrentQSO` refuses others (main.go:2311), and an event that weighs
bands weighs all of its own, each with a positive bonus (`contestcalendar.json`), which
`IndexConstantsOK` states. An imported contact on a band outside the event is left out.

* `IndexCredits`: an index that claims to be of the log agrees with `Credited`, which is
  defined from the rule and not from the order of the log. In POST mode a contact may be
  logged after one with a later time. It is then credited in logging order until the
  next rebuild (main.go:2510-2514), which the property leaves out by `Chronological`.
* `FlagComesTrue`: NEW MULT is shown exactly when the count of the rule then rises, and
  the points rise by those of the contact.
* `ImportedOnce`: a file imported again, after a failure too, adds nothing twice.

`PartyScore.tla` is `qso_party_rules.go`: county lines give a credit for each pair, and
the duplicate check, the score and the NEW MULT flag each derive theirs from the log.
Contacts are logged, edited (checked against all others), flagged and deleted; SETDUPE makes
the duplicate check ignore what has an earlier time (`before`), which a contact logged in
POST mode may have, too. `FlagsAgree` relates the three over five rules that cover the
variants of the code (by band or overall, capped, with a mobile's operated counties, from
outside and inside, special event). After a SETDUPE a contact may be let in whose credits the
score has already; that is the one way for it to add none, and the property says so. A cap,
operated counties and special events are left out of the equivalence with NEW MULT, since
there the code's flag looks only at credits.

The run `scoring` (`MCScoring`) looks at the index or at a party, which share no state. The
party has 2 contacts ever logged, 1 call, 2 bands, 2 counties and 2
places outside; two contacts are the least for one that repeats another before or after a
SETDUPE, and two counties for a line. Of contacts without credits one of a kind is enough
(`Telling`). Bands are interchangeable, hence the symmetry set.

### 7.1 Proofs

`LogIndexProofs.tla` proves `ImportedOnceHolds`, `IndexCreditsHolds` and `FlagHolds`, for
any logs, calls, bands, contests, stations, rules, weights and import files. They rest on
`IndexInvariant`:

* `IndexTypes` with `LogOK`: the log is finite, and every contact has a number of its own
  below the next one.
* `Once`, which is `ImportedOnce`. A chunk is a fold of `Stored` over its records; `Grown` is
  what holds of the log after each of them, `StoredKeeps` its step.
* `IndexTrue`. `IndexCredits` alone is not inductive: a contact that is recorded in place must
  be compared with what the index has met, also when that was out of order. So a reliable
  index, in whatever order it met the contacts, has seen each of them (`Seen`), and when their
  times were in order it credits those the rule credits (`Counts`). `RecordSeen` and
  `RecordCounts` say that one more contact keeps both, the second because a contact that comes
  last takes no credit from an earlier one. A rebuild is the same step repeated (`BuiltOK`),
  and a contact logged in place is it once (`LogContactKeeps`).

`FlagHolds` compares two states. Points are a sum over a set and a weighted multiplier is
one, so the proof needs that a sum does not depend on the order the fold takes
(`SumWithout`) and grows by its new summand (`SumGrows`); the other counts are
cardinalities (`MoreIsGreater`). That a credit is not in the sum already is part of
`WellFormed`, which holds of a stale index too.

The folds of the community modules are functions given by `CHOOSE`, and that such a function
exists has to be shown first (`FoldExists`, and from it `SumExists`, `IndexExists`,
`ImportExists`). The library's induction theorems cannot be used, their parameter being an
operator; in their place `SubsetInduction` takes a set of good subsets and looks at a
smallest one that is not in it.

`StationProofs.tla` proves `FlagsAgreeHolds` for any rules, counties and places. Its
invariant, `PartyInv`, says that the contacts and their credits are finitely many
(`PartyConstantsOK` assumes it of the counties, a list in the code) and the next id free; the
rest is that
the credits and multipliers of a larger log contain those of the smaller one
(`CountingMonotone`), so that a count rises exactly when something is new.

Two things met while modelling and not claimed as findings. README.md:87 and
docs/QSO_Entry_Design.md:26 speak of a 15-minute window where `dupeWindow` is ten minutes. And a
rebuild that fails when `checkDupe` switches the contest is not tried again until the
next switch or change of the log; the panel says so.

## 8. The machines of the station

Six machines share no state with one another. `MCStation` composes them: a behaviour
runs one and leaves the others at rest, so that TLC visits the sum of their states.

| Module | Code | Bounds | Properties |
|---|---|---|---|
| `ClusterFeed` | `cluster.go`, connection messages, F3, F6, Station Setup | 3 links at once, 2 callsigns, 3 operator actions | `OneFeed`, `FeedRecovers` |
| `SpotList` | spots, filters, scrolling | 2 stations, 2 bands, window 2, list of 3, view of 2, clock of 4 | `ListInForce` |
| `RigPoll` | `rig.go`, `rigTickMsg`, `rigStatusMsg` | 2 addresses, 2 polls and 2 ticks at once | `OneChain` |
| `RecentList` | the table, history of a call, "d" and "d" | 2 calls, 2 rows, 3 contacts | `DeletesNamed` |
| `Exports` | exports, `reserveExportPath`, `replaceFileAtomic` | 2 instances, 2 exports, 1 contest, 2 names, 1 change | `ExportsStay` |
| `Backup` | `backup.go`, F8, exit | retention 2, 3 backups, 2 commits | `PairsAgree`, `ExitBackupComplete` |

Generations are booleans: a link, a poll or a tick is `current` or stale, and raising
the generation makes all stale. The code compares numbers that only grow, so a stale one
never becomes current again. Three links are the least for a stale dial, a stale reader and
the current one together.

Any message that nothing else takes goes to the focused input, and in the Call field
the duplicate check runs again, also when the table has the focus (main.go:3522-3538).
`Blink` of `RecentList` is that: the list under the cursor may be replaced between "d"
and "d". The delete is armed by id, which is why `DeletesNamed` holds. `KeyBeforeTable` is
a key that `Update` takes before the table sees it (main.go:3244-3351), such as F8 or Ctrl+U:
it leaves the arming in place. `prompt` is a history variable: the contact that the prompt in
force names, until a key of the form or the table, and whether another key was pressed since.

`FeedFairness` is weak fairness of each goroutine's next step and of the event loop's
handlers, which the scheduler and the channel of messages give. Strong fairness of
`DialAnswered` is the one assumption on the network: a node that is dialed for ever
answers once. Nothing is assumed of the operator. Reading lines needs no fairness.

In `Backup`, F8 and the exit take turns by `backupMu`, in either order: an F8 backup that does
not hold the mutex yet may run after the exit's. Then one more pair of files is there than
the exit's pruning left, which is why `ExitBackupComplete` speaks of the retention only
when no name was handed out later. The context of the exit backup (120 s)
starts before it waits for the mutex, so a slow F8 backup can use it up; the model has
this as a failed exit backup, which the property excludes and the program reports.

### 8.1 A statement that does not hold

`claims_delete`. The prompt of the first "d" says that any other key cancels
(main.go:2271). "d", F8, "d" deletes: F8, Ctrl+U, Ctrl+Y, Ctrl+X, Ctrl+O, Ctrl+R and Ctrl+P
are handled before the table and leave `deleteArmedID` set, while F8 and others replace the
prompt by a message of their own. The contact deleted is the one named (`DeletesNamed`).

### 8.2 Proofs (`StationProofs.tla`)

`OneFeedHolds`, `OneChainHolds`, `ListInForceHolds`, `DeletesNamedHolds`,
`ExportsStayHolds`, `PairsAgreeHolds`, `ExitBackupCompleteHolds` and `FlagsAgreeHolds`
(section 7.1), each for its machine alone and for any
constants. A behaviour of `MCStation` is one of a machine's specification, or leaves its
variables at their initial values.

* `OneFeed` and `OneChain` are inductive with the types. The lemmas say what staling, dialing
  and ending a link or a poll do to the others.
* `ListInForce` is inductive with the types. An arrival goes in front and may push the last
  spot out (`ArrivalKeeps`). `KeptSpots` is the loop of `pruneClusterSpots`; that a pruned list
  is a part of the old one in the same order (`Within`) is proved of each prefix
  (`KeptExists`, `PrunedOK`), and order, window and the rule against duplicates go over to it.
* `DeletesNamed` needs that a contact is armed only in the focused table, and is the one
  the prompt in force names: a key of the form or the table that withdraws the prompt also
  disarms, and keys before the table and messages disarm or leave both as they are.
* `ExportsStay` needs that a path with an ADIF export under way is reserved by it and by
  no other (`OwnReservation`), so that neither publication nor removal meets a finished file, and
  that an instance has one export of a kind at a time, each of a version no older than what it
  has published (`NoneOlder`).
* `PairsAgree`: whoever works holds the mutex and the newest name, and all files under a name
  are of one version.
* `ExitBackupComplete`: from the exit's snapshot on nothing is committed, so every file as
  new as that snapshot holds the whole log. Of each kind uploaded there is always one such
  file, since pruning deletes a file only while another as new remains
  (`DoomedIsNotLast`, by counting); and a kind with nothing left to delete is within
  the retention (`NoneDoomed`).

## 9. What is only model-checked

* Liveness is out of the prover's reach: `RowsResolve`, `FailedRowsRetried`, `FeedRecovers`.
  Every other property that a passing run checks is a theorem.
* The three claims are refuted by counterexamples.

## 10. What is not modelled

* Exchange validation (`contest_validation.go` and its tables): text checks without state.
* Award statistics: queries that change nothing.
* Grid, heading, band plan, DXCC and IOTA tables: pure, and partly floating point.
* Solar data, terminal and window size, the county table generator.
* Migrations and backfills at start; the value extractors of the contests; the dates in
  the catalog; the rendering of screens.
* A second process on the same database (`--upload-lotw`, a second logger), several
  profiles, SQLite's own durability, formats of files and requests.

`PROJECT.json` lists each component with its status and, under `hazards`, what is
covered and what is not, with the reason.

## 11. Running

    tlc -workers 2 -config outbox_single.cfg MCOutbox
    tlapm OutboxProofs.tla

`PROJECT.json` names the module and configuration of each run. The largest runs,
`outbox_batch`, `entry_form` and `map_stream`, visit one to four million states and take
two or three minutes on two workers; the larger proof modules take some minutes each from nothing.
