------------------------------ MODULE LogIndex ------------------------------
(***************************************************************************)
(* The contest index (contest_state.go, main.go): what has been worked and *)
(* what it counts for, kept in memory beside the log.  A contact logged is *)
(* recorded in place; every other change of the log, of the contest        *)
(* selected or of the station rebuilds the index from the log, and a       *)
(* rebuild may fail.  Contacts are logged live or, in POST mode, at times  *)
(* past, gated by the dupe check of the event; an ADIF import commits its  *)
(* chunks in the background meanwhile.                                     *)
(***************************************************************************)
EXTENDS Integers, SequencesExt

CONSTANTS
    Call,
    Band,               \* the bands of the event
    Exch, NoExch,       \* received exchanges; NoExch has no multiplier in it
    Contest,            \* the sessions of one event, in one occurrence
    NoContest,
    Scope,              \* the event's dupe scopes to look at
    Prefix,             \* the multiplier that a call stands for
    Tier,               \* points by station and received exchange
    Station,
    Weight,             \* waeBandBonus; an event weighs all of its bands
    DupeWindow,         \* dupeWindow
    ImportFiles,        \* ADIF files, as sequences of records
    Chunk,              \* importBatchSize
    PaperTime,          \* bound: the times past that POST mode is used for
    MaxRows,            \* bound: contacts ever stored
    MaxEvents           \* bound: those, and what else the operator does

\* Index 0 of the log's times is before the session.
Times == 0..MaxEvents

ImportRecord == [call : Call, band : Band, exch : Exch \union {NoExch},
                 contest : Contest \union {NoContest}, time : Times, unscored : BOOLEAN]

ASSUME IndexConstantsOK ==
    /\ NoContest \notin Contest /\ NoExch \notin Exch
    /\ Scope \subseteq {"call", "call+band", "call+band+session"}
    /\ {DupeWindow, MaxRows, MaxEvents} \union PaperTime \subseteq Nat /\ Chunk \in Nat \ {0}
    /\ Tier \in [Station -> [Exch \union {NoExch} -> Nat]]
    /\ Weight \in [Band -> Nat \ {0}]
    /\ \A file \in ImportFiles : file \in Seq(ImportRecord)

VARIABLES
    rows,       \* the log
    nextId,     \* AUTOINCREMENT: ids are not reused
    now,        \* the clock; a live contact takes a tick
    scope,      \* dupe_scope
    contest,    \* the contest selected
    station,    \* what activeStation gives the point rules
    index,      \* contestIndex, contestIndexID and contestIndexError
    baseline,   \* dupeBaselineAfter
    editing,    \* the row being edited, as it was read, and the contest before
    importing,  \* the records still to import; the import may have failed
    meddled

indexVars == <<rows, nextId, now, scope, contest, station, index, baseline,
               editing, importing, meddled>>

Row == [id : 1..MaxRows, call : Call, band : Band, exch : Exch \union {NoExch},
        contest : Contest \union {NoContest}, time : Times, unscored : BOOLEAN,
        from : {"live", "import"}]
NotEditing == [id |-> 0]
NoImport == [step |-> "none", left |-> <<>>]
-----------------------------------------------------------------------------
(* The index: contestState. *)

\* newContestState
Empty == [worked |-> {}, scored |-> {}, calls |-> {}, values |-> {},
          points |-> {}, times |-> <<>>]

Key(q) == <<q.call, q.band>>

\* The multiplier values of a contact: by its call and by its exchange.
Values(q) ==
    {<<"prefix", q.band, Prefix[q.call]>>} \union
       (IF q.exch = NoExch THEN {} ELSE {<<"exchange", q.band, q.exch>>})

\* Only the first eligible contact contributes points and multipliers.
Duplicate(x, q) == IF scope = "call" THEN q.call \in x.calls ELSE Key(q) \in x.scored

\* record
Record(x, q, s) ==
    LET seen == [x EXCEPT !.worked = @ \union {Key(q)}, !.times = Append(@, q.time)] IN
    IF q.unscored \/ Duplicate(x, q) THEN seen
    ELSE [seen EXCEPT !.scored = @ \union {Key(q)},
                      !.calls = @ \union {q.call},
                      !.values = @ \union Values(q),
                      !.points = @ \union {<<Key(q), Tier[s][q.exch]>>}]

\* forEachQSOForContest: the earliest contact first, the latest last
Before(p, q) == p.time < q.time \/ (p.time = q.time /\ p.id < q.id)
Latest(contacts) == CHOOSE q \in contacts : \A p \in contacts \ {q} : Before(p, q)

\* buildContestState
Built(log, c, s) ==
    MapThenFoldSet(LAMBDA q, x : Record(x, q, s), Empty, LAMBDA q : q, Latest,
                   {q \in log : q.contest = c})

NoIndex == [of |-> NoContest, there |-> FALSE, fresh |-> TRUE, state |-> Empty]

\* rebuildContestIndex, when the log can be read and when it cannot.
Rebuilt(log, c, s) ==
    IF c = NoContest THEN {NoIndex}
    ELSE {[of |-> c, there |-> TRUE, fresh |-> TRUE, state |-> Built(log, c, s)],
          IF index.of = c THEN [index EXCEPT !.fresh = FALSE]
          ELSE [of |-> c, there |-> FALSE, fresh |-> FALSE, state |-> Empty]}

\* checkDupe rebuilds the index when another contest has been selected.
Synced(log, c, s) == IF c = index.of THEN {index} ELSE Rebuilt(log, c, s)

\* pointsTotal: each call and band that counts, at the tier of its contact
PointsTotal(x) == MapThenSumSet(LAMBDA p : p[2], x.points)

Rule == [kind : {"unique_call", "prefix", "exchange"},
         per : {"band", "contest", "band_weighted"}]

\* multiplierCount
MultiplierCount(x, rule) ==
    LET got == {v \in x.values : v[1] = rule.kind} IN
    IF rule.kind = "unique_call" THEN Cardinality(x.calls)
    ELSE IF rule.per = "contest" THEN Cardinality({v[3] : v \in got})
    ELSE IF rule.per = "band" THEN Cardinality(got)
    ELSE MapThenSumSet(LAMBDA v : Weight[v[2]], got)

\* Mutant: a value worked on any band is no longer new on this one.
WouldBeNewAnywhere(x, rule, q) ==
    IF rule.kind = "unique_call" THEN q.call \notin x.calls
    ELSE \E v \in Values(q) : v[1] = rule.kind /\ ~\E w \in x.values : w[1] = v[1] /\ w[3] = v[3]

\* wouldBeNewMultiplier, for one rule
WouldBeNew(x, rule, q) ==
    IF rule.kind = "unique_call" THEN q.call \notin x.calls
    ELSE \E v \in Values(q) :
            /\ v[1] = rule.kind
            /\ ~\E w \in x.values :
                   w[1] = v[1] /\ w[3] = v[3] /\ (rule.per = "contest" \/ w[2] = v[2])
-----------------------------------------------------------------------------
(* The dupe check. *)

\* isDupe.  Of sessions of one event only the session scope tells one from
\* another; without a contest the last minutes count, wherever they were.
Dupe(call, band, c, at, except) ==
    \E q \in rows :
        /\ q.call = call /\ q.id # except
        /\ q.time >= baseline
        /\ IF c = NoContest THEN q.band = band /\ q.time \in at - DupeWindow..at
           ELSE /\ q.contest # NoContest
                /\ scope # "call" => q.band = band
                /\ scope = "call+band+session" => q.contest = c
-----------------------------------------------------------------------------
IndexInit ==
    /\ rows = {} /\ nextId = 1 /\ now = 0
    /\ scope \in Scope
    /\ station \in Station
    \* restoreContestSelection
    /\ contest \in Contest \union {NoContest}
    /\ index = IF contest = NoContest THEN NoIndex
               ELSE [of |-> contest, there |-> TRUE, fresh |-> TRUE, state |-> Empty]
    /\ baseline = 0
    /\ editing = NotEditing
    /\ importing = NoImport
    /\ meddled = 0

\* n more contacts are within the bounds.
Room(n) == nextId + n <= MaxRows + 1 /\ nextId - 1 + n + meddled <= MaxEvents

Meddle == nextId + meddled <= MaxEvents /\ meddled' = meddled + 1

\* Mutant: the contact is not recorded in place.
NotInPlace(q) == index

\* "Incremental update instead of a full rebuild"
InPlace(q) ==
    IF index.there /\ q.contest = index.of
    THEN [index EXCEPT !.state = Record(@, q, station)]
    ELSE index

\* logCurrentQSO for a new contact: live, or in POST mode at a time past
LogContact(call, band, exch, at) ==
    /\ editing = NotEditing /\ Room(1)
    /\ at = now + 1 \/ (at \in PaperTime /\ at <= now)
    /\ ~Dupe(call, band, contest, at, 0)
    /\ LET q == [id |-> nextId, call |-> call, band |-> band, exch |-> exch,
                 contest |-> contest, time |-> at, unscored |-> FALSE, from |-> "live"] IN
       /\ rows' = rows \union {q}
       /\ index' = InPlace(q)
    /\ nextId' = nextId + 1
    /\ now' = IF at > now THEN at ELSE now
    /\ UNCHANGED <<scope, contest, station, baseline, editing, importing, meddled>>

\* A contest is selected, which ends SETDUPE, or it is typed or its occurrence
\* rolls, which does not (selectEvent, checkDupe, resolveOccurrenceForNow).
Select(c) ==
    /\ c # contest \/ baseline # 0
    /\ Meddle
    /\ contest' = c
    /\ index' \in Synced(rows, c, station)
    /\ baseline' \in {0, baseline}
    /\ UNCHANGED <<rows, nextId, now, scope, station, editing, importing>>

\* SETDUPE
SetDupe ==
    /\ editing = NotEditing /\ Meddle
    /\ baseline' = now + 1
    /\ now' = now + 1
    /\ UNCHANGED <<rows, nextId, scope, contest, station, index, editing, importing>>

\* saveStationSetup with another call, grid or category
SaveStation(s) ==
    /\ s # station /\ Meddle
    /\ station' = s
    /\ index' \in Rebuilt(rows, contest, s)
    /\ UNCHANGED <<rows, nextId, now, scope, contest, baseline, editing, importing>>

\* beginEditQSO, also from one edit into the next: the contest of the row is
\* selected, and the one before the first is kept.
BeginEdit(q) ==
    /\ Meddle
    /\ editing' = [id |-> q.id, row |-> q,
                   before |-> IF editing = NotEditing THEN contest ELSE editing.before]
    /\ contest' = q.contest
    /\ index' \in Rebuilt(rows, q.contest, station)
    /\ UNCHANGED <<rows, nextId, now, scope, station, baseline, importing>>

\* The edit ends: the contest before it is selected again.
EndEdit(log) ==
    /\ rows' = log
    /\ contest' = editing.before
    /\ editing' = NotEditing
    /\ index' \in Rebuilt(log, editing.before, station)
    /\ UNCHANGED <<nextId, now, scope, station, baseline, importing, meddled>>

Held(id) == {q \in rows : q.id = id}

\* logCurrentQSO for an edit; updateQSO keeps time and the unscored flag, and
\* fails when the row is gone.
SaveEdit(call, band, exch) ==
    /\ editing # NotEditing
    /\ ~Dupe(call, band, contest, editing.row.time, editing.id)
    /\ Held(editing.id) # {}
    /\ EndEdit({IF q.id # editing.id THEN q
                ELSE [q EXCEPT !.call = call, !.band = band, !.exch = exch,
                               !.contest = contest, !.from = "live"] : q \in rows})

\* /X: from the flag as it was read
ToggleUnscored ==
    /\ editing # NotEditing /\ Held(editing.id) # {}
    /\ EndEdit({IF q.id # editing.id THEN q
                ELSE [q EXCEPT !.unscored = ~editing.row.unscored] : q \in rows})

\* /Z
DeleteEdited ==
    /\ editing # NotEditing /\ Held(editing.id) # {}
    /\ EndEdit(rows \ Held(editing.id))

\* Esc
CancelEdit == editing # NotEditing /\ EndEdit(rows)

\* "d" twice in the table, and ZAP
DeleteRow(q) ==
    /\ Meddle
    /\ rows' = rows \ {q}
    /\ index' \in Rebuilt(rows', contest, station)
    /\ UNCHANGED <<nextId, now, scope, contest, station, baseline, editing, importing>>
-----------------------------------------------------------------------------
(* The import. *)

ImportStarts ==
    /\ importing = NoImport /\ Meddle
    /\ \E file \in ImportFiles : importing' = [step |-> "running", left |-> file]
    /\ UNCHANGED <<rows, nextId, now, scope, contest, station, index, baseline, editing>>

\* Mutant: what is on file already is stored once more.
FreshAlways(log, r) == TRUE

\* insertQSOChunk skips what is on file under call, band and time.
Fresh(log, r) == ~\E q \in log : q.call = r.call /\ q.band = r.band /\ q.time = r.time

Stored(log, r) ==
    IF ~Fresh(log, r) THEN log
    ELSE log \union {[id |-> nextId + Cardinality(log \ rows), call |-> r.call,
                      band |-> r.band, exch |-> r.exch, contest |-> r.contest,
                      time |-> r.time, unscored |-> r.unscored, from |-> "import"]}

\* One chunk is committed, or it fails or is cancelled and leaves nothing.
ImportChunk ==
    /\ importing.step = "running"
    /\ LET size == IF Len(importing.left) < Chunk THEN Len(importing.left) ELSE Chunk
           log == FoldLeft(Stored, rows, SubSeq(importing.left, 1, size))
           rest == SubSeq(importing.left, size + 1, Len(importing.left)) IN
       \/ /\ Room(Cardinality(log \ rows))
          /\ rows' = log
          /\ nextId' = nextId + Cardinality(log \ rows)
          /\ importing' = [step |-> IF rest = <<>> THEN "ended" ELSE "running", left |-> rest]
       \/ /\ importing' = [step |-> "ended", left |-> <<>>]
          /\ UNCHANGED <<rows, nextId>>
    /\ UNCHANGED <<now, scope, contest, station, index, baseline, editing, meddled>>

\* adifImportedMsg
ImportReported ==
    /\ importing.step = "ended"
    /\ importing' = NoImport
    /\ index' \in Rebuilt(rows, contest, station)
    /\ UNCHANGED <<rows, nextId, now, scope, contest, station, baseline, editing, meddled>>

IndexNext ==
    \/ \E call \in Call, band \in Band, exch \in Exch \union {NoExch} :
          \/ \E at \in Times : LogContact(call, band, exch, at)
          \/ SaveEdit(call, band, exch)
    \/ \E c \in Contest \union {NoContest} : Select(c)
    \/ SetDupe
    \/ \E s \in Station : SaveStation(s)
    \/ \E q \in rows : BeginEdit(q) \/ DeleteRow(q)
    \/ ToggleUnscored \/ DeleteEdited \/ CancelEdit
    \/ ImportStarts \/ ImportChunk \/ ImportReported

IndexSpec == IndexInit /\ [][IndexNext]_indexVars
-----------------------------------------------------------------------------
(* Properties. *)

Reliable == index.there /\ index.fresh /\ importing = NoImport

\* The contacts that count, by the rule of the contest and not by the order
\* the index met them: of those of one station in the dupe scope of the
\* event, the earliest that is not flagged unscored.
Credited ==
    {q \in rows :
        /\ q.contest = index.of /\ ~q.unscored
        /\ ~\E p \in rows : /\ p.contest = index.of /\ ~p.unscored /\ Before(p, q)
                            /\ p.call = q.call /\ (scope = "call" \/ p.band = q.band)}

Agrees ==
    /\ index.state.scored = {Key(q) : q \in Credited}
    /\ index.state.values = UNION {Values(q) : q \in Credited}
    /\ index.state.points = {<<Key(q), Tier[station][q.exch]>> : q \in Credited}

Chronological(times) == \A i \in 1..Len(times) - 1 : times[i] <= times[i + 1]

\* Unless it says that it is stale, or an import is under way, the index is of
\* the contest selected and agrees with the log, whatever was logged in place,
\* edited away, flagged, deleted or imported: every call and band worked, and
\* the points and multipliers of the contacts that count, as long as the
\* contacts were logged in the order of their times (rebuildContestIndex).
IndexCredits ==
    Reliable =>
        /\ index.of = contest
        /\ index.state.worked = {Key(q) : q \in {p \in rows : p.contest = contest}}
        /\ Chronological(index.state.times) => Agrees

\* What the panel announces comes true: a contact the log accepts and that
\* is the first of its station to count adds its points to the score, and
\* raises the count of a multiplier rule exactly when the rule flagged it
\* NEW MULT (wouldBeNewMultiplier, multiplierCount, pointsTotal).
FlagComesTrue ==
    [][\A q \in rows' \ rows :
          q.from = "live" /\ q.id = nextId /\ index.there
             /\ q.contest = index.of /\ ~Duplicate(index.state, q) =>
          /\ PointsTotal(index'.state) = PointsTotal(index.state) + Tier[station][q.exch]
          /\ \A rule \in Rule :
             (MultiplierCount(index'.state, rule) > MultiplierCount(index.state, rule))
                <=> WouldBeNew(index.state, rule, q)]_indexVars

\* However often a file is imported, after failures too, none of its
\* contacts is in the log twice (insertQSOChunk).
ImportedOnce ==
    \A p, q \in rows :
        /\ p.from = "import" /\ q.from = "import"
        /\ p.call = q.call /\ p.band = q.band /\ p.time = q.time
        => p = q
=============================================================================
