------------------------------ MODULE LoTWSync ------------------------------
(***************************************************************************)
(* The LoTW confirmation sync (lotw_query.go, stats_panel.go): a key on    *)
(* the stats screen starts a goroutine that asks ARRL for the QSLs since a *)
(* stored bookmark, matches them to contacts and commits them together     *)
(* with the new bookmark.  Meanwhile the operator logs, edits and deletes  *)
(* contacts, moves between screens and changes the station, and LoTW       *)
(* receives further QSLs.                                                  *)
(***************************************************************************)
EXTENDS Integers, FiniteSets

CONSTANTS
    Qso,        \* row ids of the qso table (AUTOINCREMENT: never reused)
    NoQso,      \* lotw_confirmation.qso_id IS NULL
    Conf,       \* QSL records, one per (call, band, mode, date, time)
    Key,        \* worked call and band, upper-cased
    Mode,       \* modes of logged contacts
    Time,       \* start times of contacts
    OwnCall,    \* callsigns the station profile may carry
    Rec,        \* what each QSL record says: own, key, mode and time
    MatchWindow,\* lotwMatchWindow
    MaxClock    \* bound: LoTW's clock

ASSUME ConstantsOK ==
    /\ NoQso \notin Qso
    /\ Key # {} /\ Mode # {} /\ Time # {}
    /\ Time \subseteq Int /\ MatchWindow \in Nat /\ MaxClock \in Nat \ {0}
    /\ \A c \in Conf : /\ Rec[c].own \in OwnCall
                       /\ Rec[c].key \in Key
                       /\ Rec[c].time \in Int
    /\ IsFiniteSet(Conf)

VARIABLES
    state,      \* each contact: "unused", "live" or "deleted"
    contact,    \* what the qso row says
    stored,     \* the rows of lotw_confirmation
    link,       \* lotw_confirmation.qso_id
    bookmark,   \* lotw_sync_state.last_qsl; 0 when there is none
    callsign,   \* activeStation.Callsign
    moved,      \* the callsign of the profile has been changed at some time
    screen,     \* "stats", or "other" for all other screens
    syncing,    \* statsSyncing
    sync,       \* the sync goroutine, its response and its message
    issuedAt,   \* when LoTW received each QSL, 0 if it has not
    clock       \* LoTW's clock

log == <<state, contact>>
ui == <<callsign, moved, screen, syncing>>
lotw == <<issuedAt, clock>>
vars == <<log, stored, link, bookmark, ui, sync, lotw>>

Contact == [key : Key, mode : Mode, time : Time]

\* The columns of an absent row, which carry no information.
NoContact == CHOOSE x \in Contact : TRUE

NoReply == [recs |-> {}, header |-> FALSE, eof |-> FALSE, counted |-> FALSE,
            count |-> 0, last |-> 0]
Idle == [phase |-> "idle", own |-> CHOOSE w \in OwnCall : TRUE, since |-> 0,
         reply |-> NoReply]

Reply == [recs : SUBSET Conf, header : BOOLEAN, eof : BOOLEAN, counted : BOOLEAN,
          count : Nat, last : 0..MaxClock]
Sync == [phase : {"idle", "asked", "replied", "told"}, own : OwnCall,
         since : 0..MaxClock, reply : Reply]

TypeOK ==
    /\ state \in [Qso -> {"unused", "live", "deleted"}]
    /\ contact \in [Qso -> Contact]
    /\ stored \subseteq Conf
    /\ link \in [Conf -> Qso \union {NoQso}]
    /\ bookmark \in 0..MaxClock
    /\ callsign \in OwnCall
    /\ moved \in BOOLEAN
    /\ screen \in {"stats", "other"}
    /\ syncing \in BOOLEAN
    /\ sync \in Sync
    /\ issuedAt \in [Conf -> 0..MaxClock]
    /\ clock \in 1..MaxClock

Init ==
    /\ state = [q \in Qso |-> "unused"]
    /\ contact = [q \in Qso |-> NoContact]
    /\ stored = {}
    /\ link = [c \in Conf |-> NoQso]
    /\ bookmark = 0
    /\ callsign \in OwnCall
    /\ moved = FALSE
    /\ screen = "other"
    /\ syncing = FALSE
    /\ sync = Idle
    /\ issuedAt = [c \in Conf |-> 0]
    /\ clock = 1

Live == {q \in Qso : state[q] = "live"}

-----------------------------------------------------------------------------
(* matchLoTWConfirmation                                                   *)

Delta(q, c) == LET d == contact[q].time - Rec[c].time
               IN  IF d < 0 THEN -d ELSE d

\* Mutant: the window of the query is not applied.
CandidatesAnyTime(c) == {q \in Live : contact[q].key = Rec[c].key}

\* Same call and band, within the window; the mode is not compared.
Candidates(c) ==
    {q \in Live : contact[q].key = Rec[c].key /\ Delta(q, c) <= MatchWindow}

\* Only between several candidates does the mode count, and then the time.
Better(p, q, c) ==
    LET modeMatch(x) == contact[x].mode = Rec[c].mode
    IN  \/ modeMatch(p) /\ ~modeMatch(q)
        \/ modeMatch(p) = modeMatch(q) /\ Delta(p, c) < Delta(q, c)

\* The contacts record c may be linked to (the first row found wins a tie).
Match(c) ==
    LET S == Candidates(c)
    IN  IF S = {} THEN {NoQso}
        ELSE {q \in S : \A p \in S : ~Better(p, q, c)}

-----------------------------------------------------------------------------
(* The operator                                                            *)

\* A contact is logged or imported; no confirmation is looked up for it.
AddQso(q, x) ==
    /\ state[q] = "unused"
    /\ state' = [state EXCEPT ![q] = "live"]
    /\ contact' = [contact EXCEPT ![q] = x]
    /\ UNCHANGED <<stored, link, bookmark, ui, sync, lotw>>

\* updateQSO: mode and times stay; a changed call or band unlinks the
\* confirmations matched to the row.
EditQso(q, k) ==
    /\ state[q] = "live"
    /\ contact' = [contact EXCEPT ![q].key = k]
    /\ link' = [c \in Conf |-> IF link[c] = q /\ contact[q].key # k THEN NoQso
                               ELSE link[c]]
    /\ UNCHANGED <<state, stored, bookmark, ui, sync, lotw>>

\* deleteQSO leaves lotw_confirmation.qso_id as it is.
DeleteQso(q) ==
    /\ state[q] = "live"
    /\ state' = [state EXCEPT ![q] = "deleted"]
    /\ contact' = [contact EXCEPT ![q] = NoContact]
    /\ UNCHANGED <<stored, link, bookmark, ui, sync, lotw>>

\* saveStationSetup stores another callsign under the same profile id.
ChangeCallsign(own) ==
    /\ callsign # own
    /\ callsign' = own
    /\ moved' = TRUE
    /\ UNCHANGED <<log, stored, link, bookmark, screen, syncing, sync, lotw>>

\* Ctrl+A and Esc (openStatsPanel, updateStatsPanel).
SwitchScreen ==
    /\ screen' = IF screen = "stats" THEN "other" ELSE "stats"
    /\ UNCHANGED <<log, stored, link, bookmark, callsign, moved, syncing, sync, lotw>>

\* "s": one sync at a time.  The goroutine loads the bookmark and sends the
\* query; nobody else writes the bookmark.
PressSync ==
    /\ screen = "stats"
    /\ ~syncing
    /\ syncing' = TRUE
    /\ sync' = [phase |-> "asked", own |-> callsign, since |-> bookmark,
                reply |-> NoReply]
    /\ UNCHANGED <<log, stored, link, bookmark, callsign, moved, screen, lotw>>

-----------------------------------------------------------------------------
(* LoTW and the network                                                    *)

\* LoTW receives the QSL; the new record carries LoTW's time.
Issue(c) ==
    /\ issuedAt[c] = 0
    /\ issuedAt' = [issuedAt EXCEPT ![c] = clock]
    /\ UNCHANGED <<log, stored, link, bookmark, ui, sync, clock>>

ClockTick ==
    /\ clock < MaxClock
    /\ clock' = clock + 1
    /\ UNCHANGED <<log, stored, link, bookmark, ui, sync, issuedAt>>

\* The records a query asks for: those of one callsign, from the bookmark on.
Asked == {c \in Conf : /\ issuedAt[c] # 0
                       /\ issuedAt[c] >= sync.since
                       /\ Rec[c].own = sync.own}

\* The header's APP_LoTW_LASTQSL: the latest of them, 0 when it has no such
\* field.
LastQSL(t) ==
    \/ t = 0
    \/ /\ \E c \in Asked : t = issuedAt[c]
       /\ \A c \in Asked : issuedAt[c] <= t

\* The response as it arrives: it may be an HTML page with no ADIF header, be
\* cut off anywhere before the end marker, or lack records in the middle.  The
\* last is noticed only by APP_LoTW_NUMREC, so a header without that field is
\* assumed to come with all records or cut off.
Respond(recs, header, eof, counted, last) ==
    /\ sync.phase = "asked"
    /\ recs \subseteq Asked
    /\ ~header => recs = {} /\ ~eof /\ ~counted /\ last = 0
    /\ eof /\ ~counted => recs = Asked
    /\ LastQSL(last)
    /\ sync' = [sync EXCEPT
                    !.phase = "replied",
                    !.reply = [recs |-> recs, header |-> header, eof |-> eof,
                               counted |-> counted,
                               count |-> IF counted THEN Cardinality(Asked) ELSE 0,
                               last |-> last]]
    /\ UNCHANGED <<log, stored, link, bookmark, ui, lotw>>

-----------------------------------------------------------------------------
(* syncLoTWConfirmations, in the goroutine                                 *)

\* Mutant: a truncated download passes for a short one.
CompleteWithoutMarker(reply) == reply.header

\* The whole response is validated before anything is written.
Complete(reply) ==
    /\ reply.header
    /\ reply.eof
    /\ reply.counted => reply.count = Cardinality(reply.recs)

\* The bookmark after the sync: the header's, if it has one.
NewBookmark == IF sync.reply.last # 0 THEN sync.reply.last ELSE bookmark

\* Records and bookmark commit in one transaction, each record matched against
\* the log of this moment.  A record synced again is matched again.
Commit(pick) ==
    /\ sync.phase = "replied"
    /\ Complete(sync.reply)
    /\ \A c \in Conf : IF c \in sync.reply.recs THEN pick[c] \in Match(c)
                       ELSE pick[c] = link[c]
    /\ link' = pick
    /\ stored' = stored \union sync.reply.recs
    /\ bookmark' = NewBookmark
    /\ sync' = [sync EXCEPT !.phase = "told", !.reply = NoReply]
    /\ UNCHANGED <<log, ui, lotw>>

\* A network error, an incomplete response, a database error, a panic, or the
\* cancelled context: nothing is written.
Fail ==
    /\ sync.phase \in {"asked", "replied"}
    /\ sync' = [sync EXCEPT !.phase = "told", !.reply = NoReply]
    /\ UNCHANGED <<log, stored, link, bookmark, ui, lotw>>

\* lotwStatsSyncMsg: only the stats screen handles it, any other drops it.
Deliver ==
    /\ sync.phase = "told"
    /\ sync' = Idle
    /\ syncing' = IF screen = "stats" THEN FALSE ELSE syncing
    /\ UNCHANGED <<log, stored, link, bookmark, callsign, moved, screen, lotw>>

\* The process ends, at any moment, and is started again.
Restart ==
    /\ sync' = Idle
    /\ syncing' = FALSE
    /\ screen' = "other"
    /\ UNCHANGED <<log, stored, link, bookmark, callsign, moved, lotw>>

-----------------------------------------------------------------------------

Operator ==
    \/ \E q \in Qso : \/ \E x \in Contact : AddQso(q, x)
                      \/ \E k \in Key : EditQso(q, k)
                      \/ DeleteQso(q)
    \/ \E own \in OwnCall : ChangeCallsign(own)
    \/ SwitchScreen
    \/ PressSync

Remote ==
    \/ \E c \in Conf : Issue(c)
    \/ ClockTick
    \/ \E recs \in SUBSET Asked, header, eof, counted \in BOOLEAN,
          last \in 0..MaxClock : Respond(recs, header, eof, counted, last)

Picks == [Conf -> Qso \union {NoQso}]
Goroutine == (\E pick \in Picks : Commit(pick)) \/ Fail \/ Deliver

Next == Operator \/ Remote \/ Goroutine \/ Restart

Spec == Init /\ [][Next]_vars

-----------------------------------------------------------------------------
(* Properties                                                              *)

\* A credited confirmation belongs to the contact it is credited to: same call
\* and band, within the window, whatever was edited since the match (updateQSO
\* unlinks) or between LoTW's answer and the commit.  A link to a deleted row
\* credits nothing: the award queries join qso.
CreditIsOwn ==
    \A c \in stored : link[c] \in Live =>
        /\ contact[link[c]].key = Rec[c].key
        /\ Delta(link[c], c) <= MatchWindow

\* The bookmark never moves past a QSL that was not stored ("a response
\* truncated mid-transfer must not leave a bookmark advanced past
\* confirmations it never delivered"): what an incremental query leaves out,
\* the database has.  Only for a profile that has had one callsign: see
\* NothingBehindBookmark below.
NeverSkipped ==
    ~moved => \A c \in Conf :
        issuedAt[c] \in 1..(bookmark - 1) /\ Rec[c].own = callsign => c \in stored

\* What a sync under way will rely on when it commits.
InFlightInv ==
    /\ sync.phase # "idle" => syncing /\ (sync.own = callsign \/ moved)
    /\ sync.phase \in {"asked", "replied"} => sync.since = bookmark
    /\ sync.phase = "replied" =>
           /\ \A c \in sync.reply.recs : issuedAt[c] # 0
           /\ Complete(sync.reply) =>
                  \A c \in Conf :
                      (/\ Rec[c].own = sync.own
                       /\ issuedAt[c] # 0
                       /\ issuedAt[c] \in sync.since..(sync.reply.last - 1))
                      => c \in sync.reply.recs

\* Nothing is dated after LoTW's clock.
ClockInv ==
    /\ bookmark <= clock
    /\ sync.reply.last <= clock
    /\ \A c \in Conf : issuedAt[c] <= clock

\* A link points to an id that was handed out, so no new contact inherits one.
LinkInv == \A c \in Conf : link[c] \in Qso => state[link[c]] # "unused"

SyncInv == TypeOK /\ CreditIsOwn /\ InFlightInv /\ ClockInv /\ LinkInv

-----------------------------------------------------------------------------
(* A statement of the README, taken literally; refuted by claims_callsign.  *)

\* README.md: each later sync asks "for confirmations newer than the last one
\* it saw".  The bookmark is kept per profile and the query is made per
\* callsign: after Station Setup changes the call, the new call's earlier
\* confirmations are behind the bookmark.
NothingBehindBookmark ==
    \A c \in Conf :
        issuedAt[c] \in 1..(bookmark - 1) /\ Rec[c].own = callsign => c \in stored
=============================================================================
