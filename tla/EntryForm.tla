----------------------------- MODULE EntryForm -----------------------------
(***************************************************************************)
(* The contact entry form (main.go, contest_occurrence.go, pota.go): the   *)
(* call being typed, the callsign and park lookups asked for it, edit      *)
(* sessions that borrow the form for a stored contact and give it back,    *)
(* and the running serial of the selected contest.                         *)
(*                                                                         *)
(* One event-loop handler at a time, each an action.  Network answers and  *)
(* a running import come between any two of them.  One catalog event       *)
(* stands for all: its occurrences are named by the day they belong to; a  *)
(* typed name without a date ("CWT-TEAM") belongs to it, too, and 0 is     *)
(* general logging, a blank name or one no event answers to.  A detail is  *)
(* named by the call it was looked up for, which is all the properties     *)
(* need of it.  A read of the log that fails (serialResumeError, which     *)
(* then blocks logging) is left out.                                       *)
(***************************************************************************)
EXTENDS Integers, FiniteSets, FiniteSetsExt

CONSTANTS
    Call, NoCall,
    Id,           \* bound: the row ids handed out, 1..n
    QRZSlot,      \* bound: callsign lookups in flight at once
    POTASlot,     \* bound: park lookups in flight at once
    MapSlot,      \* bound: callsign lookups of the map in flight at once
    NoSlot,
    Account, NoAccount, \* QRZ XML credentials
    MaxSerial,    \* bound: serials; 0 for no contest operation
    MaxDay,       \* bound: days, each an occurrence of the event
    Undated       \* bound: names of it that carry no date

ASSUME FormConstantsOK ==
    /\ Id = 1..Cardinality(Id) /\ IsFiniteSet(Id)
    /\ NoCall \notin Call
    /\ NoSlot \notin QRZSlot \union POTASlot
    /\ NoAccount \notin Account
    /\ MaxSerial \in Nat /\ MaxDay \in Nat \ {0}
    /\ Undated \cap 0..MaxDay = {}

VARIABLES
    rows,       \* the stored contacts of the active profile, by row id
    lastId,     \* the last row id handed out (AUTOINCREMENT)
    saved,      \* contest_selection.contest_id
    form,       \* the call, its details, and detailsCall
    sel,        \* the selected contest, Sent Serial as shown, nextSerial
    edit,       \* editingQSOID
    original,   \* editingOriginal
    pre,        \* preEdit...: the selection an edit session set aside
    qrz,        \* the callsign lookups in flight
    qrzActive,  \* qrzActiveLookup
    pota,       \* the park lookups in flight
    potaActive,
    mapLookup,  \* the map's lookups in flight, and the generation of each
    account,    \* qrzXMLCreds
    session,    \* qrzXMLSessionKey, named by the account it was given to
    post,       \* postMode
    importing,  \* an import has committed rows and not yet reported
    day,        \* the UTC date
    onContest,  \* the contest screen is open, where contestFields are typed
    home,       \* history: the selection when the edit session began
    unsaved     \* history: the operator typed another name for his own
                \* selection and nothing has saved it since

lookupVars == <<qrz, qrzActive, pota, potaActive, mapLookup, account, session>>
screenVars == <<onContest, unsaved>>
vars == <<rows, lastId, saved, form, sel, edit, original, pre, lookupVars,
          post, importing, day, screenVars, home>>

Owner == Call \union {NoCall}
General == 0
Contest == General..MaxDay \union Undated
Serial == 0..MaxSerial
NoRow == [call |-> NoCall, contest |-> General, serial |-> 0,
          name |-> NoCall, park |-> NoCall]
Row == [call : Owner, contest : Contest, serial : Serial,
        name : Owner, park : Owner]

\* `sure` says why nextSerial is above every stored serial of the contest:
\* it was resumed from them ("yes"), or is not known to be, because the
\* operator typed the serial or the contest's name, or an import ended
\* during an edit session.
Selection == [contest : Contest, serial : Serial, next : Serial,
              sure : {"yes", "typed", "import"}]
NoSelection == [contest |-> General, serial |-> 0, next |-> 0, sure |-> "yes"]

\* A lookup is known while qrzLookups / potaLookups holds its id, an orphan
\* when only its goroutine is left; qso is the row its answer goes to.
Lookup == [phase : {"idle", "known", "orphan"}, call : Owner,
           qso : Id \union {0}, account : Account \union {NoAccount}]
NoLookup == [phase |-> "idle", call |-> NoCall, qso |-> 0, account |-> NoAccount]

\* A lookup of the map: whom it was asked as, and whether its credGeneration
\* is still qrzCredGeneration.  Idle when asked as nobody.
MapLookup == [account : Account \union {NoAccount}, current : BOOLEAN]
NoMapLookup == [account |-> NoAccount, current |-> FALSE]
EmptyForm == [call |-> NoCall, details |-> NoCall, name |-> NoCall, park |-> NoCall]

TypeOK ==
    /\ \E S \in SUBSET Id : rows \in [S -> Row]
    /\ lastId \in Id \union {0}
    /\ saved \in Contest
    /\ form \in [call : Owner, details : Owner, name : Owner, park : Owner]
    /\ sel \in Selection /\ pre \in Selection /\ home \in Selection
    /\ edit \in Id \union {0}
    /\ original \in Row
    /\ qrz \in [QRZSlot -> Lookup] /\ qrzActive \in QRZSlot \union {NoSlot}
    /\ pota \in [POTASlot -> Lookup] /\ potaActive \in POTASlot \union {NoSlot}
    /\ mapLookup \in [MapSlot -> MapLookup]
    /\ account \in Account \union {NoAccount}
    /\ session \in Account \union {NoAccount}
    /\ post \in BOOLEAN /\ importing \in BOOLEAN
    /\ onContest \in BOOLEAN /\ unsaved \in BOOLEAN
    /\ day \in 1..MaxDay

Init ==
    /\ rows = [i \in {} |-> NoRow] /\ lastId = 0 /\ saved = General
    /\ form = EmptyForm
    /\ sel = NoSelection /\ pre = NoSelection /\ home = NoSelection
    /\ edit = 0 /\ original = NoRow
    /\ qrz = [s \in QRZSlot |-> NoLookup] /\ qrzActive = NoSlot
    /\ pota = [s \in POTASlot |-> NoLookup] /\ potaActive = NoSlot
    /\ mapLookup = [m \in MapSlot |-> NoMapLookup]
    /\ account \in Account \union {NoAccount}
    /\ session = NoAccount
    /\ post = FALSE /\ importing = FALSE /\ day = 1
    /\ onContest = FALSE /\ unsaved = FALSE
-----------------------------------------------------------------------------
(* Serials and occurrences. *)

\* Mutant: the contacts are counted.
ResumeByCount(log, c) ==
    1 + Cardinality({j \in DOMAIN log : log[j].contest = c})

\* resumeSerial: one above the largest serial stored for the occurrence.
Resume(log, c) ==
    1 + Max({0} \union {log[i].serial : i \in {j \in DOMAIN log : log[j].contest = c}})

Resumed(log, c) == [contest |-> c, serial |-> Resume(log, c),
                    next |-> Resume(log, c), sure |-> "yes"]

\* "else if next > m.nextSerial": an import or a saved edit only raises it.
Raised(s, log) ==
    IF s.contest = General THEN s
    ELSE IF Resume(log, s.contest) > s.next THEN Resumed(log, s.contest)
    ELSE [s EXCEPT !.sure = "yes"]

\* resolveOccurrenceForNow in logCurrentQSO: the occurrence rolls to the date
\* of the contact, and the serial with it unless the operator typed one.
Rolled(s, at) ==
    IF s.contest \in {General, at} \union Undated THEN s
    ELSE IF s.serial = s.next THEN Resumed(rows, at)
    ELSE [s EXCEPT !.contest = at, !.sure = "typed"]

\* The date a contact is logged under.
At == IF post THEN 1..day ELSE {day}

\* Mutant: the borrowed contest of an edit session is saved too.
SaveSelectionAlways(c) == saved' = c

\* saveContestSelection
SaveSelection(c) == saved' = IF edit = 0 THEN c ELSE saved

\* What the operator does to his own selection, not to an edited contact's.
Remember(left) == unsaved' = IF edit = 0 THEN left ELSE unsaved

\* On the contest screen no key reaches the form.
OnEntry == ~onContest
-----------------------------------------------------------------------------
(* The form. *)

\* clearQSOForm, as the selection sees it
Cleared(s) == IF s.next > 0 THEN [s EXCEPT !.serial = s.next] ELSE s

Forget(lookups, active) ==
    IF active = NoSlot THEN lookups ELSE [lookups EXCEPT ![active].phase = "orphan"]

\* clearQSOForm gives up the park lookup of the form, not its callsign lookup.
ClearForm ==
    /\ form' = EmptyForm
    /\ pota' = Forget(pota, potaActive)
    /\ potaActive' = NoSlot

KeepQRZ == UNCHANGED <<qrz, qrzActive, mapLookup, account, session>>

TypeCall(c) ==
    /\ OnEntry /\ form.call # c
    /\ form' = [form EXCEPT !.call = c]
    /\ UNCHANGED <<rows, lastId, saved, sel, edit, original, pre, lookupVars,
                   post, importing, day, screenVars, home>>

\* resetDetailsForCall
DetailsFor(c) ==
    IF edit # 0 \/ c = form.details THEN form
    ELSE [form EXCEPT !.details = c, !.name = NoCall,
                      !.park = IF form.details = NoCall THEN form.park ELSE NoCall]

Ask(lookups, active, s, who) ==
    [Forget(lookups, active) EXCEPT ![s] =
        [phase |-> "known", call |-> form.call, qso |-> 0, account |-> who]]

\* autoFillFromQRZ; a lookup needs a call and credentials.
AskQRZ ==
    IF form.call = NoCall \/ account = NoAccount
    THEN UNCHANGED <<qrz, qrzActive>>
    ELSE \E s \in QRZSlot :
            /\ qrz[s].phase = "idle"
            /\ qrz' = Ask(qrz, qrzActive, s, account)
            /\ qrzActive' = s

\* autoFillPOTAReference
AskPOTA ==
    IF form.call = NoCall \/ post \/ POTASlot = {}
    THEN UNCHANGED <<pota, potaActive>>
    ELSE \E s \in POTASlot :
            /\ pota[s].phase = "idle"
            /\ pota' = Ask(pota, potaActive, s, NoAccount)
            /\ potaActive' = s

\* Tab or Enter on the call field.  Shift+Tab, Back-tabbing to the last
\* field, leaves it without any of this.
LeaveCall ==
    /\ OnEntry
    /\ form' = DetailsFor(form.call)
    /\ AskPOTA
    /\ AskQRZ
    /\ UNCHANGED <<rows, lastId, saved, sel, edit, original, pre, mapLookup, account,
                   session, post, importing, day, screenVars, home>>

\* Ctrl+P
TogglePost ==
    /\ OnEntry /\ edit = 0
    /\ post' = ~post
    /\ UNCHANGED <<rows, lastId, saved, form, sel, edit, original, pre,
                   lookupVars, importing, day, screenVars, home>>
-----------------------------------------------------------------------------
(* Contest selection. *)

\* selectEvent, from the catalog; also during an edit session.
SelectEvent(at) ==
    /\ OnEntry /\ at \in At
    /\ Resume(rows, at) <= MaxSerial
    /\ sel' = Resumed(rows, at)
    /\ SaveSelection(at)
    /\ Remember(FALSE)
    /\ UNCHANGED <<rows, lastId, form, edit, original, pre, lookupVars, post,
                   importing, day, onContest, home>>

\* clearContestSelection
ClearSelection ==
    /\ OnEntry
    /\ sel' = NoSelection
    /\ SaveSelection(General)
    /\ Remember(FALSE)
    /\ UNCHANGED <<rows, lastId, form, edit, original, pre, lookupVars, post,
                   importing, day, onContest, home>>

\* F7 opens the contest screen when the name is of an event, else the catalog.
OpenContest ==
    /\ OnEntry /\ sel.contest # General
    /\ onContest' = TRUE
    /\ UNCHANGED <<rows, lastId, saved, form, sel, edit, original, pre,
                   lookupVars, post, importing, day, unsaved, home>>

\* updateQSOContest: another name is typed, or none.  The serial shown and
\* the next one stay those of the contest before.
NameContest(c) ==
    /\ onContest /\ sel.contest # c
    /\ sel' = [sel EXCEPT !.contest = c, !.sure = "typed"]
    /\ Remember(TRUE)
    /\ UNCHANGED <<rows, lastId, saved, form, edit, original, pre, lookupVars,
                   post, importing, day, onContest, home>>

\* Sent Serial is typed over.
OverrideSerial(n) ==
    /\ onContest /\ sel.serial # n
    /\ sel' = [sel EXCEPT !.serial = n]
    /\ UNCHANGED <<rows, lastId, saved, form, edit, original, pre, lookupVars,
                   post, importing, day, screenVars, home>>

\* Esc and F1 leave the screen and save the selection.
LeaveContest ==
    /\ onContest /\ onContest' = FALSE
    /\ SaveSelection(sel.contest)
    /\ Remember(FALSE)
    /\ UNCHANGED <<rows, lastId, form, sel, edit, original, pre, lookupVars,
                   post, importing, day, home>>

\* F6, F7 and the panels of Ctrl+A and Ctrl+W leave it as well; that of
\* Ctrl+G comes back to it.
TurnFromContest ==
    /\ onContest /\ onContest' = FALSE
    /\ UNCHANGED <<rows, lastId, saved, form, sel, edit, original, pre,
                   lookupVars, post, importing, day, unsaved, home>>
-----------------------------------------------------------------------------
(* Logging. *)

\* entryDupe.  An earlier contact with the call, in a contest one of the
\* occurrence, is a duplicate or not by its time, which the model does not
\* keep: a SETDUPE may have come since, or in general logging ten minutes.
Dupe(c, contest, except) ==
    LET prior == {i \in DOMAIN rows \ {except} :
                     rows[i].call = c /\ contest \in {General, rows[i].contest}} IN
    IF prior = {} THEN {FALSE} ELSE BOOLEAN

\* bindQRZLookupToQSO and the same lines for POTA: the lookup asked for this
\* form gets the new row to write to.
Bind(lookups, active, c, id) ==
    IF active # NoSlot /\ lookups[active].call = c
    THEN [lookups EXCEPT ![active].qso = id] ELSE lookups

\* After a contact is logged with the serial shown.
Advanced(s) ==
    IF s.next = 0 THEN s
    ELSE LET n == IF s.serial > 0 THEN s.serial + 1 ELSE s.next + 1 IN
         [s EXCEPT !.next = n, !.serial = n,
                   !.sure = IF s.serial = s.next THEN s.sure ELSE "typed"]

LogDupe(at) ==
    /\ OnEntry /\ edit = 0 /\ form.call # NoCall /\ at \in At
    /\ LET s == Rolled(sel, at) IN
        /\ TRUE \in Dupe(form.call, s.contest, 0)
        /\ s.next <= MaxSerial
        /\ sel' = s
    /\ UNCHANGED <<rows, lastId, saved, form, edit, original, pre, lookupVars,
                   post, importing, day, screenVars, home>>

\* logCurrentQSO for a new contact
Log(at) ==
    /\ OnEntry /\ edit = 0 /\ form.call # NoCall /\ at \in At
    /\ lastId + 1 \in Id
    /\ LET s == Rolled(sel, at)
           id == lastId + 1 IN
        /\ FALSE \in Dupe(form.call, s.contest, 0)
        /\ Advanced(s).next <= MaxSerial
        /\ rows' = [i \in DOMAIN rows \union {id} |->
                      IF i = id
                      THEN [call |-> form.call, contest |-> s.contest,
                            serial |-> s.serial, name |-> form.name,
                            park |-> form.park]
                      ELSE rows[i]]
        /\ lastId' = id
        /\ sel' = Advanced(s)
        /\ saved' = s.contest
        /\ qrz' = Bind(qrz, qrzActive, form.call, id)
        /\ pota' = Bind(pota, potaActive, form.call, id)
    /\ qrzActive' = NoSlot
    /\ potaActive' = NoSlot
    /\ form' = EmptyForm
    /\ unsaved' = FALSE
    /\ UNCHANGED <<edit, original, pre, mapLookup, account, session, post,
                   importing, day, onContest, home>>

\* ZAP: the newest row goes, and with it whatever was in the form.
Zap ==
    /\ OnEntry /\ edit = 0
    /\ rows' = [i \in DOMAIN rows \ {j \in DOMAIN rows : \A k \in DOMAIN rows : k <= j}
                  |-> rows[i]]
    /\ ClearForm
    /\ sel' = Cleared(sel)
    /\ KeepQRZ
    /\ UNCHANGED <<lastId, saved, edit, original, pre, post, importing, day,
                   screenVars, home>>
-----------------------------------------------------------------------------
(* Edit sessions. *)

\* Mutant: every contact opened does.
SetAsideAlways == sel

\* Only the first contact opened in a session sets the selection aside.
SetAside == IF edit = 0 THEN sel ELSE pre

\* beginEditQSO
BeginEdit(i) ==
    /\ OnEntry /\ i \in DOMAIN rows
    /\ pre' = SetAside
    /\ home' = IF edit = 0 THEN sel ELSE home
    /\ edit' = i
    /\ original' = rows[i]
    /\ form' = [call |-> rows[i].call, details |-> rows[i].call,
                name |-> rows[i].name, park |-> rows[i].park]
    /\ sel' = [sel EXCEPT !.contest = rows[i].contest, !.serial = rows[i].serial]
    /\ pota' = Forget(pota, potaActive)
    /\ potaActive' = NoSlot
    /\ KeepQRZ
    /\ UNCHANGED <<rows, lastId, saved, post, importing, day, screenVars>>

\* clearQSOForm and restorePreEditContestSelection
EndEdit ==
    /\ edit' = 0
    /\ original' = NoRow
    /\ pre' = NoSelection
    /\ home' = NoSelection
    /\ ClearForm
    /\ KeepQRZ

\* Esc, /X (which stores a flag the form does not show) and /Z
CancelEdit ==
    /\ OnEntry /\ edit # 0
    /\ EndEdit
    /\ sel' = pre
    /\ UNCHANGED <<rows, lastId, saved, post, importing, day, screenVars>>

DeleteEditing ==
    /\ OnEntry /\ edit \in DOMAIN rows
    /\ rows' = [i \in DOMAIN rows \ {edit} |-> rows[i]]
    /\ EndEdit
    /\ sel' = pre
    /\ UNCHANGED <<lastId, saved, post, importing, day, screenVars>>

\* logCurrentQSO during a session: every editable field is written over the
\* row, which must still be there.
SaveEdit ==
    /\ OnEntry /\ edit \in DOMAIN rows /\ form.call # NoCall
    /\ FALSE \in Dupe(form.call, sel.contest, edit)
    /\ rows' = [rows EXCEPT ![edit] =
                  [call |-> form.call, contest |-> sel.contest,
                   serial |-> sel.serial, name |-> form.name,
                   park |-> form.park]]
    /\ EndEdit
    /\ sel' = Raised(pre, rows')
    /\ sel'.next <= MaxSerial
    /\ UNCHANGED <<lastId, saved, post, importing, day, screenVars>>

\* "d" pressed twice on a row of the table, also on the one being edited.
DeleteRow(i) ==
    /\ OnEntry /\ i \in DOMAIN rows
    /\ rows' = [j \in DOMAIN rows \ {i} |-> rows[j]]
    /\ UNCHANGED <<lastId, saved, form, sel, edit, original, pre, lookupVars,
                   post, importing, day, screenVars, home>>
-----------------------------------------------------------------------------
(* Answers of the callsign and park services. *)

Fill(old, new) == IF old = NoCall THEN new ELSE old

Done(lookups, s) == [lookups EXCEPT ![s] = NoLookup]

StillActive(active, s) == IF active = s THEN NoSlot ELSE active

\* Mutant: the answer goes to its row whatever is open.
ToRowAlways(r) == r.qso # 0

\* The answer goes to the row of its lookup, unless that is open for editing.
ToRow(r) == r.qso # 0 /\ edit # r.qso

\* Mutant: the call of the row is not compared.
AnyContact(i, c) == i \in DOMAIN rows

\* applyQRZRecordToLoggedQSO and applyPOTAToLoggedQSO: the row must still be
\* there, under the call that was asked for.
SameContact(i, c) == i \in DOMAIN rows /\ rows[i].call = c

\* qrzCallsignLookupMsg.  An answer whose lookup was given up is dropped, key
\* and all; one for a logged contact goes to its row, unless that row is
\* open for editing; one for the form must still match the call in it.
QRZAnswer(s, found) ==
    LET r == qrz[s] IN
    /\ r.phase # "idle"
    /\ qrz' = Done(qrz, s)
    /\ qrzActive' = StillActive(qrzActive, s)
    /\ session' = IF r.phase = "known" THEN r.account ELSE session
    /\ rows' = IF found /\ r.phase = "known" /\ ToRow(r)
                  /\ SameContact(r.qso, r.call)
               THEN [rows EXCEPT ![r.qso].name = Fill(rows[r.qso].name, r.call)]
               ELSE rows
    /\ form' = IF found /\ r.phase = "known" /\ r.qso = 0 /\ r.call = form.call
               THEN [form EXCEPT !.name = Fill(form.name, r.call)] ELSE form
    /\ UNCHANGED <<lastId, saved, sel, edit, original, pre, pota, potaActive,
                   mapLookup, account, post, importing, day, screenVars, home>>

\* A login that failed brings neither a record nor a key.
QRZError(s) ==
    /\ qrz[s].phase # "idle"
    /\ qrz' = Done(qrz, s)
    /\ qrzActive' = StillActive(qrzActive, s)
    /\ UNCHANGED <<rows, lastId, saved, form, sel, edit, original, pre, pota,
                   potaActive, mapLookup, account, session, post, importing,
                   day, screenVars, home>>

\* potaLookupMsg and applyPOTAToLoggedQSO.  Unlike a callsign answer, one for
\* the row being edited is offered to the form.
POTAAnswer(s, found) ==
    LET r == pota[s] IN
    /\ r.phase # "idle"
    /\ pota' = Done(pota, s)
    /\ potaActive' = StillActive(potaActive, s)
    /\ rows' = IF found /\ r.phase = "known" /\ ToRow(r)
                  /\ SameContact(r.qso, r.call)
               THEN [rows EXCEPT ![r.qso].park = Fill(rows[r.qso].park, r.call)]
               ELSE rows
    /\ form' = IF found /\ r.phase = "known" /\ ~ToRow(r) /\ r.call = form.call
               THEN [form EXCEPT !.park = Fill(form.park, r.call)] ELSE form
    /\ KeepQRZ
    /\ UNCHANGED <<lastId, saved, sel, edit, original, pre, post, importing,
                   day, screenVars, home>>

\* qrzLookups is emptied.
Abandon(lookups) ==
    [s \in DOMAIN lookups |->
        IF lookups[s].phase = "idle" THEN NoLookup
        ELSE [lookups[s] EXCEPT !.phase = "orphan"]]

\* startQRZGeoLookupIfNeeded: a lookup for the map, with qrzCredGeneration.
AskMap(m) ==
    /\ mapLookup[m] = NoMapLookup /\ account # NoAccount
    /\ mapLookup' = [mapLookup EXCEPT ![m] = [account |-> account, current |-> TRUE]]
    /\ UNCHANGED <<rows, lastId, saved, form, sel, edit, original, pre, qrz,
                   qrzActive, pota, potaActive, account, session, post,
                   importing, day, screenVars, home>>

\* Mutant: the generation is not compared.
TakesAnyKey(asked) == TRUE

TakesKey(asked) == asked.current

\* qrzMapGeoMsg, with a session key unless the login failed.
MapAnswer(m, login) ==
    /\ mapLookup[m] # NoMapLookup
    /\ mapLookup' = [mapLookup EXCEPT ![m] = NoMapLookup]
    /\ session' = IF login /\ TakesKey(mapLookup[m])
                  THEN mapLookup[m].account ELSE session
    /\ UNCHANGED <<rows, lastId, saved, form, sel, edit, original, pre, qrz,
                   qrzActive, pota, potaActive, account, post, importing, day,
                   screenVars, home>>

\* qrzCredGeneration moves on.
Outdate(asked) == [m \in DOMAIN asked |-> [asked[m] EXCEPT !.current = FALSE]]

\* saveStationSetup: new credentials end the session and every lookup of the
\* form, and outdate those of the map.
SaveCredentials(a) ==
    /\ OnEntry /\ Account # {}
    /\ account' = a
    /\ session' = NoAccount
    /\ qrz' = Abandon(qrz)
    /\ qrzActive' = NoSlot
    /\ mapLookup' = Outdate(mapLookup)
    /\ UNCHANGED <<rows, lastId, saved, form, sel, edit, original, pre, pota,
                   potaActive, post, importing, day, screenVars, home>>
-----------------------------------------------------------------------------
(* Imports, restarts and the date. *)

\* A row of an ADIF file is committed in the background.
ImportRow(c, contest, n) ==
    /\ lastId + 1 \in Id
    /\ rows' = [i \in DOMAIN rows \union {lastId + 1} |->
                  IF i = lastId + 1
                  THEN [NoRow EXCEPT !.call = c, !.contest = contest, !.serial = n]
                  ELSE rows[i]]
    /\ lastId' = lastId + 1
    /\ importing' = TRUE
    /\ UNCHANGED <<saved, form, sel, edit, original, pre, lookupVars, post,
                   day, screenVars, home>>

\* adifImportedMsg: the serial is resumed, unless an edit is open.
ImportDone ==
    /\ importing
    /\ importing' = FALSE
    /\ sel' = IF edit = 0 THEN Raised(sel, rows) ELSE sel
    /\ pre' = IF edit # 0 /\ pre.contest # General /\ pre.sure = "yes"
              THEN [pre EXCEPT !.sure = "import"] ELSE pre
    /\ sel'.next <= MaxSerial
    /\ UNCHANGED <<rows, lastId, saved, form, edit, original, lookupVars, post,
                   day, screenVars, home>>

\* restoreContestSelection rolls the saved contest to today.
Restored == IF saved \in Undated THEN saved ELSE day

\* A crash or an exit, and the next start, which drops a contest selected
\* over a week ago.
Restart(stale) ==
    /\ form' = EmptyForm
    /\ edit' = 0 /\ original' = NoRow /\ pre' = NoSelection
    /\ sel' = IF saved = General \/ stale THEN NoSelection ELSE Resumed(rows, Restored)
    /\ sel'.next <= MaxSerial
    /\ saved' = IF stale THEN General ELSE saved
    /\ qrz' = [s \in QRZSlot |-> NoLookup] /\ qrzActive' = NoSlot
    /\ pota' = [s \in POTASlot |-> NoLookup] /\ potaActive' = NoSlot
    /\ mapLookup' = [m \in MapSlot |-> NoMapLookup]
    /\ session' = NoAccount
    /\ post' = FALSE /\ importing' = FALSE
    /\ onContest' = FALSE /\ unsaved' = FALSE
    /\ home' = NoSelection
    /\ UNCHANGED <<rows, lastId, account, day>>

NewDay ==
    /\ day < MaxDay
    /\ day' = day + 1
    /\ UNCHANGED <<rows, lastId, saved, form, sel, edit, original, pre,
                   lookupVars, post, importing, screenVars, home>>

Next ==
    \/ \E c \in Owner : TypeCall(c)
    \/ LeaveCall
    \/ TogglePost
    \/ \E at \in 1..MaxDay : SelectEvent(at) \/ LogDupe(at) \/ Log(at)
    \/ ClearSelection
    \/ OpenContest \/ LeaveContest \/ TurnFromContest
    \/ \E c \in Contest : NameContest(c)
    \/ \E n \in 1..MaxSerial : OverrideSerial(n)
    \/ Zap
    \/ \E i \in Id : BeginEdit(i) \/ DeleteRow(i)
    \/ CancelEdit
    \/ DeleteEditing
    \/ SaveEdit
    \/ \E s \in QRZSlot, found \in BOOLEAN : QRZAnswer(s, found)
    \/ \E s \in QRZSlot : QRZError(s)
    \/ \E s \in POTASlot, found \in BOOLEAN : POTAAnswer(s, found)
    \/ \E m \in MapSlot : AskMap(m) \/ \E login \in BOOLEAN : MapAnswer(m, login)
    \/ \E a \in Account \union {NoAccount} : SaveCredentials(a)
    \/ \E c \in Call, contest \in 1..MaxDay, n \in 1..MaxSerial :
          ImportRow(c, contest, n)
    \/ ImportDone
    \/ \E stale \in BOOLEAN : Restart(stale)
    \/ NewDay

Spec == Init /\ [][Next]_vars
-----------------------------------------------------------------------------
(* Properties. *)

\* An edit is saved from the copy of the row it was opened with.  That loses
\* nothing: no answer that arrives late is written to a row while it is open
\* for editing (main.go, qrzCallsignLookupMsg and potaLookupMsg).
EditCopyFresh == edit \in DOMAIN rows => rows[edit] = original

\* The QRZ session key in use was given to the credentials in use, whatever
\* lookups of the form or of the map were in flight when they changed
\* (saveStationSetup, qrzCallsignLookupMsg, qrzMapGeoMsg).
SessionKeyCurrent == session \in {NoAccount, account}

\* The serial offered next is above every serial stored for the occurrence,
\* when no import is under way, the operator has typed neither the serial nor
\* the contest's name since it was resumed, and no import ended during an
\* edit session (resumeSerial, README.md).
SerialAhead ==
    edit = 0 /\ ~importing /\ sel.contest # General /\ sel.sure = "yes" =>
        \A i \in DOMAIN rows : rows[i].contest = sel.contest => rows[i].serial < sel.next

SameEvent(c, d) == c = d \/ {c, d} \subseteq 1..MaxDay

\* The contest that a restart brings back is the operator's own selection, in
\* an edit session the one he began it with and never that of a contact, nor
\* one picked during it, up to the date it rolls to; unless he typed another
\* name for his own and left the contest screen by a key that does not save
\* it, or has not left it yet (saveContestSelection).
SelectionSurvives ==
    ~unsaved => SameEvent(saved, (IF edit = 0 THEN sel ELSE home).contest)

\* However an edit session ends, and however many contacts it opened in turn,
\* the contest selection is the one it began with; the serial is too, or was
\* raised past the rows stored meanwhile (restorePreEditContestSelection).
SelectionRestored ==
    [][CancelEdit \/ DeleteEditing \/ SaveEdit =>
         /\ sel'.contest = home.contest
         /\ sel'.next >= home.next
         /\ sel'.serial \in {home.serial, sel'.next}]_vars

\* A late answer writes only to a row that still has the call it was asked
\* for, one detail that was blank and nothing else, and never into the next
\* contact's form as well (applyQRZRecordToLoggedQSO, applyPOTAToLoggedQSO).
LateAnswerMatches ==
    [][\A i \in DOMAIN rows \intersect DOMAIN rows' :
         rows'[i] # rows[i] /\ edit' = edit =>
            /\ \/ /\ rows[i].name = NoCall
                  /\ rows'[i] = [rows[i] EXCEPT !.name = rows[i].call]
               \/ /\ rows[i].park = NoCall
                  /\ rows'[i] = [rows[i] EXCEPT !.park = rows[i].call]
            /\ form' = form]_vars

\* "details never carry over from the previous contact" (resetDetailsForCall):
\* a contact logged from a new form has no other call's details.
NoCarryOver ==
    [][\A i \in DOMAIN rows' \ DOMAIN rows :
         /\ rows'[i].name \in {NoCall, rows'[i].call}
         /\ rows'[i].park \in {NoCall, rows'[i].call}]_vars
=============================================================================
