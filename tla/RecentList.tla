----------------------------- MODULE RecentList -----------------------------
(***************************************************************************)
(* The table of recent contacts (main.go): the newest contacts, or the     *)
(* history of the call being typed, and F9's browsing of what it shows,    *)
(* where "d" and a second "d" delete a contact.  Imports, late lookups and *)
(* the blinking of the cursor in the Call field change what is listed      *)
(* while the operator browses.                                             *)
(*                                                                         *)
(* A read of the log that fails leaves the list as it is, and is left out. *)
(***************************************************************************)
EXTENDS Integers, Sequences, FiniteSets, SequencesExt

CONSTANTS
    Heard,      \* the calls worked
    Nobody,     \* the Call field is blank
    Recent,     \* rows of the default list, 50 in the code
    MaxLogged   \* bound: contacts ever logged

ASSUME RecentConstantsOK ==
    /\ Nobody \notin Heard
    /\ Recent \in Nat \ {0} /\ MaxLogged \in Nat

VARIABLES
    logged,     \* the contacts of the log, by id
    lastID,     \* the last id handed out
    listed,     \* recentQSOs
    cursor,     \* the table's cursor, from 1; 0 is none
    focused,    \* tableFocused
    armed,      \* deleteArmedID
    typing,     \* the Call field
    history,    \* workedCall
    editingRow, \* editingQSOID
    importing,  \* an import has committed and its message is not handled
    prompt      \* history: the contact the last "press d again" names, until
                \* a key of the form or the table, and any key passed since

recentVars == <<logged, lastID, listed, cursor, focused, armed, typing, history,
                editingRow, importing, prompt>>

ID == 1..MaxLogged
None == 0
NoPrompt == [names |-> None, passed |-> TRUE]
Prompt(id) == [names |-> id, passed |-> FALSE]

\* A contact, by its call; Nobody when there is none of this id.
Logged == {id \in ID : logged[id] # Nobody}

NewestFirst(ids) == SetToSortSeq(ids, LAMBDA a, b : a > b)

\* recentQSOs
RecentOf(log) ==
    LET ids == NewestFirst({id \in ID : log[id] # Nobody}) IN
    SubSeq(ids, 1, Min({Len(ids), Recent}))

\* qsosByCall
HistoryOf(log, call) == NewestFirst({id \in ID : log[id] = call})

\* SetRows keeps the cursor in the list.
Kept(list) ==
    IF cursor > Len(list) THEN Len(list)
    ELSE IF cursor = 0 /\ Len(list) > 0 THEN 1 ELSE cursor

Show(list) == listed' = list /\ cursor' = Kept(list)

\* refreshTableRows
Refreshed(log) ==
    /\ Show(RecentOf(log))
    /\ history' = Nobody
    /\ armed' = None

\* checkDupe, as far as it changes the table
CallChecked(call) ==
    IF call = Nobody /\ history # Nobody THEN Refreshed(logged)
    ELSE IF call # history
    THEN Show(HistoryOf(logged, call)) /\ history' = call /\ UNCHANGED armed
    ELSE UNCHANGED <<listed, cursor, history, armed>>

RecentInit ==
    /\ logged = [id \in ID |-> Nobody] /\ lastID = 0
    /\ listed = <<>> /\ cursor = 0
    /\ focused = FALSE /\ armed = None
    /\ typing = Nobody /\ history = Nobody
    /\ editingRow = None
    /\ importing = FALSE
    /\ prompt = NoPrompt
-----------------------------------------------------------------------------
(* The form. *)

\* A keystroke in the Call field
TypeCall(call) ==
    /\ ~focused /\ call # typing
    /\ typing' = call
    /\ CallChecked(call)
    /\ prompt' = NoPrompt
    /\ UNCHANGED <<logged, lastID, focused, editingRow, importing>>

\* The final Enter: a new contact, or the edited one under
\* the call typed, unless it is gone meanwhile.
Enter ==
    /\ ~focused /\ typing # Nobody
    /\ \/ /\ editingRow = None /\ lastID < MaxLogged
          /\ lastID' = lastID + 1
          /\ logged' = [logged EXCEPT ![lastID + 1] = typing]
       \/ /\ editingRow \in Logged
          /\ logged' = [logged EXCEPT ![editingRow] = typing]
          /\ UNCHANGED lastID
    /\ typing' = Nobody /\ editingRow' = None
    /\ Refreshed(logged')
    /\ prompt' = NoPrompt
    /\ UNCHANGED <<focused, importing>>

\* ZAP, and /Z during an edit
DeleteByCommand ==
    /\ ~focused
    /\ \E id \in Logged :
          /\ id = editingRow \/ (editingRow = None /\ \A n \in Logged : n <= id)
          /\ logged' = [logged EXCEPT ![id] = Nobody]
    /\ typing' = Nobody /\ editingRow' = None
    /\ Refreshed(logged')
    /\ prompt' = NoPrompt
    /\ UNCHANGED <<lastID, focused, importing>>

\* Esc: cancelEditQSO leaves the table as it is.
CancelEdit ==
    /\ ~focused /\ editingRow # None
    /\ editingRow' = None /\ typing' = Nobody
    /\ prompt' = NoPrompt
    /\ UNCHANGED <<logged, lastID, listed, cursor, focused, armed, history, importing>>
-----------------------------------------------------------------------------
(* Browsing. *)

\* F9, and Esc in the table: setTableFocused
ToggleFocus ==
    /\ focused' = ~focused
    /\ armed' = None
    /\ prompt' = NoPrompt
    /\ UNCHANGED <<logged, lastID, listed, cursor, typing, history, editingRow, importing>>

\* Up, Down and the rest; the first of them after a "d" only cancels it.
Move(row) ==
    /\ focused /\ row \in DOMAIN listed
    /\ armed' = None
    /\ cursor' = IF armed # None THEN cursor ELSE row
    /\ prompt' = NoPrompt
    /\ UNCHANGED <<logged, lastID, listed, focused, typing, history, editingRow, importing>>

\* Enter in the table: beginEditQSO, also from one edit into the next.
BeginEdit ==
    /\ focused /\ cursor \in DOMAIN listed
    /\ editingRow' = listed[cursor]
    /\ typing' = logged[listed[cursor]]
    /\ focused' = FALSE /\ armed' = None
    /\ history' = Nobody
    /\ prompt' = NoPrompt
    /\ UNCHANGED <<logged, lastID, listed, cursor, importing>>

\* Mutant: the second "d" takes what the cursor is on.
ConfirmsAny(id) == armed # None

Confirms(id) == armed = id

\* "d"
D ==
    /\ focused /\ cursor \in DOMAIN listed
    /\ LET id == listed[cursor] IN
       IF Confirms(id)
       THEN /\ logged' = [logged EXCEPT ![id] = Nobody]
            /\ Refreshed(logged')
            /\ prompt' = NoPrompt
       ELSE /\ armed' = id
            /\ prompt' = Prompt(id)
            /\ UNCHANGED <<logged, listed, cursor, history>>
    /\ UNCHANGED <<lastID, focused, typing, editingRow, importing>>
\* F8, Ctrl+U, Ctrl+Y, Ctrl+X, Ctrl+O, Ctrl+R and Ctrl+P are taken before the
\* table sees them, and leave deleteArmedID as it is.
KeyBeforeTable ==
    /\ focused
    /\ prompt' = [prompt EXCEPT !.passed = TRUE]
    /\ UNCHANGED <<logged, lastID, listed, cursor, focused, armed, typing,
                   history, editingRow, importing>>
-----------------------------------------------------------------------------
(* Messages, at any moment. *)

\* runADIFImport commits a chunk of rows; the message comes later.
ImportCommits(call) ==
    /\ lastID < MaxLogged
    /\ lastID' = lastID + 1
    /\ logged' = [logged EXCEPT ![lastID + 1] = call]
    /\ importing' = TRUE
    /\ UNCHANGED <<listed, cursor, focused, armed, typing, history, editingRow, prompt>>

\* adifImportedMsg: refreshTableRows, then checkDupe.
ImportReported ==
    /\ importing /\ importing' = FALSE
    /\ armed' = None
    /\ IF typing = Nobody
       THEN Show(RecentOf(logged)) /\ history' = Nobody
       ELSE Show(HistoryOf(logged, typing)) /\ history' = typing
    /\ UNCHANGED <<logged, lastID, focused, typing, editingRow, prompt>>

\* applyQRZRecordToLoggedQSO: a late answer, written to a logged contact
LateAnswer ==
    /\ Logged # {}
    /\ Refreshed(logged)
    /\ UNCHANGED <<logged, lastID, focused, typing, editingRow, importing, prompt>>

\* Any message nothing else takes, such as the blinking of the cursor, goes
\* to the focused input; in the Call field the call is checked again, also
\* when the table has the focus.
Blink ==
    /\ CallChecked(typing)
    /\ UNCHANGED <<logged, lastID, focused, typing, editingRow, importing, prompt>>

RecentNext ==
    \/ \E call \in Heard \union {Nobody} : TypeCall(call)
    \/ Enter \/ DeleteByCommand \/ CancelEdit
    \/ ToggleFocus \/ BeginEdit \/ D \/ KeyBeforeTable
    \/ \E row \in 1..MaxLogged : Move(row)
    \/ \E call \in Heard : ImportCommits(call)
    \/ ImportReported \/ LateAnswer \/ Blink

RecentSpec == RecentInit /\ [][RecentNext]_recentVars
-----------------------------------------------------------------------------
(* Properties. *)

\* In the table only a second "d" deletes, and only the contact which the
\* first one's prompt named, whatever imports, late answers and blinks made of
\* the list under the cursor meanwhile, and with no key between the two that
\* the form or the table handled (updateRecentQSOsTable, refreshTableRows).
DeletesNamed ==
    [][\A id \in ID : focused /\ logged[id] # Nobody /\ logged'[id] = Nobody
          => prompt.names = id]_recentVars

\* "press d again to permanently delete %s, any other key cancels"
\* (updateRecentQSOsTable): a delete comes straight after its prompt.
OtherKeyCancels ==
    [][\A id \in ID : focused /\ logged[id] # Nobody /\ logged'[id] = Nobody
          => prompt = Prompt(id)]_recentVars
=============================================================================
