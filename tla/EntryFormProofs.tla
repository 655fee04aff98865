-------------------------- MODULE EntryFormProofs --------------------------
(***************************************************************************)
(* Proofs about EntryForm, for any calls, accounts, days and serials and   *)
(* for any number of contacts and of lookups in flight.                    *)
(***************************************************************************)
EXTENDS EntryForm, FiniteSetTheorems, WellFoundedInduction, TLAPS

(* Serials. *)

\* Of the serials of some contacts there is a largest.
LEMMA SerialMax ==
    ASSUME NEW T, T \subseteq Serial, T # {}
    PROVE  Max(T) \in T /\ \A x \in T : Max(T) >= x
<1> DEFINE R == OpToRel(<, Nat)
           U == {MaxSerial - x : x \in T}
<1>1. IsWellFoundedOn(R, Nat)
  BY NatLessThanWellFounded
<1>2. \A x \in T : x \in Nat /\ MaxSerial - x \in Nat
  BY FormConstantsOK DEF Serial
<1>3. U \subseteq Nat /\ U # {}
  BY <1>2
<1>4. \A x, y \in Nat : x < y => <<x, y>> \in R
  BY DEF OpToRel
<1> HIDE DEF R, U
<1>5. PICK u \in U : \A v \in U : ~(<<v, u>> \in R)
  BY <1>1, <1>3, WFMin
<1>6. PICK x \in T : u = MaxSerial - x
  BY <1>5 DEF U
<1>7. \A y \in T : x >= y
  <2> SUFFICES ASSUME NEW y \in T, ~(x >= y) PROVE FALSE
    OBVIOUS
  <2>1. MaxSerial - y \in U /\ MaxSerial - y < u
    BY <1>2, <1>6, FormConstantsOK DEF U
  <2> QED
    BY <1>2, <1>3, <1>4, <1>5, <2>1
<1> QED
  BY <1>7 DEF Max

\* A resumed serial is above every serial stored for the occurrence.
LEMMA ResumeOK ==
    ASSUME NEW S \in SUBSET Id, NEW log \in [S -> Row], NEW c
    PROVE  /\ Resume(log, c) \in 1..MaxSerial + 1
           /\ \A i \in S : log[i].contest = c => log[i].serial < Resume(log, c)
<1> DEFINE T == {0} \union {log[i].serial : i \in {j \in DOMAIN log : log[j].contest = c}}
<1>1. T \subseteq Serial /\ T # {}
  BY FormConstantsOK DEF Row, Serial
<1>2. \A i \in S : log[i].contest = c => log[i].serial \in T
  OBVIOUS
<1>3. Resume(log, c) = 1 + Max(T)
  BY DEF Resume
<1> HIDE DEF T
<1>4. Max(T) \in Serial /\ \A x \in T : x \in Serial /\ Max(T) >= x
  BY <1>1, SerialMax
<1> QED
  BY <1>2, <1>3, <1>4, FormConstantsOK DEF Serial

\* What the serial of a resumed selection is above.
Ahead(s, log) ==
    \A i \in DOMAIN log : log[i].contest = s.contest => log[i].serial < s.next

LEMMA ResumedOK ==
    ASSUME NEW S \in SUBSET Id, NEW log \in [S -> Row], NEW c \in Contest
    PROVE  /\ Resumed(log, c).contest = c /\ Resumed(log, c).sure = "yes"
           /\ Resumed(log, c).serial = Resumed(log, c).next
           /\ Resumed(log, c).next \in 1..MaxSerial + 1
           /\ Resumed(log, c).next <= MaxSerial => Resumed(log, c) \in Selection
           /\ Ahead(Resumed(log, c), log)
<1>1. /\ Resume(log, c) \in 1..MaxSerial + 1
      /\ \A i \in S : log[i].contest = c => log[i].serial < Resume(log, c)
  BY ResumeOK
<1>2. Resume(log, c) <= MaxSerial => Resume(log, c) \in Serial
  BY <1>1, FormConstantsOK DEF Serial
<1> QED
  BY <1>1, <1>2 DEF Resumed, Selection, Ahead

\* What an import or a saved edit makes of a selection.
LEMMA RaisedOK ==
    ASSUME NEW S \in SUBSET Id, NEW log \in [S -> Row], NEW s \in Selection,
           Raised(s, log).next <= MaxSerial
    PROVE  /\ Raised(s, log) \in Selection
           /\ Raised(s, log).contest = s.contest
           /\ Raised(s, log).next >= s.next
           /\ Raised(s, log).serial \in {s.serial, Raised(s, log).next}
           /\ s.contest # General => Ahead(Raised(s, log), log)
<1>0. s.contest \in Contest /\ s.next \in Nat
  BY FormConstantsOK DEF Selection, Serial
<1>1. CASE s.contest = General
  BY <1>0, <1>1, FormConstantsOK DEF Raised
<1>2. CASE s.contest # General /\ Resume(log, s.contest) > s.next
  <2>1. Raised(s, log) = Resumed(log, s.contest)
    BY <1>2 DEF Raised
  <2>2. Resumed(log, s.contest).next > s.next
    BY <1>2 DEF Resumed
  <2>3. Resumed(log, s.contest).next \in 1..MaxSerial + 1
    BY <1>0, ResumedOK
  <2>4. Resumed(log, s.contest).next >= s.next
    BY <1>0, <2>2, <2>3
  <2> QED
    BY <1>0, <2>1, <2>4, ResumedOK
<1>3. CASE s.contest # General /\ ~(Resume(log, s.contest) > s.next)
  <2>1. Raised(s, log) = [s EXCEPT !.sure = "yes"]
    BY <1>3 DEF Raised
  <2>2. /\ Raised(s, log) \in Selection
        /\ Raised(s, log).contest = s.contest
        /\ Raised(s, log).next = s.next
        /\ Raised(s, log).serial = s.serial
    BY <2>1 DEF Selection
  <2>3. Ahead(Raised(s, log), log)
    <3> SUFFICES ASSUME NEW i \in S, log[i].contest = s.contest
                 PROVE  log[i].serial < s.next
      BY <2>2 DEF Ahead
    <3>1. log[i].serial \in Int
      BY DEF Row, Serial
    <3>2. log[i].serial < Resume(log, s.contest) /\ Resume(log, s.contest) \in Int
      BY ResumeOK
    <3> QED
      BY <1>0, <1>3, <3>1, <3>2
  <2>4. s.next >= s.next
    BY <1>0
  <2> QED
    BY <2>2, <2>3, <2>4
<1> QED
  BY <1>1, <1>2, <1>3

-----------------------------------------------------------------------------
(* Types. *)

TypeRows ==
    /\ DOMAIN rows \in SUBSET Id /\ rows \in [DOMAIN rows -> Row]
    /\ lastId \in Id \union {0} /\ edit \in Id \union {0}
    /\ form \in [call : Owner, details : Owner, name : Owner, park : Owner]
    /\ original \in Row

TypeSelection ==
    /\ saved \in Contest
    /\ sel \in Selection /\ pre \in Selection /\ home \in Selection
    /\ post \in BOOLEAN /\ importing \in BOOLEAN
    /\ onContest \in BOOLEAN /\ unsaved \in BOOLEAN
    /\ day \in 1..MaxDay

TypeLookups ==
    /\ qrz \in [QRZSlot -> Lookup] /\ qrzActive \in QRZSlot \union {NoSlot}
    /\ pota \in [POTASlot -> Lookup] /\ potaActive \in POTASlot \union {NoSlot}
    /\ mapLookup \in [MapSlot -> MapLookup]
    /\ account \in Account \union {NoAccount}
    /\ session \in Account \union {NoAccount}

Types == TypeRows /\ TypeSelection /\ TypeLookups

LEMMA TypeParts == Types <=> TypeOK
BY DEF Types, TypeRows, TypeSelection, TypeLookups, TypeOK

LEMMA Blanks ==
    /\ NoRow \in Row /\ NoSelection \in Selection /\ NoLookup \in Lookup
    /\ NoMapLookup \in MapLookup
    /\ EmptyForm \in [call : Owner, details : Owner, name : Owner, park : Owner]
BY FormConstantsOK DEF NoRow, Row, NoSelection, Selection, NoLookup, Lookup,
       NoMapLookup, MapLookup, EmptyForm,
       Owner, Contest, Serial, General

\* What each of the operations on lookups makes of them.
LEMMA ForgetOK ==
    ASSUME NEW S, NEW lookups \in [S -> Lookup], NEW active \in S \union {NoSlot}
    PROVE  /\ Forget(lookups, active) \in [S -> Lookup]
           /\ \A t \in S : /\ Forget(lookups, active)[t].account = lookups[t].account
                           /\ Forget(lookups, active)[t].phase = "known" => lookups[t].phase = "known"
BY DEF Forget, Lookup

LEMMA AbandonOK ==
    ASSUME NEW S, NEW lookups \in [S -> Lookup]
    PROVE  /\ Abandon(lookups) \in [S -> Lookup]
           /\ \A t \in S : Abandon(lookups)[t].phase # "known"
BY Blanks DEF Abandon, Lookup, NoLookup

LEMMA OutdateOK ==
    ASSUME NEW asked \in [MapSlot -> MapLookup]
    PROVE  /\ Outdate(asked) \in [MapSlot -> MapLookup]
           /\ \A m \in MapSlot : ~Outdate(asked)[m].current
BY DEF Outdate, MapLookup

LEMMA DoneOK ==
    ASSUME NEW S, NEW lookups \in [S -> Lookup], NEW s \in S
    PROVE  /\ Done(lookups, s) \in [S -> Lookup]
           /\ Done(lookups, s)[s].phase # "known"
           /\ \A t \in S \ {s} : Done(lookups, s)[t] = lookups[t]
BY Blanks DEF Done, NoLookup

\* Every step keeps the types of the lookups.
LEMMA LookupSteps ==
    ASSUME Next, TypeRows, TypeLookups
    PROVE  TypeLookups'
<1> USE DEF TypeRows, TypeLookups
<1>0. NoLookup \in Lookup /\ form.call \in Owner /\ NoAccount \in Account \union {NoAccount}
  BY Blanks
<1>1. CASE LeaveCall
  <2>1. qrz' \in [QRZSlot -> Lookup] /\ qrzActive' \in QRZSlot \union {NoSlot}
    <3>1. CASE UNCHANGED <<qrz, qrzActive>>
      BY <3>1
    <3>2. CASE \E s \in QRZSlot : qrz' = Ask(qrz, qrzActive, s, account) /\ qrzActive' = s
      BY <1>0, <3>2 DEF Ask, Forget, Lookup
    <3> QED
      BY <1>1, <3>1, <3>2 DEF LeaveCall, AskQRZ
  <2>2. pota' \in [POTASlot -> Lookup] /\ potaActive' \in POTASlot \union {NoSlot}
    <3>1. CASE UNCHANGED <<pota, potaActive>>
      BY <3>1
    <3>2. CASE \E s \in POTASlot : pota' = Ask(pota, potaActive, s, NoAccount) /\ potaActive' = s
      <4>1. PICK s \in POTASlot : pota' = Ask(pota, potaActive, s, NoAccount) /\ potaActive' = s
        BY <3>2
      <4> QED
        BY <1>0, <4>1 DEF Ask, Forget, Lookup
    <3>3. AskPOTA
      BY <1>1 DEF LeaveCall
    <3>4. \/ UNCHANGED <<pota, potaActive>>
          \/ \E s \in POTASlot : pota' = Ask(pota, potaActive, s, NoAccount) /\ potaActive' = s
      BY <3>3 DEF AskPOTA
    <3> QED
      BY <3>1, <3>2, <3>4
  <2> QED
    BY <1>1, <2>1, <2>2 DEF LeaveCall
<1>2. ASSUME NEW at \in 1..MaxDay, Log(at) PROVE TypeLookups'
  <2>1. /\ lastId + 1 \in Id
        /\ qrz' = Bind(qrz, qrzActive, form.call, lastId + 1)
        /\ pota' = Bind(pota, potaActive, form.call, lastId + 1)
        /\ qrzActive' = NoSlot /\ potaActive' = NoSlot /\ UNCHANGED <<mapLookup, account, session>>
    BY <1>2 DEF Log
  <2> QED
    BY <2>1 DEF Bind, Lookup
<1>3. ASSUME pota' = Forget(pota, potaActive), potaActive' = NoSlot, KeepQRZ PROVE TypeLookups'
  BY <1>3, ForgetOK DEF KeepQRZ
<1>4. ASSUME NEW s \in QRZSlot, qrz' = Done(qrz, s), qrzActive' = StillActive(qrzActive, s),
             session' \in {session, qrz[s].account}, UNCHANGED <<pota, potaActive, mapLookup, account>>
      PROVE  TypeLookups'
  BY <1>4, DoneOK DEF StillActive, Lookup
<1>5. ASSUME NEW s \in POTASlot, pota' = Done(pota, s), potaActive' = StillActive(potaActive, s), KeepQRZ
      PROVE  TypeLookups'
  BY <1>5, DoneOK DEF StillActive, KeepQRZ
<1>6. ASSUME NEW a \in Account \union {NoAccount}, SaveCredentials(a) PROVE TypeLookups'
  BY <1>6, AbandonOK, OutdateOK DEF SaveCredentials
<1>7. ASSUME NEW stale \in BOOLEAN, Restart(stale) PROVE TypeLookups'
  BY <1>7, Blanks DEF Restart
<1>8. CASE UNCHANGED lookupVars
  BY <1>8 DEF lookupVars
<1>9. CASE Zap \/ CancelEdit \/ DeleteEditing \/ SaveEdit \/ \E i \in Id : BeginEdit(i)
  BY <1>3, <1>9 DEF Zap, CancelEdit, DeleteEditing, SaveEdit, BeginEdit, EndEdit, ClearForm
<1>10. ASSUME NEW s \in QRZSlot, NEW found \in BOOLEAN, QRZAnswer(s, found) PROVE TypeLookups'
  <2>1. qrz' = Done(qrz, s) /\ qrzActive' = StillActive(qrzActive, s)
        /\ session' \in {session, qrz[s].account} /\ UNCHANGED <<pota, potaActive, mapLookup, account>>
    BY <1>10 DEF QRZAnswer
  <2> QED
    BY <1>4, <2>1
<1>11. ASSUME NEW s \in QRZSlot, QRZError(s) PROVE TypeLookups'
  <2>1. qrz' = Done(qrz, s) /\ qrzActive' = StillActive(qrzActive, s)
        /\ session' \in {session, qrz[s].account} /\ UNCHANGED <<pota, potaActive, mapLookup, account>>
    BY <1>11 DEF QRZError
  <2> QED
    BY <1>4, <2>1
<1>12. ASSUME NEW s \in POTASlot, NEW found \in BOOLEAN, POTAAnswer(s, found) PROVE TypeLookups'
  BY <1>5, <1>12 DEF POTAAnswer
<1>13. ASSUME NEW m \in MapSlot, AskMap(m) PROVE TypeLookups'
  BY <1>13 DEF AskMap, MapLookup
<1>14. ASSUME NEW m \in MapSlot, NEW login \in BOOLEAN, MapAnswer(m, login) PROVE TypeLookups'
  <2>1. mapLookup[m].account \in Account \union {NoAccount}
    BY DEF MapLookup
  <2> QED
    BY <1>14, <2>1, Blanks DEF MapAnswer
<1> HIDE DEF TypeRows, TypeLookups
<1> QED
  BY <1>1, <1>2, <1>6, <1>7, <1>8, <1>9, <1>10, <1>11, <1>12, <1>13, <1>14
     DEF Next, TypeCall, TogglePost, SelectEvent, LogDupe, ClearSelection, OpenContest, NameContest,
         OverrideSerial, LeaveContest, TurnFromContest,
         DeleteRow, ImportRow, ImportDone, NewDay

\* The selection a contact is logged under, and the one after it.
LEMMA RolledOK ==
    ASSUME TypeRows, TypeSelection, NEW at \in 1..MaxDay
    PROVE  /\ Rolled(sel, at).contest \in Contest
           /\ Rolled(sel, at).contest = General <=> sel.contest = General
           /\ Rolled(sel, at).next <= MaxSerial => Rolled(sel, at) \in Selection
           /\ Rolled(sel, at) \in Selection
                 \/ (Rolled(sel, at) = Resumed(rows, at) /\ sel.contest # General)
           /\ Rolled(sel, at) = sel
                 \/ (Rolled(sel, at) = Resumed(rows, at) /\ sel.contest # General)
                 \/ (Rolled(sel, at).sure = "typed" /\ Rolled(sel, at).next = sel.next)
<1>0. at \in Contest /\ at # General
  BY FormConstantsOK DEF Contest, General
<1>1. sel \in Selection /\ sel.contest \in Contest /\ rows \in [DOMAIN rows -> Row] /\ DOMAIN rows \in SUBSET Id
  BY DEF TypeRows, TypeSelection, Selection
<1>2. CASE sel.contest \in {General, at} \union Undated
  BY <1>1, <1>2 DEF Rolled
<1>3. CASE sel.contest \notin {General, at} \union Undated /\ sel.serial = sel.next
  <2>1. Rolled(sel, at) = Resumed(rows, at)
    BY <1>3 DEF Rolled
  <2> QED
    BY <1>0, <1>1, <1>3, <2>1, ResumedOK
<1>4. CASE sel.contest \notin {General, at} \union Undated /\ sel.serial # sel.next
  <2>1. Rolled(sel, at) = [sel EXCEPT !.contest = at, !.sure = "typed"]
    BY <1>4 DEF Rolled
  <2> QED
    BY <1>0, <1>1, <1>4, <2>1 DEF Selection
<1> QED
  BY <1>2, <1>3, <1>4

LEMMA AdvancedOK ==
    ASSUME TypeRows, TypeSelection, NEW at \in 1..MaxDay,
           Advanced(Rolled(sel, at)).next <= MaxSerial
    PROVE  /\ Rolled(sel, at) \in Selection
           /\ Advanced(Rolled(sel, at)) \in Selection
           /\ Advanced(Rolled(sel, at)).contest = Rolled(sel, at).contest
<1> DEFINE s == Rolled(sel, at)
<1>1. s \in Selection
  <2>1. CASE s = Resumed(rows, at)
    <3>1. at \in Contest /\ rows \in [DOMAIN rows -> Row] /\ DOMAIN rows \in SUBSET Id
      BY FormConstantsOK DEF Contest, General, TypeRows
    <3>2. s.serial = s.next /\ s.next \in 1..MaxSerial + 1
      BY <2>1, <3>1, ResumedOK
    <3>3. Advanced(s).next = s.next + 1
      BY <3>2, FormConstantsOK DEF Advanced
    <3>4. s.next <= MaxSerial
      BY <3>2, <3>3, FormConstantsOK
    <3> QED
      BY <3>4, RolledOK
  <2> QED
    BY <2>1, RolledOK
<1> HIDE DEF s
<1>2. s.next \in 0..MaxSerial /\ s.serial \in 0..MaxSerial
  BY <1>1 DEF Selection, Serial
<1>3. CASE s.next = 0
  BY <1>1, <1>3 DEF Advanced, s
<1>4. CASE s.next # 0
  <2> DEFINE n == IF s.serial > 0 THEN s.serial + 1 ELSE s.next + 1
  <2>1. n \in Nat
    BY <1>2, FormConstantsOK
  <2>2. Advanced(s) = [s EXCEPT !.next = n, !.serial = n,
                                !.sure = IF s.serial = s.next THEN s.sure ELSE "typed"]
    BY <1>4 DEF Advanced
  <2> HIDE DEF n
  <2>3. n = Advanced(s).next /\ Advanced(s).contest = s.contest
    BY <1>1, <2>2 DEF Selection
  <2>4. n \in Serial
    BY <2>1, <2>3, FormConstantsOK DEF Serial, s
  <2>5. Advanced(s) \in Selection
    BY <1>1, <2>2, <2>4 DEF Selection
  <2> QED
    BY <1>1, <2>3, <2>5 DEF s
<1> QED
  BY <1>3, <1>4

\* Every step keeps the types of the selections.
LEMMA SelectionSteps ==
    ASSUME Next, TypeRows, TypeSelection, TypeRows'
    PROVE  TypeSelection'
<1>0. NoSelection \in Selection /\ General \in Contest /\ \A at \in 1..MaxDay : at \in Contest
  BY Blanks, FormConstantsOK DEF Contest, General
<1>1. DOMAIN rows \in SUBSET Id /\ rows \in [DOMAIN rows -> Row]
  BY DEF TypeRows
<1>2. ASSUME NEW at \in 1..MaxDay, SelectEvent(at) PROVE TypeSelection'
  <2>1. sel' = Resumed(rows, at) /\ Resumed(rows, at).next <= MaxSerial
    BY <1>2 DEF SelectEvent, Resumed
  <2>2. sel' \in Selection
    BY <1>0, <1>1, <2>1, ResumedOK
  <2> QED
    BY <1>0, <1>2, <2>2 DEF SelectEvent, SaveSelection, Remember, TypeSelection
<1>3. ASSUME NEW at \in 1..MaxDay, LogDupe(at) PROVE TypeSelection'
  <2>1. sel' \in Selection
    BY <1>3, RolledOK DEF LogDupe
  <2> QED
    BY <1>3, <2>1 DEF LogDupe, screenVars, TypeSelection
<1>4. ASSUME NEW at \in 1..MaxDay, Log(at) PROVE TypeSelection'
  <2>1. sel' = Advanced(Rolled(sel, at)) /\ Advanced(Rolled(sel, at)).next <= MaxSerial
        /\ saved' = Rolled(sel, at).contest
    BY <1>4 DEF Log
  <2>2. sel' \in Selection /\ saved' \in Contest
    BY <2>1, AdvancedOK DEF Selection
  <2> QED
    BY <1>4, <2>2 DEF Log, TypeSelection
<1>5. CASE ClearSelection
  BY <1>0, <1>5 DEF ClearSelection, SaveSelection, Remember, TypeSelection
<1>6. ASSUME NEW n \in 1..MaxSerial, OverrideSerial(n) PROVE TypeSelection'
  <2>1. sel' \in Selection
    BY <1>6, FormConstantsOK DEF OverrideSerial, TypeSelection, Selection, Serial
  <2> QED
    BY <1>6, <2>1 DEF OverrideSerial, TypeSelection, screenVars
<1>17. ASSUME NEW c \in Contest, NameContest(c) PROVE TypeSelection'
  <2>1. sel' \in Selection
    BY <1>17 DEF NameContest, TypeSelection, Selection
  <2> QED
    BY <1>17, <2>1 DEF NameContest, Remember, TypeSelection
<1>18. CASE OpenContest \/ TurnFromContest
  BY <1>18 DEF OpenContest, TurnFromContest, TypeSelection
<1>19. CASE LeaveContest
  <2>1. sel.contest \in Contest
    BY DEF TypeSelection, Selection
  <2> QED
    BY <1>19, <2>1 DEF LeaveContest, SaveSelection, Remember, TypeSelection
<1>7. CASE Zap
  <2>1. sel' \in Selection
    BY <1>7 DEF Zap, Cleared, TypeSelection, Selection
  <2> QED
    BY <1>7, <2>1 DEF Zap, screenVars, TypeSelection
<1>8. ASSUME NEW i \in Id, BeginEdit(i) PROVE TypeSelection'
  <2>1. rows[i].contest \in Contest /\ rows[i].serial \in Serial
    BY <1>1, <1>8 DEF BeginEdit, Row
  <2>2. sel' \in Selection
    BY <1>8, <2>1 DEF BeginEdit, TypeSelection, Selection
  <2> QED
    BY <1>8, <2>2 DEF BeginEdit, SetAside, screenVars, TypeSelection
<1>9. CASE CancelEdit \/ DeleteEditing
  BY <1>0, <1>9 DEF CancelEdit, DeleteEditing, EndEdit, screenVars, TypeSelection
<1>10. CASE SaveEdit
  <2>1. sel' = Raised(pre, rows') /\ Raised(pre, rows').next <= MaxSerial
    BY <1>10 DEF SaveEdit
  <2>2. sel' \in Selection
    BY <1>10, <2>1, RaisedOK DEF TypeRows, TypeSelection
  <2> QED
    BY <1>0, <1>10, <2>2 DEF SaveEdit, EndEdit, screenVars, TypeSelection
<1>11. CASE ImportDone
  <2>1. sel' \in Selection
    BY <1>1, <1>11, RaisedOK DEF ImportDone, screenVars, TypeSelection
  <2>2. pre' \in Selection
    BY <1>11 DEF ImportDone, TypeSelection, Selection
  <2> QED
    BY <1>11, <2>1, <2>2 DEF ImportDone, screenVars, TypeSelection
<1>12. ASSUME NEW stale \in BOOLEAN, Restart(stale) PROVE TypeSelection'
  <2>1. sel' \in {NoSelection, Resumed(rows, Restored)} /\ sel'.next <= MaxSerial /\ Restored \in Contest
    BY <1>0, <1>12 DEF Restart, Restored, TypeSelection
  <2>2. sel' \in Selection
    BY <1>0, <1>1, <2>1, ResumedOK
  <2> QED
    BY <1>0, <1>12, <2>2 DEF Restart, TypeSelection
<1>13. CASE NewDay
  BY <1>13, FormConstantsOK DEF NewDay, screenVars, TypeSelection
<1>14. CASE TogglePost
  BY <1>14 DEF TogglePost, screenVars, TypeSelection
<1>15. ASSUME NEW c, NEW contest, NEW n, ImportRow(c, contest, n) PROVE TypeSelection'
  BY <1>15 DEF ImportRow, screenVars, TypeSelection
<1>16. CASE UNCHANGED <<saved, sel, pre, home, post, importing, day, screenVars>>
  BY <1>16 DEF screenVars, TypeSelection
<1> QED
  BY <1>2, <1>3, <1>4, <1>5, <1>6, <1>7, <1>8, <1>9, <1>10, <1>11, <1>12, <1>13, <1>14, <1>15, <1>16,
     <1>17, <1>18, <1>19
     DEF Next, TypeCall, LeaveCall, DeleteRow, QRZAnswer, QRZError, POTAAnswer, AskMap, MapAnswer,
         SaveCredentials

\* Every step keeps the types of the log and of the form.
LEMMA RowSteps ==
    ASSUME Next, Types
    PROVE  TypeRows'
<1>0. TypeRows /\ TypeSelection /\ TypeLookups
  BY DEF Types
<1>1. /\ DOMAIN rows \in SUBSET Id /\ rows \in [DOMAIN rows -> Row] /\ NoRow \in Row
      /\ EmptyForm \in [call : Owner, details : Owner, name : Owner, park : Owner]
      /\ NoCall \in Owner
  BY <1>0, Blanks DEF TypeRows, Owner
<1>2. ASSUME NEW c \in Owner, TypeCall(c) PROVE TypeRows'
  BY <1>0, <1>2 DEF TypeCall, TypeRows
<1>3. CASE LeaveCall
  BY <1>0, <1>1, <1>3 DEF LeaveCall, DetailsFor, TypeRows
<1>4. ASSUME NEW at \in 1..MaxDay, Log(at) PROVE TypeRows'
  <2> DEFINE s == Rolled(sel, at)
             new == [call |-> form.call, contest |-> s.contest, serial |-> s.serial,
                     name |-> form.name, park |-> form.park]
  <2>1. /\ Advanced(s).next <= MaxSerial /\ lastId + 1 \in Id
        /\ rows' = [i \in DOMAIN rows \union {lastId + 1} |-> IF i = lastId + 1 THEN new ELSE rows[i]]
        /\ lastId' = lastId + 1 /\ form' = EmptyForm /\ UNCHANGED <<edit, original>>
    BY <1>4 DEF Log
  <2>2. s \in Selection
    BY <1>0, <2>1, AdvancedOK
  <2> HIDE DEF s
  <2>3. new \in Row
    BY <1>0, <2>2 DEF Row, Selection, TypeRows
  <2> HIDE DEF new
  <2> QED
    BY <1>0, <1>1, <2>1, <2>3 DEF TypeRows
<1>5. CASE Zap
  BY <1>0, <1>1, <1>5 DEF Zap, ClearForm, TypeRows
<1>6. ASSUME NEW i \in Id, BeginEdit(i) PROVE TypeRows'
  <2>1. rows[i] \in Row
    BY <1>1, <1>6 DEF BeginEdit
  <2>2. form' \in [call : Owner, details : Owner, name : Owner, park : Owner]
    BY <1>6, <2>1 DEF BeginEdit, Row
  <2> QED
    BY <1>0, <1>1, <1>6, <2>1, <2>2 DEF BeginEdit, TypeRows
<1>7. CASE CancelEdit \/ DeleteEditing
  BY <1>0, <1>1, <1>7 DEF CancelEdit, DeleteEditing, EndEdit, ClearForm, TypeRows
<1>8. CASE SaveEdit
  <2> DEFINE new == [call |-> form.call, contest |-> sel.contest, serial |-> sel.serial,
                     name |-> form.name, park |-> form.park]
  <2>1. rows' = [rows EXCEPT ![edit] = new] /\ edit' = 0 /\ original' = NoRow /\ form' = EmptyForm
        /\ lastId' = lastId
    BY <1>8 DEF SaveEdit, EndEdit, ClearForm
  <2>2. new \in Row
    BY <1>0 DEF Row, Selection, TypeRows, TypeSelection
  <2> HIDE DEF new
  <2> QED
    BY <1>0, <1>1, <2>1, <2>2 DEF TypeRows
<1>9. ASSUME NEW i \in Id, DeleteRow(i) PROVE TypeRows'
  BY <1>0, <1>1, <1>9 DEF DeleteRow, TypeRows
<1>10. ASSUME NEW s \in QRZSlot, NEW found \in BOOLEAN, QRZAnswer(s, found) PROVE TypeRows'
  <2>1. qrz[s].call \in Owner
    BY <1>0 DEF TypeLookups, Lookup
  <2>2. /\ UNCHANGED <<lastId, edit, original>>
        /\ rows' = rows
              \/ (qrz[s].qso \in DOMAIN rows
                  /\ rows' = [rows EXCEPT ![qrz[s].qso].name = Fill(rows[qrz[s].qso].name, qrz[s].call)])
        /\ form' = form \/ form' = [form EXCEPT !.name = Fill(form.name, qrz[s].call)]
    BY <1>10 DEF QRZAnswer, SameContact
  <2>3. form' \in [call : Owner, details : Owner, name : Owner, park : Owner]
    BY <1>0, <2>1, <2>2 DEF TypeRows, Fill
  <2>4. DOMAIN rows' = DOMAIN rows /\ rows' \in [DOMAIN rows -> Row]
    <3>1. CASE rows' = rows
      BY <1>1, <3>1
    <3>2. ASSUME NEW i \in DOMAIN rows, NEW v \in Owner, rows' = [rows EXCEPT ![i].name = v]
          PROVE  DOMAIN rows' = DOMAIN rows /\ rows' \in [DOMAIN rows -> Row]
      <4>1. [rows[i] EXCEPT !.name = v] \in Row
        BY <1>1 DEF Row
      <4> QED
        BY <1>1, <3>2, <4>1
    <3>3. ASSUME qrz[s].qso \in DOMAIN rows PROVE Fill(rows[qrz[s].qso].name, qrz[s].call) \in Owner
      BY <1>1, <2>1, <3>3 DEF Fill, Row
    <3> QED
      BY <2>2, <3>1, <3>2, <3>3
  <2> QED
    BY <1>0, <2>2, <2>3, <2>4 DEF TypeRows
<1>11. ASSUME NEW s \in POTASlot, NEW found \in BOOLEAN, POTAAnswer(s, found) PROVE TypeRows'
  <2>1. pota[s].call \in Owner
    BY <1>0 DEF TypeLookups, Lookup
  <2>2. /\ UNCHANGED <<lastId, edit, original>>
        /\ rows' = rows
              \/ (pota[s].qso \in DOMAIN rows
                  /\ rows' = [rows EXCEPT ![pota[s].qso].park = Fill(rows[pota[s].qso].park, pota[s].call)])
        /\ form' = form \/ form' = [form EXCEPT !.park = Fill(form.park, pota[s].call)]
    BY <1>11 DEF POTAAnswer, SameContact
  <2>3. form' \in [call : Owner, details : Owner, name : Owner, park : Owner]
    BY <1>0, <2>1, <2>2 DEF TypeRows, Fill
  <2>4. DOMAIN rows' = DOMAIN rows /\ rows' \in [DOMAIN rows -> Row]
    <3>1. CASE rows' = rows
      BY <1>1, <3>1
    <3>2. ASSUME NEW i \in DOMAIN rows, NEW v \in Owner, rows' = [rows EXCEPT ![i].park = v]
          PROVE  DOMAIN rows' = DOMAIN rows /\ rows' \in [DOMAIN rows -> Row]
      <4>1. [rows[i] EXCEPT !.park = v] \in Row
        BY <1>1 DEF Row
      <4> QED
        BY <1>1, <3>2, <4>1
    <3>3. ASSUME pota[s].qso \in DOMAIN rows PROVE Fill(rows[pota[s].qso].park, pota[s].call) \in Owner
      BY <1>1, <2>1, <3>3 DEF Fill, Row
    <3> QED
      BY <2>2, <3>1, <3>2, <3>3
  <2> QED
    BY <1>0, <2>2, <2>3, <2>4 DEF TypeRows
<1>12. ASSUME NEW c \in Call, NEW contest \in 1..MaxDay, NEW n \in 1..MaxSerial, ImportRow(c, contest, n)
       PROVE  TypeRows'
  <2> DEFINE new == [NoRow EXCEPT !.call = c, !.contest = contest, !.serial = n]
  <2>1. /\ lastId + 1 \in Id /\ lastId' = lastId + 1 /\ UNCHANGED <<form, edit, original>>
        /\ rows' = [i \in DOMAIN rows \union {lastId + 1} |-> IF i = lastId + 1 THEN new ELSE rows[i]]
    BY <1>12 DEF ImportRow
  <2>2. new \in Row
    <3>1. contest \in Contest /\ n \in Serial /\ c \in Owner
      BY FormConstantsOK DEF Contest, Serial, General, Owner
    <3> QED
      BY <1>1, <3>1 DEF Row
  <2> HIDE DEF new
  <2> QED
    BY <1>0, <1>1, <2>1, <2>2 DEF TypeRows
<1>13. ASSUME NEW stale \in BOOLEAN, Restart(stale) PROVE TypeRows'
  BY <1>0, <1>1, <1>13 DEF Restart, TypeRows
<1>14. CASE UNCHANGED <<rows, lastId, edit, form, original>>
  BY <1>0, <1>14 DEF TypeRows
<1> QED
  BY <1>2, <1>3, <1>4, <1>5, <1>6, <1>7, <1>8, <1>9, <1>10, <1>11, <1>12, <1>13, <1>14
     DEF Next, TogglePost, SelectEvent, LogDupe, ClearSelection, OpenContest, NameContest,
         OverrideSerial, LeaveContest, TurnFromContest, QRZError, AskMap, MapAnswer,
         SaveCredentials, ImportDone, NewDay

\* The variables of every state have the types of TypeOK.
LEMMA TypesOK == Types /\ [Next]_vars => Types'
<1> SUFFICES ASSUME Types, [Next]_vars PROVE Types'
  OBVIOUS
<1>1. CASE Next
  BY <1>1, RowSteps, SelectionSteps, LookupSteps DEF Types
<1>2. CASE UNCHANGED vars
  BY <1>2 DEF vars, lookupVars, screenVars, Types, TypeRows, TypeSelection, TypeLookups
<1> QED
  BY <1>1, <1>2

LEMMA InitTypes == Init => Types
<1> SUFFICES ASSUME Init PROVE Types
  OBVIOUS
<1>1. TypeRows
  BY Blanks DEF Init, TypeRows
<1>2. TypeSelection
  <2>1. General \in Contest /\ 1 \in 1..MaxDay
    BY FormConstantsOK DEF Contest, General
  <2> QED
    BY <2>1, Blanks DEF Init, TypeSelection
<1>3. TypeLookups
  BY Blanks DEF Init, TypeLookups
<1> QED
  BY <1>1, <1>2, <1>3 DEF Types

\* Forms, rows, lookups and the contest selection keep their types through
\* every handler, for any calls, rows, accounts and lookups (Update).
THEOREM FormTypes == Spec => []TypeOK
<1> QED
  BY InitTypes, TypesOK, TypeParts, PTL DEF Spec
-----------------------------------------------------------------------------
(* The stored contact that is being edited. *)

LEMMA IdsAreNumbers == 0 \notin Id /\ \A i \in Id : i \in Nat
<1>1. Cardinality(Id) \in Nat /\ Id = 1..Cardinality(Id)
  BY FormConstantsOK, FS_CardinalityType
<1> QED
  BY <1>1

\* With types, row ids are handed out in order, and an open edit has the row
\* as it is.
EditInv ==
    /\ Types
    /\ edit <= lastId /\ \A i \in DOMAIN rows : i <= lastId
    /\ EditCopyFresh

LEMMA EditInvOK == EditInv /\ [Next]_vars => EditInv'
<1> DEFINE Goal == edit' <= lastId' /\ (\A i \in DOMAIN rows' : i <= lastId') /\ EditCopyFresh'
<1> SUFFICES ASSUME EditInv, [Next]_vars PROVE Goal
  BY TypesOK DEF EditInv
<1>0. /\ DOMAIN rows \subseteq Id /\ rows \in [DOMAIN rows -> Row]
      /\ EditCopyFresh /\ edit <= lastId /\ \A i \in DOMAIN rows : i <= lastId
      /\ lastId \in Nat /\ edit \in Nat /\ \A i \in DOMAIN rows : i \in Nat /\ i # 0
  BY IdsAreNumbers DEF EditInv, Types, TypeRows
<1>1. CASE UNCHANGED <<rows, lastId, edit, original>>
  BY <1>0, <1>1 DEF EditCopyFresh
<1>2. ASSUME NEW new, rows' = [i \in DOMAIN rows \union {lastId + 1} |-> IF i = lastId + 1 THEN new ELSE rows[i]],
             lastId' = lastId + 1, UNCHANGED <<edit, original>>
      PROVE  Goal
  <2>1. edit # lastId + 1 /\ edit <= lastId + 1
    BY <1>0
  <2>2. \A i \in DOMAIN rows' : i <= lastId'
    BY <1>0, <1>2
  <2>3. EditCopyFresh'
    BY <1>0, <1>2, <2>1 DEF EditCopyFresh
  <2> QED
    BY <1>2, <2>1, <2>2, <2>3
<1>3. ASSUME edit' = 0, lastId' = lastId, DOMAIN rows' \subseteq DOMAIN rows PROVE Goal
  BY <1>0, <1>3 DEF EditCopyFresh
<1>4. ASSUME NEW at \in 1..MaxDay, Log(at) PROVE Goal
  BY <1>2, <1>4 DEF Log
<1>5. CASE Zap
  <2>1. edit' = 0 /\ lastId' = lastId /\ DOMAIN rows' \subseteq DOMAIN rows
    BY <1>5 DEF Zap
  <2> QED
    BY <1>3, <2>1
<1>6. ASSUME NEW i \in Id, BeginEdit(i) PROVE Goal
  BY <1>0, <1>6 DEF BeginEdit, EditCopyFresh
<1>7. CASE CancelEdit \/ DeleteEditing
  <2>1. edit' = 0 /\ lastId' = lastId /\ DOMAIN rows' \subseteq DOMAIN rows
    BY <1>7 DEF CancelEdit, DeleteEditing, EndEdit
  <2> QED
    BY <1>3, <2>1
<1>8. CASE SaveEdit
  <2>1. edit' = 0 /\ lastId' = lastId /\ DOMAIN rows' = DOMAIN rows
    BY <1>8 DEF SaveEdit, EndEdit
  <2> QED
    BY <1>3, <2>1
<1>9. ASSUME NEW i \in Id, DeleteRow(i) PROVE Goal
  BY <1>0, <1>9 DEF DeleteRow, EditCopyFresh
<1>10. ASSUME NEW i, i # edit, NEW v, UNCHANGED <<lastId, edit, original>>,
              rows' = rows \/ rows' = [rows EXCEPT ![i] = v]
       PROVE  Goal
  BY <1>0, <1>10 DEF EditCopyFresh
<1>11. ASSUME NEW s \in QRZSlot, NEW found \in BOOLEAN, QRZAnswer(s, found) PROVE Goal
  <2>1. /\ UNCHANGED <<lastId, edit, original>>
        /\ rows' = rows
              \/ (qrz[s].qso # edit /\ rows' = [rows EXCEPT ![qrz[s].qso] =
                     [@ EXCEPT !.name = Fill(rows[qrz[s].qso].name, qrz[s].call)]])
    BY <1>11 DEF QRZAnswer, ToRow
  <2> QED
    BY <1>1, <1>10, <2>1
<1>12. ASSUME NEW s \in POTASlot, NEW found \in BOOLEAN, POTAAnswer(s, found) PROVE Goal
  <2>1. /\ UNCHANGED <<lastId, edit, original>>
        /\ rows' = rows
              \/ (pota[s].qso # edit /\ rows' = [rows EXCEPT ![pota[s].qso] =
                     [@ EXCEPT !.park = Fill(rows[pota[s].qso].park, pota[s].call)]])
    BY <1>12 DEF POTAAnswer, ToRow
  <2> QED
    BY <1>1, <1>10, <2>1
<1>13. ASSUME NEW c \in Call, NEW contest \in 1..MaxDay, NEW n \in 1..MaxSerial, ImportRow(c, contest, n)
       PROVE  Goal
  BY <1>2, <1>13 DEF ImportRow
<1>14. ASSUME NEW stale \in BOOLEAN, Restart(stale) PROVE Goal
  <2>1. edit' = 0 /\ lastId' = lastId /\ rows' = rows
    BY <1>14 DEF Restart
  <2> QED
    BY <1>3, <2>1
<1> HIDE DEF Goal
<1>15. CASE Next
  BY <1>1, <1>4, <1>5, <1>6, <1>7, <1>8, <1>9, <1>11, <1>12, <1>13, <1>14, <1>15
     DEF Next, TypeCall, LeaveCall, TogglePost, SelectEvent, LogDupe, ClearSelection, OpenContest,
         NameContest, OverrideSerial, LeaveContest, TurnFromContest, QRZError, AskMap, MapAnswer,
         SaveCredentials, ImportDone, NewDay
<1> QED
  BY <1>1, <1>15 DEF vars

LEMMA EditInvHolds == Spec => []EditInv
<1>1. Init => EditInv
  <2> SUFFICES ASSUME Init PROVE EditInv
    OBVIOUS
  <2>1. rows = [i \in {} |-> NoRow] /\ edit = 0 /\ lastId = 0
    BY DEF Init
  <2> QED
    BY <2>1, InitTypes DEF EditInv, EditCopyFresh
<1> QED
  BY <1>1, EditInvOK, PTL DEF Spec

\* An edit is saved from a copy of the row that nothing has overtaken, for
\* any number of contacts and of lookups in flight (qrzCallsignLookupMsg).
THEOREM EditCopyFreshHolds == Spec => []EditCopyFresh
<1>1. EditInv => EditCopyFresh
  BY DEF EditInv
<1> QED
  BY <1>1, EditInvHolds, PTL

-----------------------------------------------------------------------------
(* The QRZ session key. *)

\* No lookup of the form is still known, and none of the map is of the
\* current generation, under other credentials than the ones in use.
FormLookupsOK == \A s \in QRZSlot : qrz[s].phase = "known" => qrz[s].account = account
MapLookupsOK == \A m \in MapSlot : mapLookup[m].current => mapLookup[m].account = account

KeyInv ==
    /\ Types
    /\ SessionKeyCurrent
    /\ FormLookupsOK
    /\ MapLookupsOK

LEMMA KeyInvOK == KeyInv /\ [Next]_vars => KeyInv'
<1> DEFINE Goal == SessionKeyCurrent' /\ FormLookupsOK' /\ MapLookupsOK'
<1> SUFFICES ASSUME KeyInv, [Next]_vars PROVE Goal
  BY TypesOK DEF KeyInv
<1>0. /\ qrz \in [QRZSlot -> Lookup] /\ qrzActive \in QRZSlot \union {NoSlot}
      /\ account \in Account \union {NoAccount} /\ form.call \in Owner
      /\ session \in {NoAccount, account}
      /\ \A s \in QRZSlot : qrz[s].phase = "known" => qrz[s].account = account
      /\ mapLookup \in [MapSlot -> MapLookup]
      /\ \A m \in MapSlot : mapLookup[m].current => mapLookup[m].account = account
  BY DEF KeyInv, FormLookupsOK, MapLookupsOK, SessionKeyCurrent, Types, TypeLookups, TypeRows
<1> USE DEF FormLookupsOK, MapLookupsOK
<1>1. CASE UNCHANGED <<qrz, mapLookup, account, session>>
  BY <1>0, <1>1 DEF SessionKeyCurrent
<1>2. CASE LeaveCall
  <2>1. CASE UNCHANGED <<qrz, qrzActive>>
    BY <1>1, <1>2, <2>1 DEF LeaveCall
  <2>2. ASSUME NEW s \in QRZSlot, qrz' = Ask(qrz, qrzActive, s, account), UNCHANGED <<mapLookup, account, session>>
        PROVE  Goal
    <3>1. /\ qrz'[s].account = account
          /\ \A t \in QRZSlot \ {s} : qrz'[t].account = qrz[t].account
                                      /\ (qrz'[t].phase = "known" => qrz[t].phase = "known")
      BY <1>0, <2>2 DEF Ask, Forget, Lookup
    <3>2. \A t \in QRZSlot : qrz'[t].phase = "known" => qrz'[t].account = account
      BY <1>0, <2>2, <3>1
    <3> QED
      BY <1>0, <2>2, <3>2 DEF SessionKeyCurrent
  <2>3. AskQRZ /\ UNCHANGED <<mapLookup, account, session>>
    BY <1>2 DEF LeaveCall
  <2>4. UNCHANGED <<qrz, qrzActive>> \/ \E s \in QRZSlot : qrz' = Ask(qrz, qrzActive, s, account)
    BY <2>3 DEF AskQRZ
  <2> QED
    BY <2>1, <2>2, <2>3, <2>4
<1>3. ASSUME NEW at \in 1..MaxDay, Log(at) PROVE Goal
  <2>1. /\ lastId + 1 \in Id /\ UNCHANGED <<mapLookup, account, session>>
        /\ qrz' = Bind(qrz, qrzActive, form.call, lastId + 1)
    BY <1>3 DEF Log
  <2>2. \A s \in QRZSlot : qrz'[s].account = qrz[s].account /\ qrz'[s].phase = qrz[s].phase
    BY <1>0, <2>1 DEF Bind, Lookup
  <2> QED
    BY <1>0, <2>1, <2>2 DEF SessionKeyCurrent
<1>4. ASSUME NEW s \in QRZSlot, qrz' = Done(qrz, s), UNCHANGED <<mapLookup, account>>,
             session' = session \/ (qrz[s].phase = "known" /\ session' = qrz[s].account)
      PROVE  Goal
  <2>1. \A t \in QRZSlot : qrz'[t].phase = "known" =>
           qrz[t].phase = "known" /\ qrz'[t].account = qrz[t].account
    BY <1>0, <1>4 DEF Done, NoLookup
  <2>2. FormLookupsOK'
    BY <1>0, <1>4, <2>1
  <2>3. MapLookupsOK'
    BY <1>0, <1>4
  <2>4. SessionKeyCurrent'
    BY <1>0, <1>4 DEF SessionKeyCurrent
  <2> QED
    BY <2>2, <2>3, <2>4
<1>5. ASSUME NEW s \in QRZSlot, NEW found \in BOOLEAN, QRZAnswer(s, found) PROVE Goal
  <2>1. /\ qrz' = Done(qrz, s) /\ UNCHANGED <<mapLookup, account>>
        /\ session' = session \/ (qrz[s].phase = "known" /\ session' = qrz[s].account)
    BY <1>5 DEF QRZAnswer
  <2> QED
    BY <1>4, <2>1
<1>6. ASSUME NEW s \in QRZSlot, QRZError(s) PROVE Goal
  BY <1>4, <1>6 DEF QRZError
<1>7. ASSUME NEW a \in Account \union {NoAccount}, SaveCredentials(a) PROVE Goal
  BY <1>0, <1>7, AbandonOK, OutdateOK DEF SaveCredentials, SessionKeyCurrent
<1>8. ASSUME NEW stale \in BOOLEAN, Restart(stale) PROVE Goal
  BY <1>8 DEF Restart, SessionKeyCurrent, NoLookup, NoMapLookup
<1>13. ASSUME NEW m \in MapSlot, AskMap(m) PROVE Goal
  BY <1>0, <1>13 DEF AskMap, SessionKeyCurrent
<1>14. ASSUME NEW m \in MapSlot, NEW login \in BOOLEAN, MapAnswer(m, login) PROVE Goal
  <2>1. session' = session \/ (mapLookup[m].current /\ session' = mapLookup[m].account)
    BY <1>14 DEF MapAnswer, TakesKey
  <2> QED
    BY <1>0, <1>14, <2>1 DEF MapAnswer, SessionKeyCurrent, NoMapLookup
<1> HIDE DEF Goal
<1>9. ASSUME NEW s \in POTASlot, NEW found \in BOOLEAN, POTAAnswer(s, found) PROVE Goal
  BY <1>1, <1>9 DEF POTAAnswer, KeepQRZ
<1>10. CASE Zap \/ CancelEdit \/ DeleteEditing \/ SaveEdit \/ \E i \in Id : BeginEdit(i)
  BY <1>1, <1>10 DEF Zap, BeginEdit, CancelEdit, DeleteEditing, SaveEdit, EndEdit, KeepQRZ
<1>11. CASE UNCHANGED lookupVars
  BY <1>1, <1>11 DEF lookupVars
<1>12. CASE Next
  BY <1>2, <1>3, <1>5, <1>6, <1>7, <1>8, <1>9, <1>10, <1>11, <1>12, <1>13, <1>14
     DEF Next, TypeCall, TogglePost, SelectEvent, LogDupe, ClearSelection, OpenContest, NameContest,
         OverrideSerial, LeaveContest, TurnFromContest,
         DeleteRow, ImportRow, ImportDone, NewDay
<1> QED
  BY <1>11, <1>12 DEF vars

\* The session key is always one of the credentials in use, however many
\* lookups of the form and of the map were in flight when they changed, by
\* whichever of the two ways it comes (saveStationSetup, qrzMapGeoMsg).
THEOREM SessionKeyCurrentHolds == Spec => []SessionKeyCurrent
<1>1. Init => KeyInv
  BY InitTypes DEF Init, KeyInv, SessionKeyCurrent, FormLookupsOK, MapLookupsOK, NoLookup, NoMapLookup
<1>2. KeyInv => SessionKeyCurrent
  BY DEF KeyInv
<1> QED
  BY <1>1, <1>2, KeyInvOK, PTL DEF Spec
-----------------------------------------------------------------------------
(* The contest selection and its serial. *)

\* What a session set aside is what it began with, but for what is known of
\* the serial.
SetAsideOK ==
    edit # 0 => pre.contest = home.contest /\ pre.serial = home.serial /\ pre.next = home.next

\* The operator's own selection, in an edit session the one set aside.
Own == IF edit = 0 THEN sel ELSE pre

\* It has a next serial if it is of a contest, and still while the operator
\* is at its name, having blanked it; which is above every stored one if it
\* is sure.
SerialOK ==
    /\ Own.contest # General \/ (onContest /\ edit = 0) => Own.next >= 1
    /\ Own.contest # General /\ ~importing /\ Own.sure = "yes" => Ahead(Own, rows)

SelInv ==
    /\ Types
    /\ SetAsideOK
    /\ SelectionSurvives
    /\ SerialOK

LEMMA SetAsideKept == ASSUME Types, SetAsideOK, [Next]_vars PROVE SetAsideOK'
<1>1. CASE UNCHANGED <<edit, pre, home>>
  BY <1>1 DEF SetAsideOK
<1>2. ASSUME edit' = 0 PROVE SetAsideOK'
  BY <1>2 DEF SetAsideOK
<1>3. ASSUME NEW i \in Id, BeginEdit(i) PROVE SetAsideOK'
  BY <1>3 DEF BeginEdit, SetAside, SetAsideOK
<1>4. CASE ImportDone
  <2>1. pre'.contest = pre.contest /\ pre'.serial = pre.serial /\ pre'.next = pre.next
        /\ UNCHANGED <<edit, home>>
    BY <1>4 DEF ImportDone, Types, TypeSelection, Selection
  <2> QED
    BY <2>1 DEF SetAsideOK
<1>5. CASE Next
  BY <1>1, <1>2, <1>3, <1>4, <1>5
     DEF Next, TypeCall, LeaveCall, TogglePost, SelectEvent, LogDupe, Log, ClearSelection, OpenContest,
         NameContest, OverrideSerial, LeaveContest, TurnFromContest,
         Zap, CancelEdit, DeleteEditing, SaveEdit, EndEdit, DeleteRow, QRZAnswer, QRZError, POTAAnswer,
         AskMap, MapAnswer,
         SaveCredentials, ImportRow, Restart, NewDay
<1> QED
  BY <1>1, <1>5 DEF vars

LEMMA SameEventOK ==
    /\ \A c \in Contest : SameEvent(c, c)
    /\ \A c, d, e \in Contest : SameEvent(c, d) /\ SameEvent(d, e) => SameEvent(c, e)
    /\ \A c \in Contest \ ({General} \union Undated) : c \in 1..MaxDay
BY FormConstantsOK DEF SameEvent, Contest, General

\* Rolling to the date stays with the event.
LEMMA RolledSame ==
    ASSUME TypeRows, TypeSelection, NEW at \in 1..MaxDay
    PROVE  SameEvent(sel.contest, Rolled(sel, at).contest)
<1>1. sel \in Selection /\ sel.contest \in Contest
  BY DEF TypeSelection, Selection
<1>2. CASE sel.contest \in {General, at} \union Undated
  BY <1>1, <1>2, SameEventOK DEF Rolled
<1>3. CASE sel.contest \notin {General, at} \union Undated
  <2>1. sel.contest \in 1..MaxDay
    BY <1>1, <1>3, SameEventOK
  <2>2. Rolled(sel, at).contest = at
    BY <1>1, <1>3 DEF Rolled, Resumed, Selection
  <2> QED
    BY <2>1, <2>2 DEF SameEvent
<1> QED
  BY <1>2, <1>3

LEMMA SurvivesKept ==
    ASSUME Types, SetAsideOK, SelectionSurvives, [Next]_vars
    PROVE  SelectionSurvives'
<1>0. /\ TypeRows /\ TypeSelection /\ TypeRows' /\ TypeSelection'
      /\ \A at \in 1..MaxDay : at # General /\ at \in Contest
  BY TypesOK, FormConstantsOK DEF Types, General, Contest
<1>1. CASE UNCHANGED <<saved, edit, sel, home, unsaved>>
  BY <1>1 DEF SelectionSurvives
<1>2. ASSUME edit' = 0, saved' = sel'.contest PROVE SelectionSurvives'
  <2>1. sel'.contest \in Contest
    BY <1>0 DEF TypeSelection, Selection
  <2> QED
    BY <1>2, <2>1, SameEventOK DEF SelectionSurvives
<1>3. ASSUME edit # 0, UNCHANGED <<saved, edit, home, unsaved>> PROVE SelectionSurvives'
  BY <1>3 DEF SelectionSurvives
<1>4. ASSUME edit' = 0, edit = 0, UNCHANGED <<saved, unsaved>>, SameEvent(sel.contest, sel'.contest)
      PROVE  SelectionSurvives'
  <2>1. sel.contest \in Contest /\ sel'.contest \in Contest /\ saved \in Contest
    BY <1>0 DEF TypeSelection, Selection
  <2> QED
    BY <1>4, <2>1, SameEventOK DEF SelectionSurvives
<1>5. ASSUME NEW c, sel'.contest = c, SaveSelection(c), Remember(FALSE), UNCHANGED <<edit, home>>
      PROVE  SelectionSurvives'
  BY <1>2, <1>3, <1>5 DEF SaveSelection, Remember
<1>6. ASSUME NEW at \in 1..MaxDay, SelectEvent(at) PROVE SelectionSurvives'
  BY <1>5, <1>6 DEF SelectEvent, Resumed
<1>7. CASE ClearSelection
  BY <1>5, <1>7 DEF ClearSelection, NoSelection
<1>8. CASE LeaveContest
  BY <1>5, <1>8 DEF LeaveContest
<1>9. ASSUME NEW c \in Contest, NameContest(c) PROVE SelectionSurvives'
  <2>1. CASE edit = 0
    BY <1>9, <2>1 DEF NameContest, Remember, SelectionSurvives
  <2>2. CASE edit # 0
    BY <1>3, <1>9, <2>2 DEF NameContest, Remember
  <2> QED
    BY <2>1, <2>2
<1>10. ASSUME sel'.contest = sel.contest, UNCHANGED <<saved, edit, home, unsaved>>
       PROVE  SelectionSurvives'
  BY <1>10 DEF SelectionSurvives
<1>11. ASSUME NEW n \in 1..MaxSerial, OverrideSerial(n) PROVE SelectionSurvives'
  <2>1. sel'.contest = sel.contest /\ UNCHANGED <<saved, edit, home, unsaved>>
    BY <1>0, <1>11 DEF OverrideSerial, screenVars, TypeSelection, Selection
  <2> QED
    BY <1>10, <2>1
<1>12. ASSUME NEW at \in 1..MaxDay, LogDupe(at) PROVE SelectionSurvives'
  <2>1. edit = 0 /\ edit' = 0 /\ UNCHANGED <<saved, unsaved>> /\ SameEvent(sel.contest, sel'.contest)
    BY <1>0, <1>12, RolledSame DEF LogDupe, screenVars
  <2> QED
    BY <1>4, <2>1
<1>13. ASSUME NEW at \in 1..MaxDay, Log(at) PROVE SelectionSurvives'
  <2>1. /\ edit' = 0 /\ sel' = Advanced(Rolled(sel, at)) /\ Advanced(Rolled(sel, at)).next <= MaxSerial
        /\ saved' = Rolled(sel, at).contest
    BY <1>13 DEF Log
  <2>2. sel'.contest = saved'
    BY <1>0, <2>1, AdvancedOK
  <2> QED
    BY <1>2, <2>1, <2>2
<1>14. CASE Zap
  <2>1. sel'.contest = sel.contest /\ UNCHANGED <<saved, edit, home, unsaved>>
    BY <1>0, <1>14 DEF Zap, Cleared, screenVars, TypeSelection, Selection
  <2> QED
    BY <1>10, <2>1
<1>15. ASSUME NEW i \in Id, BeginEdit(i) PROVE SelectionSurvives'
  <2>1. edit' # 0
    BY <1>15, IdsAreNumbers DEF BeginEdit
  <2> QED
    BY <1>15, <2>1 DEF BeginEdit, screenVars, SelectionSurvives
<1>16. CASE CancelEdit \/ DeleteEditing \/ SaveEdit
  <2>1. edit # 0
    BY <1>0, <1>16, IdsAreNumbers DEF CancelEdit, DeleteEditing, SaveEdit, TypeRows
  <2>2. edit' = 0 /\ saved' = saved /\ unsaved' = unsaved
    BY <1>16 DEF CancelEdit, DeleteEditing, SaveEdit, EndEdit, screenVars
  <2>3. sel'.contest = pre.contest
    <3>1. sel' = pre \/ (sel' = Raised(pre, rows') /\ Raised(pre, rows').next <= MaxSerial)
      BY <1>16 DEF CancelEdit, DeleteEditing, SaveEdit
    <3>2. /\ DOMAIN rows' \in SUBSET Id /\ rows' \in [DOMAIN rows' -> Row] /\ pre \in Selection
      BY <1>0 DEF TypeRows, TypeSelection
    <3>3. Raised(pre, rows').next <= MaxSerial => Raised(pre, rows').contest = pre.contest
      BY <3>2, RaisedOK
    <3> QED
      BY <3>1, <3>3
  <2> QED
    BY <2>1, <2>2, <2>3 DEF SelectionSurvives, SetAsideOK
<1>17. CASE ImportDone
  <2>1. UNCHANGED <<saved, edit, home, unsaved>> /\ sel'.contest = sel.contest
    BY <1>0, <1>17, RaisedOK DEF ImportDone, screenVars, TypeRows, TypeSelection
  <2> QED
    BY <1>10, <2>1
<1>18. ASSUME NEW stale \in BOOLEAN, Restart(stale) PROVE SelectionSurvives'
  <2>1. edit' = 0
    BY <1>18 DEF Restart
  <2>2. CASE stale \/ saved = General
    BY <1>2, <1>18, <2>1, <2>2 DEF Restart, NoSelection
  <2>3. CASE ~stale /\ saved # General
    <3>1. saved' = saved /\ sel'.contest = Restored
      BY <1>18, <2>3 DEF Restart, Resumed
    <3>2. saved \in Contest /\ day \in 1..MaxDay
      BY <1>0 DEF TypeSelection
    <3>3. SameEvent(saved, Restored)
      BY <2>3, <3>2, SameEventOK DEF SameEvent, Restored
    <3> QED
      BY <2>1, <3>1, <3>3 DEF SelectionSurvives
  <2> QED
    BY <2>2, <2>3
<1>19. CASE Next
  BY <1>1, <1>6, <1>7, <1>8, <1>9, <1>11, <1>12, <1>13, <1>14, <1>15, <1>16, <1>17, <1>18, <1>19
     DEF Next, TypeCall, LeaveCall, TogglePost, OpenContest, TurnFromContest, DeleteRow, QRZAnswer,
         QRZError, POTAAnswer, AskMap, MapAnswer, SaveCredentials, ImportRow, NewDay, screenVars
<1> QED
  BY <1>1, <1>19 DEF vars, screenVars

LEMMA SerialKept ==
    ASSUME Types, SerialOK, [Next]_vars
    PROVE  SerialOK'
<1>0. /\ TypeRows /\ TypeSelection /\ DOMAIN rows \in SUBSET Id /\ rows \in [DOMAIN rows -> Row]
      /\ DOMAIN rows' \in SUBSET Id /\ rows' \in [DOMAIN rows' -> Row]
      /\ sel \in Selection /\ pre \in Selection
      /\ \A at \in 1..MaxDay : at # General /\ at \in Contest
  BY TypesOK, FormConstantsOK DEF Types, TypeRows, TypeSelection, General, Contest
<1>1. ASSUME Own'.contest = Own.contest, Own'.next = Own.next, Own'.sure = Own.sure,
             importing' = importing, onContest' /\ edit' = 0 => onContest /\ edit = 0,
             \A i \in DOMAIN rows' : /\ i \in DOMAIN rows
                                     /\ rows'[i].contest = rows[i].contest
                                     /\ rows'[i].serial = rows[i].serial
      PROVE  SerialOK'
  BY <1>1 DEF SerialOK, Ahead
<1>2. CASE UNCHANGED <<rows, sel, pre, edit, importing, onContest>>
  BY <1>2 DEF SerialOK, Ahead, Own
<1>3. ASSUME edit' = 0, rows' = rows, NEW c \in Contest, sel' = Resumed(rows, c)
      PROVE  SerialOK'
  <2>1. sel'.next \in 1..MaxSerial + 1 /\ Ahead(sel', rows)
    BY <1>0, <1>3, ResumedOK
  <2>2. sel'.next >= 1
    BY <2>1, FormConstantsOK
  <2> QED
    BY <1>3, <2>1, <2>2 DEF SerialOK, Own
<1>4. ASSUME NEW at \in 1..MaxDay, SelectEvent(at) PROVE SerialOK'
  <2>1. CASE edit = 0
    BY <1>0, <1>3, <1>4, <2>1 DEF SelectEvent
  <2>2. CASE edit # 0
    BY <1>4, <2>2 DEF SelectEvent, SerialOK, Own, Ahead
  <2> QED
    BY <2>1, <2>2
<1>5. CASE ClearSelection
  BY <1>5 DEF ClearSelection, OnEntry, NoSelection, SerialOK, Own, Ahead
<1>6. ASSUME NEW n \in 1..MaxSerial, OverrideSerial(n) PROVE SerialOK'
  <2>1. sel'.contest = sel.contest /\ sel'.next = sel.next /\ sel'.sure = sel.sure
        /\ UNCHANGED <<rows, pre, edit, importing, onContest>>
    BY <1>0, <1>6 DEF OverrideSerial, screenVars, Selection
  <2> QED
    BY <1>1, <2>1 DEF Own
<1>21. ASSUME NEW c \in Contest, NameContest(c) PROVE SerialOK'
  <2>1. /\ sel'.next = sel.next /\ sel'.sure = "typed"
        /\ onContest /\ onContest' /\ UNCHANGED <<rows, pre, edit, importing>>
    BY <1>0, <1>21 DEF NameContest, Selection
  <2> QED
    BY <2>1 DEF SerialOK, Own, Ahead
<1>22. CASE OpenContest \/ LeaveContest \/ TurnFromContest
  <2>1. /\ UNCHANGED <<rows, sel, pre, edit, importing>>
        /\ ~onContest' \/ sel.contest # General
    BY <1>22 DEF OpenContest, LeaveContest, TurnFromContest
  <2> QED
    BY <2>1 DEF SerialOK, Own, Ahead
<1>7. ASSUME NEW at \in 1..MaxDay, LogDupe(at) PROVE SerialOK'
  <2>1. edit = 0 /\ edit' = 0 /\ sel' = Rolled(sel, at) /\ ~onContest' /\ UNCHANGED <<rows, importing, onContest>>
    BY <1>7 DEF LogDupe, OnEntry, screenVars
  <2>2. CASE sel' = sel
    BY <1>2, <1>7, <2>1, <2>2 DEF LogDupe
  <2>3. CASE sel' = Resumed(rows, at)
    BY <1>0, <1>3, <2>1, <2>3
  <2>4. CASE sel'.sure = "typed" /\ sel'.next = sel.next
    <3>1. sel'.contest = General <=> sel.contest = General
      BY <1>0, <2>1, RolledOK
    <3> QED
      BY <2>1, <2>4, <3>1 DEF SerialOK, Own
  <2> QED
    BY <1>0, <2>1, <2>2, <2>3, <2>4, RolledOK
<1>8. ASSUME NEW at \in 1..MaxDay, Log(at) PROVE SerialOK'
  <2> DEFINE s == Rolled(sel, at)
             new == [call |-> form.call, contest |-> s.contest, serial |-> s.serial,
                     name |-> form.name, park |-> form.park]
  <2>1. /\ edit = 0 /\ edit' = 0 /\ sel' = Advanced(s) /\ Advanced(s).next <= MaxSerial
        /\ rows' = [i \in DOMAIN rows \union {lastId + 1} |-> IF i = lastId + 1 THEN new ELSE rows[i]]
        /\ importing' = importing /\ ~onContest'
    BY <1>8 DEF Log, OnEntry
  <2>2. s \in Selection /\ sel'.contest = s.contest
    BY <1>0, <2>1, AdvancedOK
  <2>3. s.contest # General => s.next >= 1 /\ (~importing /\ s.sure = "yes" => Ahead(s, rows))
    <3>1. CASE s = sel
      BY <2>1, <3>1 DEF SerialOK, Own
    <3>2. CASE s = Resumed(rows, at)
      <4>1. s.next \in 1..MaxSerial + 1 /\ Ahead(s, rows)
        BY <1>0, <3>2, ResumedOK
      <4> QED
        BY <4>1, FormConstantsOK
    <3>3. CASE s.sure = "typed" /\ s.next = sel.next
      <4>1. s.contest = General <=> sel.contest = General
        BY <1>0, RolledOK
      <4> QED
        BY <2>1, <3>3, <4>1 DEF SerialOK, Own
    <3> QED
      BY <1>0, <3>1, <3>2, <3>3, RolledOK
  <2>4. new.contest = s.contest /\ new.serial = s.serial
    OBVIOUS
  <2> HIDE DEF s, new
  <2>5. s.next \in Nat /\ s.serial \in Nat
    BY <2>2, FormConstantsOK DEF Selection, Serial
  <2>6. SUFFICES ASSUME s.contest # General
                 PROVE  sel'.next >= 1 /\ (~importing /\ sel'.sure = "yes" => Ahead(sel', rows'))
    BY <2>1, <2>2 DEF SerialOK, Own
  <2> DEFINE n == IF s.serial > 0 THEN s.serial + 1 ELSE s.next + 1
  <2>7. sel' = [s EXCEPT !.next = n, !.serial = n,
                         !.sure = IF s.serial = s.next THEN s.sure ELSE "typed"]
    BY <2>1, <2>3, <2>5, <2>6 DEF Advanced
  <2>8. sel'.next = n /\ sel'.sure = (IF s.serial = s.next THEN s.sure ELSE "typed")
    BY <2>2, <2>7 DEF Selection
  <2>9. n >= 1
    BY <2>5
  <2>10. ASSUME ~importing, sel'.sure = "yes" PROVE Ahead(sel', rows')
    <3>1. s.serial = s.next /\ s.sure = "yes"
      BY <2>8, <2>10
    <3>2. Ahead(s, rows) /\ s.next >= 1
      BY <2>3, <2>6, <2>10, <3>1
    <3>3. n = s.next + 1
      BY <2>5, <3>1, <3>2
    <3> HIDE DEF n
    <3> SUFFICES ASSUME NEW i \in DOMAIN rows', rows'[i].contest = s.contest
                 PROVE  rows'[i].serial < s.next + 1
      BY <2>2, <2>8, <3>3 DEF Ahead
    <3>4. CASE i = lastId + 1
      BY <2>1, <2>4, <2>5, <3>1, <3>4
    <3>5. CASE i # lastId + 1
      <4>1. i \in DOMAIN rows /\ rows'[i] = rows[i]
        BY <2>1, <3>5
      <4>2. rows[i].serial < s.next /\ rows[i].serial \in Int
        BY <1>0, <3>2, <4>1 DEF Ahead, Row, Serial
      <4> QED
        BY <2>5, <4>1, <4>2
    <3> QED
      BY <3>4, <3>5
  <2> QED
    BY <2>8, <2>9, <2>10
<1>9. CASE Zap
  <2>1. sel'.contest = sel.contest /\ sel'.next = sel.next /\ sel'.sure = sel.sure
    BY <1>0, <1>9 DEF Zap, Cleared, Selection
  <2>2. /\ UNCHANGED <<pre, edit, importing, onContest>>
        /\ \A i \in DOMAIN rows' : i \in DOMAIN rows /\ rows'[i] = rows[i]
    BY <1>9 DEF Zap, screenVars
  <2> QED
    BY <1>1, <2>1, <2>2 DEF Own
<1>10. ASSUME NEW i \in Id, BeginEdit(i) PROVE SerialOK'
  <2>1. edit' # 0 /\ pre' = Own /\ UNCHANGED <<rows, importing>>
    BY <1>10, IdsAreNumbers DEF BeginEdit, SetAside, Own
  <2>2. Own' = Own
    BY <2>1 DEF Own
  <2> QED
    BY <1>1, <2>1, <2>2
<1>11. CASE CancelEdit \/ DeleteEditing
  <2>1. edit # 0
    BY <1>0, <1>11, IdsAreNumbers DEF CancelEdit, DeleteEditing
  <2>2. /\ edit' = 0 /\ sel' = pre /\ importing' = importing /\ ~onContest'
        /\ \A i \in DOMAIN rows' : i \in DOMAIN rows /\ rows'[i] = rows[i]
    BY <1>11 DEF CancelEdit, DeleteEditing, EndEdit, OnEntry, screenVars
  <2>3. Own' = Own
    BY <2>1, <2>2 DEF Own
  <2> QED
    BY <1>1, <2>2, <2>3
<1>12. ASSUME NEW s \in Selection, Raised(s, rows').next <= MaxSerial, sel' = Raised(s, rows'), edit' = 0,
              s.contest # General \/ onContest' => s.next >= 1
       PROVE  SerialOK'
  <2>1. /\ sel'.contest = s.contest /\ sel'.next >= s.next /\ sel' \in Selection
        /\ s.contest # General => Ahead(sel', rows')
    BY <1>0, <1>12, RaisedOK
  <2>2. s.next \in Nat /\ sel'.next \in Nat
    BY <2>1, FormConstantsOK DEF Selection, Serial
  <2> QED
    BY <1>12, <2>1, <2>2 DEF SerialOK, Own
<1>13. CASE SaveEdit
  <2>1. edit # 0
    BY <1>0, <1>13, IdsAreNumbers DEF SaveEdit
  <2>2. edit' = 0 /\ sel' = Raised(pre, rows') /\ Raised(pre, rows').next <= MaxSerial /\ ~onContest'
    BY <1>13 DEF SaveEdit, EndEdit, OnEntry, screenVars
  <2>3. pre.contest # General => pre.next >= 1
    BY <2>1 DEF SerialOK, Own
  <2> QED
    BY <1>0, <1>12, <2>2, <2>3
<1>14. CASE ImportDone
  <2>1. CASE edit = 0
    <3>1. edit' = 0 /\ rows' = rows /\ sel' = Raised(sel, rows) /\ sel'.next <= MaxSerial
          /\ onContest' = onContest
      BY <1>14, <2>1 DEF ImportDone, screenVars
    <3>2. sel.contest # General \/ onContest' => sel.next >= 1
      BY <2>1, <3>1 DEF SerialOK, Own
    <3> QED
      BY <1>0, <1>12, <3>1, <3>2
  <2>2. CASE edit # 0
    <3>1. /\ edit' = edit /\ rows' = rows
          /\ pre' = IF pre.contest # General /\ pre.sure = "yes" THEN [pre EXCEPT !.sure = "import"] ELSE pre
      BY <1>14, <2>2 DEF ImportDone
    <3>2. /\ pre'.contest = pre.contest /\ pre'.next = pre.next
          /\ pre.contest # General => pre'.sure # "yes"
      BY <1>0, <3>1 DEF Selection
    <3> QED
      BY <2>2, <3>1, <3>2 DEF SerialOK, Own
  <2> QED
    BY <2>1, <2>2
<1>15. ASSUME NEW i \in Id, DeleteRow(i) PROVE SerialOK'
  <2>1. /\ UNCHANGED <<sel, pre, edit, importing, onContest>>
        /\ \A j \in DOMAIN rows' : j \in DOMAIN rows /\ rows'[j] = rows[j]
    BY <1>15 DEF DeleteRow, screenVars
  <2> QED
    BY <1>1, <2>1 DEF Own
<1>16. ASSUME NEW s \in QRZSlot, NEW found \in BOOLEAN, QRZAnswer(s, found) PROVE SerialOK'
  <2>1. /\ UNCHANGED <<sel, pre, edit, importing, onContest>>
        /\ rows' = rows \/ \E i, v : rows' = [rows EXCEPT ![i].name = v]
    BY <1>16 DEF QRZAnswer, screenVars
  <2>2. \A i \in DOMAIN rows' : /\ i \in DOMAIN rows
                                /\ rows'[i].contest = rows[i].contest
                                /\ rows'[i].serial = rows[i].serial
    BY <1>0, <2>1 DEF Row
  <2> QED
    BY <1>1, <2>1, <2>2 DEF Own
<1>17. ASSUME NEW s \in POTASlot, NEW found \in BOOLEAN, POTAAnswer(s, found) PROVE SerialOK'
  <2>1. /\ UNCHANGED <<sel, pre, edit, importing, onContest>>
        /\ rows' = rows \/ \E i, v : rows' = [rows EXCEPT ![i].park = v]
    BY <1>17 DEF POTAAnswer, screenVars
  <2>2. \A i \in DOMAIN rows' : /\ i \in DOMAIN rows
                                /\ rows'[i].contest = rows[i].contest
                                /\ rows'[i].serial = rows[i].serial
    BY <1>0, <2>1 DEF Row
  <2> QED
    BY <1>1, <2>1, <2>2 DEF Own
<1>18. ASSUME NEW c \in Call, NEW contest \in 1..MaxDay, NEW n \in 1..MaxSerial, ImportRow(c, contest, n)
       PROVE  SerialOK'
  BY <1>18 DEF ImportRow, SerialOK, Own, screenVars
<1>19. ASSUME NEW stale \in BOOLEAN, Restart(stale) PROVE SerialOK'
  <2>1. edit' = 0 /\ rows' = rows /\ sel' \in {NoSelection, Resumed(rows, Restored)} /\ Restored \in Contest
        /\ ~onContest'
    BY <1>0, <1>19 DEF Restart, Restored, TypeSelection
  <2>2. CASE sel' = NoSelection
    BY <2>1, <2>2 DEF NoSelection, SerialOK, Own
  <2> QED
    BY <1>3, <2>1, <2>2
<1>20. CASE Next
  BY <1>2, <1>4, <1>5, <1>6, <1>7, <1>8, <1>9, <1>10, <1>11, <1>13, <1>14, <1>15, <1>16, <1>17, <1>18, <1>19, <1>20,
     <1>21, <1>22
     DEF Next, TypeCall, LeaveCall, TogglePost, QRZError, AskMap, MapAnswer, SaveCredentials, NewDay,
         screenVars
<1> QED
  BY <1>2, <1>20 DEF vars, screenVars

LEMMA SelInvOK == Spec => []SelInv
<1>1. Init => SelInv
  BY InitTypes DEF Init, SelInv, SetAsideOK, SelectionSurvives, SameEvent, SerialOK, Own, NoSelection
<1>2. SelInv /\ [Next]_vars => SelInv'
  BY TypesOK, SetAsideKept, SurvivesKept, SerialKept DEF SelInv
<1> QED
  BY <1>1, <1>2, PTL DEF Spec

\* What a restart brings back is the operator's own selection, up to its
\* date, or one he left unsaved himself: never the contest of a contact he
\* edits, nor one picked or typed while he does, for any contests and any
\* number of contacts opened in turn (saveContestSelection).
THEOREM SelectionSurvivesHolds == Spec => []SelectionSurvives
<1>1. SelInv => SelectionSurvives
  BY DEF SelInv
<1> QED
  BY <1>1, SelInvOK, PTL

\* The serial offered next is above every stored one of the occurrence, for
\* any log, any day and any import, as long as the operator types neither it
\* nor the contest's name (resumeSerial).
THEOREM SerialAheadHolds == Spec => []SerialAhead
<1>1. SelInv => SerialAhead
  BY DEF SelInv, SerialOK, Own, Ahead, SerialAhead
<1> QED
  BY <1>1, SelInvOK, PTL
\* However an edit session ends, the contest selection is the one it began
\* with, for any number of contacts opened in turn and any serials
\* (restorePreEditContestSelection).
THEOREM SelectionRestoredHolds == Spec => SelectionRestored
<1> DEFINE Back == /\ sel'.contest = home.contest
                   /\ sel'.next >= home.next
                   /\ sel'.serial \in {home.serial, sel'.next}
<1>1. SelInv /\ [Next]_vars => [CancelEdit \/ DeleteEditing \/ SaveEdit => Back]_vars
  <2> SUFFICES ASSUME SelInv, [Next]_vars, CancelEdit \/ DeleteEditing \/ SaveEdit PROVE Back
    OBVIOUS
  <2>0. /\ TypeRows /\ pre \in Selection
        /\ DOMAIN rows' \in SUBSET Id /\ rows' \in [DOMAIN rows' -> Row]
    BY TypesOK DEF SelInv, Types, TypeRows, TypeSelection
  <2>1. edit # 0
    BY <2>0, IdsAreNumbers DEF CancelEdit, DeleteEditing, SaveEdit, TypeRows
  <2>2. pre.contest = home.contest /\ pre.serial = home.serial /\ pre.next = home.next
    BY <2>1 DEF SelInv, SetAsideOK
  <2>3. pre.next >= pre.next
    BY <2>0, FormConstantsOK DEF Selection, Serial
  <2>4. CASE CancelEdit \/ DeleteEditing
    <3>1. sel' = pre
      BY <2>4 DEF CancelEdit, DeleteEditing
    <3> QED
      BY <2>2, <2>3, <3>1
  <2>5. CASE SaveEdit
    <3>1. sel' = Raised(pre, rows') /\ Raised(pre, rows').next <= MaxSerial
      BY <2>5 DEF SaveEdit
    <3>2. /\ sel'.contest = pre.contest /\ sel'.next >= pre.next
          /\ sel'.serial \in {pre.serial, sel'.next}
      BY <2>0, <3>1, RaisedOK
    <3> QED
      BY <2>2, <3>2
  <2> QED
    BY <2>4, <2>5
<1> QED
  BY <1>1, SelInvOK, PTL DEF Spec, SelectionRestored

-----------------------------------------------------------------------------
(* Late answers. *)

\* A late answer changes no contact but one that still has the call asked
\* for, and that only where it was blank, for any number of lookups in flight
\* (applyQRZRecordToLoggedQSO, applyPOTAToLoggedQSO).
THEOREM LateAnswerMatchesHolds == Spec => LateAnswerMatches
<1> DEFINE Matches(i) == rows'[i] # rows[i] /\ edit' = edit =>
                            /\ \/ /\ rows[i].name = NoCall
                                  /\ rows'[i] = [rows[i] EXCEPT !.name = rows[i].call]
                               \/ /\ rows[i].park = NoCall
                                  /\ rows'[i] = [rows[i] EXCEPT !.park = rows[i].call]
                            /\ form' = form
<1>1. EditInv /\ [Next]_vars => [\A i \in DOMAIN rows \intersect DOMAIN rows' : Matches(i)]_vars
  <2> SUFFICES ASSUME EditInv, Next, NEW i \in DOMAIN rows \intersect DOMAIN rows' PROVE Matches(i)
    OBVIOUS
  <2>0. /\ TypeRows /\ rows \in [DOMAIN rows -> Row] /\ rows[i] \in Row
        /\ i # 0 /\ i \in Nat /\ i <= lastId /\ lastId \in Nat
    BY IdsAreNumbers DEF EditInv, Types, TypeRows
  <2>1. CASE rows'[i] = rows[i]
    BY <2>1
  <2>2. CASE edit' # edit
    BY <2>2
  <2>3. CASE SaveEdit
    <3>1. edit # 0 /\ edit' = 0
      BY <2>0, <2>3, IdsAreNumbers DEF SaveEdit, EndEdit, TypeRows
    <3> QED
      BY <2>2, <3>1
  <2>4. ASSUME NEW s \in QRZSlot, NEW found \in BOOLEAN, QRZAnswer(s, found) PROVE Matches(i)
    <3>1. CASE rows' = rows
      BY <3>1
    <3>2. CASE /\ qrz[s].qso # 0 /\ rows[qrz[s].qso].call = qrz[s].call /\ form' = form
               /\ rows' = [rows EXCEPT ![qrz[s].qso].name = Fill(rows[qrz[s].qso].name, qrz[s].call)]
      <4>1. CASE i # qrz[s].qso
        BY <2>1, <3>2, <4>1
      <4>2. CASE i = qrz[s].qso
        <5>1. rows'[i] = [rows[i] EXCEPT !.name = Fill(rows[i].name, rows[i].call)]
          BY <3>2, <4>2
        <5> QED
          BY <2>0, <3>2, <5>1 DEF Fill, Row
      <4> QED
        BY <4>1, <4>2
    <3> QED
      BY <2>4, <3>1, <3>2 DEF QRZAnswer, ToRow, SameContact
  <2>5. ASSUME NEW s \in POTASlot, NEW found \in BOOLEAN, POTAAnswer(s, found) PROVE Matches(i)
    <3>1. CASE rows' = rows
      BY <3>1
    <3>2. CASE /\ rows[pota[s].qso].call = pota[s].call /\ form' = form
               /\ rows' = [rows EXCEPT ![pota[s].qso].park = Fill(rows[pota[s].qso].park, pota[s].call)]
      <4>1. CASE i # pota[s].qso
        BY <2>1, <3>2, <4>1
      <4>2. CASE i = pota[s].qso
        <5>1. rows'[i] = [rows[i] EXCEPT !.park = Fill(rows[i].park, rows[i].call)]
          BY <3>2, <4>2
        <5> QED
          BY <2>0, <3>2, <5>1 DEF Fill, Row
      <4> QED
        BY <4>1, <4>2
    <3> QED
      BY <2>5, <3>1, <3>2 DEF POTAAnswer, SameContact
  <2>6. ASSUME NEW new,
               rows' = [j \in DOMAIN rows \union {lastId + 1} |-> IF j = lastId + 1 THEN new ELSE rows[j]]
        PROVE  Matches(i)
    <3>1. i # lastId + 1
      BY <2>0
    <3> QED
      BY <2>1, <2>6, <3>1
  <2>7. ASSUME NEW at \in 1..MaxDay, Log(at) PROVE Matches(i)
    BY <2>6, <2>7 DEF Log
  <2>8. ASSUME NEW c \in Call, NEW contest \in 1..MaxDay, NEW n \in 1..MaxSerial, ImportRow(c, contest, n)
        PROVE  Matches(i)
    BY <2>6, <2>8 DEF ImportRow
  <2>9. CASE Zap \/ DeleteEditing \/ \E j \in Id : DeleteRow(j)
    <3>1. rows'[i] = rows[i]
      BY <2>0, <2>9 DEF Zap, DeleteEditing, DeleteRow
    <3> QED
      BY <2>1, <3>1
  <2>10. CASE rows' = rows
    BY <2>1, <2>10
  <2> HIDE DEF Matches
  <2> QED
    BY <2>3, <2>4, <2>5, <2>7, <2>8, <2>9, <2>10
       DEF Next, TypeCall, LeaveCall, TogglePost, SelectEvent, LogDupe, ClearSelection, OpenContest,
           NameContest, OverrideSerial, LeaveContest, TurnFromContest, BeginEdit, CancelEdit, QRZError,
           AskMap, MapAnswer, SaveCredentials, ImportDone, Restart, NewDay
<1> QED
  BY <1>1, EditInvHolds, PTL DEF Spec, LateAnswerMatches
=============================================================================
