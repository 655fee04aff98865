--------------------------- MODULE LoTWSyncProofs ---------------------------
(***************************************************************************)
(* Proofs about LoTWSync, for any log, any set of QSLs and any window.     *)
(***************************************************************************)
EXTENDS LoTWSync, FiniteSetTheorems, TLAPS

\* The empty reply is one.
LEMMA NoReplyType == NoReply \in Reply /\ NoReply.last = 0
BY ConstantsOK DEF NoReply, Reply

\* The invariant holds before the first sync.
LEMMA SyncInit == Init => SyncInv
<1> SUFFICES ASSUME Init PROVE SyncInv
  OBVIOUS
<1> USE ConstantsOK
<1>1. NoContact \in Contact
  <2>1. \E x \in Contact : TRUE
    <3>1. PICK k \in Key, m \in Mode, t \in Time : TRUE
      OBVIOUS
    <3>2. [key |-> k, mode |-> m, time |-> t] \in Contact
      BY <3>1 DEF Contact
    <3>3. QED BY <3>2
  <2>2. QED BY <2>1 DEF NoContact
<1>1a. (CHOOSE w \in OwnCall : TRUE) \in OwnCall
  <2>1. \E w \in OwnCall : TRUE
    BY DEF Init
  <2>2. QED BY <2>1
<1>2. sync \in Sync /\ sync.phase = "idle"
  BY <1>1a, NoReplyType DEF Init, Idle, Sync
<1>3. TypeOK
  <2>1. contact \in [Qso -> Contact]
    BY <1>1 DEF Init
  <2>2. /\ state \in [Qso -> {"unused", "live", "deleted"}]
        /\ link \in [Conf -> Qso \union {NoQso}]
        /\ issuedAt \in [Conf -> 0..MaxClock]
    BY DEF Init
  <2>3. /\ stored = {} /\ bookmark = 0 /\ callsign \in OwnCall /\ moved = FALSE
        /\ screen = "other" /\ syncing = FALSE /\ clock = 1
    BY DEF Init
  <2>4. stored \subseteq Conf /\ bookmark \in 0..MaxClock /\ clock \in 1..MaxClock
    BY <2>3
  <2>5. screen \in {"stats", "other"} /\ syncing \in BOOLEAN /\ moved \in BOOLEAN
    BY <2>3
  <2>6. QED BY <1>2, <2>1, <2>2, <2>3, <2>4, <2>5 DEF TypeOK
<1>4. CreditIsOwn
  BY DEF Init, CreditIsOwn
<1>5. InFlightInv
  BY <1>2 DEF InFlightInv
<1>6. ClockInv
  <2>1. sync.reply.last = 0
    BY DEF Init, Idle, NoReply
  <2>2. QED BY <2>1 DEF Init, ClockInv
<1>7. LinkInv
  BY DEF Init, LinkInv
<1>8. QED BY <1>3, <1>4, <1>5, <1>6, <1>7 DEF SyncInv

\* A response that passes validation holds everything the query asked for.
LEMMA CompleteReply ==
    ASSUME NEW recs \in SUBSET Asked, Cardinality(Asked) = Cardinality(recs)
    PROVE  recs = Asked
<1>1. IsFiniteSet(Asked)
  BY ConstantsOK, FS_Subset DEF Asked
<1>2. QED BY <1>1, FS_Subset

\* Every step of the operator, the network and the goroutine preserves it.
LEMMA SyncStep == SyncInv /\ [Next]_vars => SyncInv'
<1> SUFFICES ASSUME SyncInv, [Next]_vars PROVE SyncInv'
  OBVIOUS
<1> USE ConstantsOK DEF SyncInv
<1>1. ASSUME NEW q \in Qso, NEW x \in Contact, AddQso(q, x) PROVE SyncInv'
  <2>1. TypeOK'
    BY <1>1 DEF AddQso, TypeOK, ui, lotw
  <2>2. CreditIsOwn'
    BY <1>1 DEF AddQso, CreditIsOwn, Live, Delta, LinkInv, TypeOK
  <2>3. LinkInv'
    BY <1>1 DEF AddQso, LinkInv, TypeOK
  <2>4. QED
    BY <1>1, <2>1, <2>2, <2>3 DEF AddQso, InFlightInv, Complete, ClockInv, ui, lotw
<1>2. ASSUME NEW q \in Qso, NEW k \in Key, EditQso(q, k) PROVE SyncInv'
  <2>1. TypeOK'
    BY <1>2 DEF EditQso, TypeOK, Contact, ui, lotw
  <2>2. CreditIsOwn'
    BY <1>2 DEF EditQso, CreditIsOwn, Live, Delta, TypeOK, Contact
  <2>3. LinkInv'
    BY <1>2 DEF EditQso, LinkInv, TypeOK
  <2>4. QED
    BY <1>2, <2>1, <2>2, <2>3 DEF EditQso, InFlightInv, Complete, ClockInv, ui, lotw
<1>3. ASSUME NEW q \in Qso, DeleteQso(q) PROVE SyncInv'
  <2>1. TypeOK'
    <3>1. NoContact \in Contact
      <4>1. contact[q] \in Contact
        BY DEF TypeOK
      <4>2. QED BY <4>1 DEF NoContact
    <3>2. QED BY <1>3, <3>1 DEF DeleteQso, TypeOK, ui, lotw
  <2>2. CreditIsOwn' /\ LinkInv'
    BY <1>3 DEF DeleteQso, CreditIsOwn, LinkInv, Live, Delta, TypeOK
  <2>3. QED
    BY <1>3, <2>1, <2>2 DEF DeleteQso, InFlightInv, Complete, ClockInv, ui, lotw
<1>4. ASSUME UNCHANGED <<log, stored, link, bookmark, lotw>>, TypeOK',
             InFlightInv', sync'.reply.last <= clock
      PROVE  SyncInv'
  BY <1>4 DEF CreditIsOwn, LinkInv, ClockInv, Live, Delta, log, lotw
<1>5. ASSUME NEW own \in OwnCall, ChangeCallsign(own) PROVE SyncInv'
  <2>1. TypeOK' /\ InFlightInv' /\ sync'.reply.last <= clock
    BY <1>5 DEF ChangeCallsign, TypeOK, InFlightInv, ClockInv, Complete, log, lotw
  <2>2. QED BY <1>4, <1>5, <2>1 DEF ChangeCallsign
<1>6. CASE SwitchScreen
  <2>1. TypeOK' /\ InFlightInv' /\ sync'.reply.last <= clock
    BY <1>6 DEF SwitchScreen, TypeOK, InFlightInv, ClockInv, Complete, log, lotw
  <2>2. QED BY <1>4, <1>6, <2>1 DEF SwitchScreen
<1>7. CASE PressSync
  <2>1. sync' \in Sync
    BY <1>7 DEF PressSync, Sync, Reply, NoReply, TypeOK
  <2>2. TypeOK'
    BY <1>7, <2>1 DEF PressSync, TypeOK, log, lotw
  <2>3. InFlightInv' /\ sync'.reply.last <= clock
    BY <1>7 DEF PressSync, InFlightInv, ClockInv, NoReply, TypeOK, lotw
  <2>4. QED BY <1>4, <1>7, <2>2, <2>3 DEF PressSync
<1>8. ASSUME NEW c \in Conf, Issue(c) PROVE SyncInv'
  <2>1. TypeOK'
    BY <1>8 DEF Issue, TypeOK, log, ui
  <2>2. CreditIsOwn' /\ LinkInv'
    BY <1>8 DEF Issue, CreditIsOwn, LinkInv, Live, Delta, log
  <2>3. ClockInv'
    BY <1>8 DEF Issue, ClockInv, TypeOK
  <2>4. InFlightInv'
    <3>1. sync.reply.last \in Int /\ sync.since \in Int /\ clock \in Int
      BY DEF TypeOK, Sync, Reply
    <3>2. QED
      BY <1>8, <3>1 DEF Issue, InFlightInv, ClockInv, Complete, TypeOK, ui
  <2>5. QED BY <2>1, <2>2, <2>3, <2>4
<1>9. CASE ClockTick
  <2>1. TypeOK'
    BY <1>9 DEF ClockTick, TypeOK, log, ui
  <2>2. sync.reply.last \in Int
    BY DEF TypeOK, Sync, Reply
  <2>3. ClockInv'
    BY <1>9, <2>2 DEF ClockTick, ClockInv, TypeOK
  <2>4. QED
    BY <1>9, <2>1, <2>3
    DEF ClockTick, CreditIsOwn, LinkInv, InFlightInv, Complete, Live, Delta, log, ui
<1>10. ASSUME NEW recs \in SUBSET Asked, NEW header \in BOOLEAN, NEW eof \in BOOLEAN,
              NEW counted \in BOOLEAN, NEW last \in 0..MaxClock,
              Respond(recs, header, eof, counted, last)
       PROVE  SyncInv'
  <2> DEFINE reply == [recs |-> recs, header |-> header, eof |-> eof,
                       counted |-> counted,
                       count |-> IF counted THEN Cardinality(Asked) ELSE 0,
                       last |-> last]
  <2>1. sync' = [sync EXCEPT !.phase = "replied", !.reply = reply]
    BY <1>10 DEF Respond
  <2>2. reply \in Reply
    BY FS_Subset, FS_CardinalityType DEF Reply, Asked
  <2>3. sync' \in Sync
    BY <2>1, <2>2 DEF Sync, TypeOK
  <2>4. TypeOK'
    BY <1>10, <2>3 DEF Respond, TypeOK, log, ui, lotw
  <2>5. last <= clock
    BY <1>10 DEF Respond, LastQSL, ClockInv, Asked, TypeOK
  <2>6. sync'.reply = reply /\ sync'.phase = "replied" /\ sync'.own = sync.own
        /\ sync'.since = sync.since
    BY <2>1 DEF TypeOK, Sync
  <2>7. \A c \in recs : issuedAt[c] # 0
    BY DEF Asked
  <2>8. ASSUME Complete(reply), NEW c \in Conf, Rec[c].own = sync.own,
               issuedAt[c] # 0, issuedAt[c] \in sync.since..(last - 1)
        PROVE  c \in recs
    <3>1. recs = Asked
      <4>1. CASE counted
        BY <2>8, <4>1, CompleteReply DEF Complete
      <4>2. CASE ~counted
        BY <1>10, <2>8, <4>2 DEF Complete, Respond
      <4>3. QED BY <4>1, <4>2
    <3>2. issuedAt[c] >= sync.since
      BY <2>8 DEF TypeOK, Sync
    <3>3. QED BY <2>8, <3>1, <3>2 DEF Asked
  <2>9. InFlightInv'
    BY <1>10, <2>6, <2>7, <2>8 DEF Respond, InFlightInv, Complete, ui, lotw
  <2>10. QED BY <1>4, <1>10, <2>4, <2>5, <2>6, <2>9 DEF Respond
<1>11. ASSUME NEW pick \in Picks, Commit(pick) PROVE SyncInv'
  <2>1. sync.reply \in Reply /\ sync' \in Sync
    BY <1>11, NoReplyType DEF Commit, TypeOK, Sync
  <2>2. TypeOK'
    BY <1>11, <2>1 DEF Commit, TypeOK, Picks, NewBookmark, Reply, log, ui, lotw
  <2>3. ClockInv'
    <3>1. sync'.reply = NoReply
      BY <1>11 DEF Commit, TypeOK, Sync
    <3>2. bookmark' <= clock /\ clock \in Int
      BY <1>11, <2>1 DEF Commit, ClockInv, NewBookmark, Reply, TypeOK
    <3>3. sync'.reply.last <= clock
      BY <3>1, NoReplyType DEF TypeOK
    <3>4. QED BY <1>11, <3>2, <3>3 DEF Commit, ClockInv, lotw
  <2>4. InFlightInv'
    BY <1>11 DEF Commit, InFlightInv, TypeOK, Sync, ui
  <2>5. ASSUME NEW c \in sync.reply.recs, pick[c] \in Live
        PROVE  contact[pick[c]].key = Rec[c].key /\ Delta(pick[c], c) <= MatchWindow
    <3>1. pick[c] \in Match(c) /\ pick[c] # NoQso
      BY <1>11, <2>1, <2>5 DEF Commit, Reply, Live
    <3>2. pick[c] \in Candidates(c)
      BY <3>1 DEF Match
    <3>3. QED BY <3>2 DEF Candidates
  <2>6. \A c \in Conf \ sync.reply.recs : pick[c] = link[c]
    BY <1>11 DEF Commit
  <2>7. stored' = stored \union sync.reply.recs /\ link' = pick
        /\ UNCHANGED <<state, contact>>
    BY <1>11 DEF Commit, log
  <2>8. stored' \subseteq Conf
    BY <2>2 DEF TypeOK
  <2>9. CreditIsOwn'
    BY <2>5, <2>6, <2>7, <2>8 DEF CreditIsOwn, Live, Delta
  <2>10. ASSUME NEW c \in Conf, pick[c] \in Qso PROVE state[pick[c]] # "unused"
    <3>1. CASE c \in sync.reply.recs
      <4>1. pick[c] \in Match(c) /\ pick[c] # NoQso
        BY <1>11, <2>10, <3>1 DEF Commit
      <4>2. QED BY <4>1 DEF Match, Candidates, Live
    <3>2. CASE c \notin sync.reply.recs
      BY <2>6, <2>10, <3>2 DEF LinkInv
    <3>3. QED BY <3>1, <3>2
  <2>11. LinkInv'
    BY <2>7, <2>10 DEF LinkInv
  <2>12. QED BY <2>2, <2>3, <2>4, <2>9, <2>11
<1>12. CASE Fail
  <2>1. sync' \in Sync /\ sync'.reply = NoReply /\ sync'.phase = "told"
        /\ sync'.own = sync.own
    BY <1>12, NoReplyType DEF Fail, TypeOK, Sync
  <2>2. TypeOK' /\ InFlightInv'
    BY <1>12, <2>1 DEF Fail, TypeOK, InFlightInv, log, ui, lotw
  <2>3. sync'.reply.last <= clock
    BY <2>1, NoReplyType DEF TypeOK
  <2>4. QED BY <1>4, <1>12, <2>2, <2>3 DEF Fail
<1>13. ASSUME sync' = Idle PROVE sync' \in Sync /\ sync'.phase = "idle" /\ sync'.reply.last = 0
  <2>1. (CHOOSE w \in OwnCall : TRUE) \in OwnCall
    BY DEF TypeOK
  <2>2. QED BY <1>13, <2>1 DEF Idle, NoReply, Sync, Reply, TypeOK
<1>14. CASE Deliver
  <2>1. TypeOK' /\ InFlightInv' /\ sync'.reply.last <= clock
    BY <1>13, <1>14 DEF Deliver, TypeOK, InFlightInv, log, lotw
  <2>2. QED BY <1>4, <1>14, <2>1 DEF Deliver
<1>15. CASE Restart
  <2>1. sync' \in Sync /\ sync'.phase = "idle" /\ sync'.reply.last = 0
    BY <1>13, <1>15 DEF Restart
  <2>2. TypeOK'
    BY <1>15, <2>1 DEF Restart, TypeOK, log, lotw
  <2>3. InFlightInv' /\ sync'.reply.last <= clock
    BY <2>1 DEF InFlightInv, TypeOK
  <2>4. QED BY <1>4, <1>15, <2>2, <2>3 DEF Restart
<1>16. CASE UNCHANGED vars
  BY <1>16 DEF vars, log, ui, lotw, TypeOK, CreditIsOwn, LinkInv, InFlightInv,
               Complete, ClockInv, Live, Delta
<1>17. QED
  BY <1>1, <1>2, <1>3, <1>5, <1>6, <1>7, <1>8, <1>9, <1>10, <1>11, <1>12,
     <1>14, <1>15, <1>16 DEF Next, Operator, Remote, Goroutine

\* The inductive invariant of a sync holds in every reachable state.
THEOREM SyncSafety == Spec => []SyncInv
<1>1. QED BY SyncInit, SyncStep, PTL DEF Spec

\* No award is credited from a confirmation of another contact: however edits,
\* deletions and insertions interleave with a sync, a link to a live contact is
\* one matchLoTWConfirmation would accept now.
THEOREM CreditIsOwnHolds == Spec => []CreditIsOwn
<1>1. SyncInv => CreditIsOwn
  BY DEF SyncInv
<1>2. QED BY <1>1, SyncSafety, PTL

\* As long as the profile keeps its callsign, the bookmark of
\* syncLoTWConfirmations never passes a QSL that is not in lotw_confirmation.
THEOREM NeverSkippedHolds == Spec => []NeverSkipped
<1>1. Init => NeverSkipped
  BY ConstantsOK DEF Init, NeverSkipped
<1>2. SyncInv /\ NeverSkipped /\ [Next]_vars => NeverSkipped'
  <2> SUFFICES ASSUME SyncInv, NeverSkipped, [Next]_vars PROVE NeverSkipped'
    OBVIOUS
  <2>1. CASE /\ UNCHANGED <<stored, bookmark, issuedAt>>
             /\ moved' \/ UNCHANGED <<callsign, moved>>
    BY <2>1 DEF NeverSkipped, SyncInv, TypeOK
  <2>2. ASSUME NEW c \in Conf, Issue(c) PROVE NeverSkipped'
    BY <2>2, ConstantsOK DEF Issue, NeverSkipped, ui, SyncInv, ClockInv, TypeOK
  <2>3. ASSUME NEW pick \in Picks, Commit(pick) PROVE NeverSkipped'
    <3> SUFFICES ASSUME NEW c \in Conf, issuedAt[c] \in 1..(bookmark' - 1),
                        Rec[c].own = callsign, ~moved
                 PROVE  c \in stored'
      BY <2>3 DEF Commit, NeverSkipped, ui, lotw
    <3>1. /\ bookmark \in Int /\ issuedAt[c] \in Int /\ sync.since = bookmark
          /\ sync.reply.last \in Int /\ Rec[c].own = sync.own
      BY <2>3, ConstantsOK DEF Commit, SyncInv, TypeOK, Sync, Reply, InFlightInv
    <3>2. CASE issuedAt[c] < bookmark
      BY <2>3, <3>1, <3>2 DEF NeverSkipped, Commit
    <3>3. CASE issuedAt[c] >= bookmark
      <4>1. bookmark' = sync.reply.last
        BY <2>3, <3>1, <3>3 DEF Commit, NewBookmark
      <4>2. c \in sync.reply.recs
        BY <2>3, <3>1, <3>3, <4>1 DEF Commit, SyncInv, InFlightInv
      <4>3. QED BY <2>3, <4>2 DEF Commit
    <3>4. QED BY <3>1, <3>2, <3>3
  <2>4. QED
    BY <2>1, <2>2, <2>3
    DEF Next, Operator, Remote, Goroutine, AddQso, EditQso, DeleteQso, SwitchScreen,
        PressSync, ChangeCallsign, ClockTick, Respond, Fail, Deliver, Restart, ui, lotw,
        vars
<1>3. QED BY <1>1, <1>2, SyncSafety, PTL DEF Spec
=============================================================================
