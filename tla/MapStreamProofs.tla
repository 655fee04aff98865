-------------------------- MODULE MapStreamProofs --------------------------
(***************************************************************************)
(* Proofs about MapStream: the incremental stream shows a page what a full *)
(* snapshot would, for any reports, connections, filters and limits.       *)
(***************************************************************************)
EXTENDS MapStream, TLAPS, FiniteSetTheorems, WellFoundedInduction

\* Distinct events at most nextEvent: the store is finite.
LEMMA StoreFinite ==
    ASSUME TypeOK, StoreInv
    PROVE  IsFiniteSet(reports)
<1> DEFINE f == [r \in reports |-> r.event]
<1>1. f \in Injection(reports, 1..nextEvent)
  BY DEF StoreInv, Injection, IsInjective
<1>2. IsFiniteSet(1..nextEvent)
  BY FS_Interval DEF TypeOK
<1>3. QED BY <1>1, <1>2, FS_Injection

\* A nonempty set of naturals has a least element.
LEMMA LeastNatural ==
    ASSUME NEW T \in SUBSET Nat, T # {}
    PROVE  \E x \in T : \A y \in T : x <= y
<1> DEFINE R == OpToRel(<, Nat)
<1>1. IsWellFoundedOn(R, Nat)
  BY NatLessThanWellFounded
<1>2. \A x, y \in Nat : y < x => <<y, x>> \in R
  BY DEF OpToRel
<1> HIDE DEF R
<1>3. PICK x \in T : \A y \in T : ~(<<y, x>> \in R)
  BY <1>1, WFMin
<1>4. \A y \in T : ~(y < x)
  BY <1>2, <1>3
<1>5. QED BY <1>4

\* OldestID is at most every retained event, and one of them if there is one.
LEMMA Oldest ==
    ASSUME TypeOK, StoreInv
    PROVE  /\ OldestID \in Nat
           /\ \A r \in reports : OldestID <= r.event
           /\ reports = {} => OldestID = nextEvent + 1
           /\ reports # {} => \E r \in reports : r.event = OldestID
<1>1. CASE reports = {}
  BY <1>1 DEF OldestID, TypeOK
<1>2. CASE reports # {}
  <2> DEFINE E == {r.event : r \in reports}
  <2>1. E \in SUBSET Nat /\ E # {}
    BY <1>2 DEF TypeOK, Report
  <2>2. PICK e \in E : \A x \in E : e <= x
    BY <2>1, LeastNatural
  <2>3. PICK m \in reports : \A o \in reports : m.event <= o.event
    BY <2>2
  <2> DEFINE least == CHOOSE r \in reports : \A o \in reports : r.event <= o.event
  <2>4. least \in reports /\ \A o \in reports : least.event <= o.event
    BY <2>3
  <2>5. OldestID = least.event
    BY <1>2 DEF OldestID
  <2>6. QED BY <1>2, <2>4, <2>5 DEF TypeOK, Report
<1>3. QED BY <1>1, <1>2

\* What Youngest drops is older than what it keeps.
LEMMA YoungestSuffix ==
    ASSUME NEW R, IsFiniteSet(R), \A r \in R : r.event \in Nat
    PROVE  /\ Youngest(R) \subseteq R
           /\ \A r \in R \ Youngest(R), o \in Youngest(R) : r.event < o.event
<1> DEFINE Newer(r) == {o \in R : o.event > r.event}
<1>1. ASSUME NEW r \in R, NEW o \in Youngest(R), ~(r.event < o.event)
      PROVE  r \in Youngest(R)
  <2>1. o \in R /\ Cardinality(Newer(o)) < Capacity
    BY DEF Youngest
  <2>2. Newer(r) \in SUBSET Newer(o)
    BY <1>1, <2>1
  <2>3. IsFiniteSet(Newer(o))
    BY FS_Subset
  <2>4. Cardinality(Newer(r)) <= Cardinality(Newer(o))
    BY <2>2, <2>3, FS_Subset
  <2>5. Cardinality(Newer(r)) \in Nat /\ Cardinality(Newer(o)) \in Nat
    BY <2>2, <2>3, FS_Subset, FS_CardinalityType
  <2>6. QED BY <2>1, <2>4, <2>5, StreamConstantsOK DEF Youngest
<1>2. QED BY <1>1 DEF Youngest

\* The new revisions of relocated reports are past the old ones and in range.
LEMMA RankBounds ==
    ASSUME NEW S, IsFiniteSet(S), NEW r \in S, r.event \in Nat
    PROVE  /\ Cardinality({o \in S : o.event <= r.event}) \in 1..Cardinality(S)
           /\ Cardinality(S) \in Nat
<1> DEFINE T == {o \in S : o.event <= r.event}
<1>1. T \in SUBSET S /\ r \in T
  OBVIOUS
<1>2. IsFiniteSet(T) /\ Cardinality(T) <= Cardinality(S)
  BY <1>1, FS_Subset
<1>3. Cardinality(T) \in Nat /\ Cardinality(S) \in Nat
  BY <1>2, FS_CardinalityType
<1>4. Cardinality(T) # 0
  BY <1>1, <1>2, FS_EmptySet
<1>5. QED BY <1>2, <1>3, <1>4

-----------------------------------------------------------------------------
(* How the three store operations change the store                         *)

\* One added report, and perhaps older ones evicted.
LEMMA PublishStep ==
    ASSUME TypeOK, StoreInv, NEW s \in Spot, NEW t \in Nat, NEW l \in Location,
           Publish(s, t, l)
    PROVE  /\ nextEvent' = nextEvent + 1 /\ revision' = revision + 1
           /\ \A r \in reports' :
                  \/ r \in reports
                  \/ r = [event |-> nextEvent + 1, revision |-> revision + 1,
                          spot |-> s, received |-> t, location |-> l]
           /\ \A r \in reports \ reports', o \in reports' : r.event < o.event
<1> DEFINE new == [event |-> nextEvent + 1, revision |-> revision + 1,
                   spot |-> s, received |-> t, location |-> l]
           arg == <<[spot |-> s, received |-> t, location |-> l]>>
<1>1. reports' = Youngest(reports \union {new}) /\ nextEvent' = nextEvent + 1
         /\ revision' = revision + 1
  <2>1. Len(arg) = 1 /\ DOMAIN arg = {1}
    OBVIOUS
  <2>2. arg[1] = [spot |-> s, received |-> t, location |-> l]
    OBVIOUS
  <2>3. AddAll(arg)
    BY DEF Publish
  <2> HIDE DEF arg
  <2>4. {[event |-> nextEvent + i, revision |-> revision + i, spot |-> arg[i].spot,
          received |-> arg[i].received, location |-> arg[i].location] :
             i \in DOMAIN arg} = {new}
    BY <2>1, <2>2
  <2>5. QED BY <2>1, <2>3, <2>4 DEF AddAll
<1>2. IsFiniteSet(reports \union {new})
  BY StoreFinite, FS_AddElement
<1>3. \A r \in reports \union {new} : r.event \in Nat
  BY DEF TypeOK, Report
<1>4. QED BY <1>1, <1>2, <1>3, YoungestSuffix

\* Relocated reports keep what identifies them and get revisions of their own.
LEMMA EnrichStep ==
    ASSUME TypeOK, StoreInv, NEW S \in SUBSET reports,
           NEW where \in [S -> Location], Enrich(S, where)
    PROVE  /\ nextEvent' = nextEvent /\ revision' \in Nat /\ revision <= revision'
           /\ reports' \subseteq Report
           /\ \A r \in reports' : \E o \in reports :
                  /\ r.event = o.event /\ r.spot = o.spot
                  /\ r.received = o.received
                  /\ r = o \/ r.revision \in (revision + 1)..revision'
           /\ \A o \in reports : \E r \in reports' : r.event = o.event
           /\ \A r, o \in reports' : r.event = o.event => r = o
<1> DEFINE rank(r) == Cardinality({o \in S : o.event <= r.event})
           new(r) == [r EXCEPT !.location = where[r], !.revision = revision + rank(r)]
<1>1. UpdateLocations(where) /\ DOMAIN where = S
  BY DEF Enrich
<1>2. reports' = (reports \ S) \union {new(r) : r \in S}
  BY <1>1 DEF UpdateLocations
<1>3. revision' = revision + Cardinality(S) /\ nextEvent' = nextEvent
  BY <1>1 DEF UpdateLocations
<1>4. IsFiniteSet(S)
  BY StoreFinite, FS_Subset
<1>5. \A r \in S : rank(r) \in 1..Cardinality(S)
  BY <1>4, RankBounds DEF TypeOK, Report
<1>6. Cardinality(S) \in Nat
  BY <1>4, FS_CardinalityType
<1> HIDE DEF rank
<1>7. ASSUME NEW o \in S
      PROVE  /\ new(o) \in Report
             /\ new(o).event = o.event /\ new(o).spot = o.spot
             /\ new(o).received = o.received
             /\ new(o).revision \in (revision + 1)..revision'
  <2>1. o \in Report /\ o.revision \in Nat
    BY DEF TypeOK, Report
  <2>2. revision + rank(o) \in Nat /\ revision + rank(o) \in (revision + 1)..revision'
    BY <1>3, <1>5, <1>6 DEF TypeOK
  <2>3. QED BY <2>1, <2>2 DEF Report
<1> HIDE DEF new
<1>8. revision' \in Nat /\ revision <= revision'
  BY <1>3, <1>6 DEF TypeOK
<1>9. ASSUME NEW o \in reports
      PROVE  \E r \in reports' : r.event = o.event
  BY <1>2, <1>7
<1>10. ASSUME NEW r \in reports'
       PROVE  \E o \in reports :
                  /\ r.event = o.event /\ r.spot = o.spot
                  /\ r.received = o.received
                  /\ r \in Report
                  /\ r = o \/ r.revision \in (revision + 1)..revision'
                  /\ r = IF o \in S THEN new(o) ELSE o
  <2>1. CASE r \in reports \ S
    BY <2>1 DEF TypeOK
  <2>2. CASE r \notin reports \ S
    <3>1. PICK o \in S : r = new(o)
      BY <1>2, <1>10, <2>2
    <3>2. r = IF o \in S THEN new(o) ELSE o
      BY <3>1
    <3>3. QED BY <1>7, <3>1, <3>2
  <2>3. QED BY <2>1, <2>2
<1>11. ASSUME NEW r \in reports', NEW o \in reports', r.event = o.event
       PROVE  r = o
  <2>1. PICK a \in reports : r.event = a.event /\ r = IF a \in S THEN new(a) ELSE a
    BY <1>10
  <2>2. PICK b \in reports : o.event = b.event /\ o = IF b \in S THEN new(b) ELSE b
    BY <1>10
  <2>3. a = b
    BY <1>11, <2>1, <2>2 DEF StoreInv
  <2>4. QED BY <2>1, <2>2, <2>3
<1>12. reports' \subseteq Report
  BY <1>10
<1>13. QED BY <1>3, <1>8, <1>9, <1>10, <1>11, <1>12

-----------------------------------------------------------------------------
(* The invariant is inductive                                              *)

\* The part of the invariant about the store and the turns of connections.
LEMMA BaseStep ==
    ASSUME IInv, [Next]_vars
    PROVE  TypeOK' /\ StoreInv' /\ \A c \in Conn : TurnInv(c)'
<1> USE DEF IInv
<1> USE StreamConstantsOK
<1>1. ASSUME NEW s \in Spot, NEW t \in Nat, NEW l \in Location, Publish(s, t, l)
      PROVE  TypeOK' /\ StoreInv' /\ \A c \in Conn : TurnInv(c)'
  <2>1. TypeOK'
    BY <1>1, PublishStep DEF TypeOK, Publish, connection, Report
  <2>2. StoreInv'
    BY <1>1, PublishStep DEF TypeOK, StoreInv, Report
  <2>3. QED BY <1>1, <2>1, <2>2 DEF Publish, connection, TurnInv
<1>2. ASSUME NEW S \in SUBSET reports, NEW f \in [S -> Location], Enrich(S, f)
      PROVE  TypeOK' /\ StoreInv' /\ \A c \in Conn : TurnInv(c)'
  <2>1. TypeOK'
    BY <1>2, EnrichStep DEF TypeOK, Enrich, connection
  <2>2. StoreInv'
    <3>1. ASSUME NEW r \in reports'
          PROVE  r.event \in 1..nextEvent' /\ r.revision \in 1..revision'
      <4>1. PICK o \in reports :
                /\ r.event = o.event
                /\ r = o \/ r.revision \in (revision + 1)..revision'
        BY <1>2, EnrichStep
      <4>2. nextEvent' = nextEvent /\ revision <= revision' /\ revision' \in Nat
        BY <1>2, EnrichStep
      <4>3. QED BY <4>1, <4>2 DEF TypeOK, StoreInv
    <3>2. QED BY <1>2, <3>1, EnrichStep DEF StoreInv
  <2>3. QED BY <1>2, <2>1, <2>2 DEF Enrich, connection, TurnInv
<1>3. ASSUME NEW k \in FilterKey, SetState(k)
      PROVE  TypeOK' /\ StoreInv' /\ \A c \in Conn : TurnInv(c)'
  BY <1>3 DEF SetState, store, connection, TypeOK, StoreInv, TurnInv
<1>4. CASE Tick
  BY <1>4 DEF Tick, store, connection, TypeOK, StoreInv, TurnInv
<1>5. ASSUME NEW c \in Conn, Begin(c)
      PROVE  TypeOK' /\ StoreInv' /\ \A d \in Conn : TurnInv(d)'
  <2>1. reports' \subseteq reports /\ nextEvent' = nextEvent /\ revision' = revision
    BY <1>5 DEF Begin, Expire
  <2>2. TypeOK'
    BY <1>5, <2>1 DEF Begin, TypeOK, Place
  <2>3. StoreInv'
    BY <2>1 DEF StoreInv
  <2>4. ASSUME NEW d \in Conn PROVE TurnInv(d)'
    BY <1>5 DEF Begin, TypeOK, TurnInv
  <2>5. QED BY <2>2, <2>3, <2>4
<1>6. ASSUME NEW c \in Conn, StreamSample(c)
      PROVE  TypeOK' /\ StoreInv' /\ \A d \in Conn : TurnInv(d)'
  <2>1. read[c] \in FilterKey
    BY <1>6 DEF StreamSample, TurnInv, TypeOK
  <2>2. packet'[c] \in Packet
    <3>1. OldestID \in Nat
      BY Oldest
    <3>2. \A r \in reports : OnPage(r, read[c]) \in PageReport
      BY <2>1 DEF TypeOK, Report, OnPage, PageReport
    <3>3. Reset(c) \in BOOLEAN
      BY DEF Reset, TypeOK
    <3> HIDE DEF OldestID, Reset
    <3>4. QED BY <1>6, <3>1, <3>2, <3>3 DEF StreamSample, ChangesSince, Packet, TypeOK
  <2>3. TypeOK'
    BY <1>6, <2>2 DEF StreamSample, TypeOK, Place, store
  <2>4. ASSUME NEW d \in Conn PROVE TurnInv(d)'
    BY <1>6 DEF StreamSample, TypeOK, TurnInv
  <2>5. QED BY <1>6, <2>3, <2>4 DEF StreamSample, StoreInv, store
<1>7. ASSUME NEW c \in Conn, Deliver(c)
      PROVE  TypeOK' /\ StoreInv' /\ \A d \in Conn : TurnInv(d)'
  <2>1. Apply(page[c], packet[c]) \subseteq PageReport
    BY DEF Apply, TypeOK, Packet
  <2>2. NoPacket \in Packet
    BY DEF NoPacket, Packet
  <2>3. TypeOK'
    BY <1>7, <2>1, <2>2 DEF Deliver, TypeOK, Place, store
  <2>4. ASSUME NEW d \in Conn PROVE TurnInv(d)'
    BY <1>7 DEF Deliver, TypeOK, TurnInv
  <2>5. QED BY <1>7, <2>3, <2>4 DEF Deliver, StoreInv, store
<1>8. ASSUME NEW c \in Conn, Drop(c)
      PROVE  TypeOK' /\ StoreInv' /\ \A d \in Conn : TurnInv(d)'
  <2>1. NoPacket \in Packet
    BY DEF NoPacket, Packet
  <2>2. TypeOK'
    BY <1>8, <2>1 DEF Drop, TypeOK, Place, store
  <2>3. ASSUME NEW d \in Conn PROVE TurnInv(d)'
    BY <1>8 DEF Drop, TypeOK, TurnInv
  <2>4. QED BY <1>8, <2>2, <2>3 DEF Drop, StoreInv, store
<1>9. CASE UNCHANGED vars
  BY <1>9 DEF vars, store, connection, TypeOK, StoreInv, TurnInv
<1>10. QED
  <2>1. ASSUME NEW s \in Spot, NEW t \in (clock - MaxHold)..clock, NEW l \in Location,
               t >= 0, Publish(s, t, l)
        PROVE  TypeOK' /\ StoreInv' /\ \A c \in Conn : TurnInv(c)'
    BY <1>1, <2>1 DEF TypeOK
  <2> HIDE DEF IInv
  <2>2. QED
    BY <1>2, <1>3, <1>4, <1>5, <1>6, <1>7, <1>8, <1>9, <2>1
       DEF Next, EventLoop, Connection

\* Steps that show page c nothing new, whatever they do to the store: reports
\* are added at the end, moved with a new revision, evicted from the front, or
\* expired.
LEMMA PageStutter ==
    ASSUME IInv, TypeOK', NEW c \in Conn,
           clock <= clock', nextEvent <= nextEvent', revision <= revision',
           \A r \in reports' :
               \/ r.event > nextEvent /\ r.revision > revision
               \/ \E o \in reports :
                      /\ r.event = o.event /\ r.spot = o.spot
                      /\ r.received = o.received
                      /\ r = o \/ r.revision > revision,
           \A o \in reports :
               \/ \E r \in reports' : r.event = o.event
               \/ ~Fresh(o)'
               \/ \A r \in reports' : o.event < r.event,
           Synced(c)' => /\ Synced(c)
                         /\ View(c)' = View(c) /\ Key(c)' = Key(c)
                         /\ cursor'[c] = cursor[c]
                         /\ at'[c] \in {"deliver", "wait"} =>
                                /\ at[c] \in {"deliver", "wait"}
                                /\ sampled'[c] = sampled[c]
    PROVE  PageInv(c)'
<1> SUFFICES ASSUME Synced(c)'
             PROVE  /\ cursor'[c] <= revision'
                    /\ Complete(c)' /\ NothingStale(c)' /\ Agrees(c)'
                    /\ (\A p \in View(c) : p.key = Key(c))'
                    /\ at'[c] \in {"deliver", "wait"} =>
                           Content(View(c))' = Content(sampled[c])'
  BY DEF PageInv
<1>1. /\ View(c)' = View(c) /\ Key(c)' = Key(c) /\ cursor'[c] = cursor[c]
      /\ cursor[c] <= revision /\ cursor[c] \in Nat /\ revision \in Nat
      /\ revision' \in Nat /\ nextEvent \in Nat /\ nextEvent' \in Nat
      /\ clock \in Nat /\ clock' \in Nat /\ Retention \in Nat
  BY StreamConstantsOK DEF IInv, PageInv, TypeOK
<1>2. /\ reports \subseteq Report /\ reports' \subseteq Report
      /\ View(c) \subseteq PageReport /\ sampled[c] \subseteq Report
  BY DEF IInv, TypeOK, View, Apply, Packet
<1>3. /\ Complete(c) /\ NothingStale(c) /\ Agrees(c)
      /\ \A p \in View(c) : p.key = Key(c)
  BY DEF IInv, PageInv
<1>4. \A q : q.received \in Nat /\ Fresh(q)' => Fresh(q)
  BY <1>1 DEF Fresh
<1>5. Complete(c)'
  <2>1. ASSUME NEW r \in reports', Fresh(r)', r.revision <= cursor[c]
        PROVE  OnPage(r, Key(c)) \in View(c)
    <3>1. r \in reports
      BY <1>1, <1>2, <2>1 DEF Report
    <3>2. Fresh(r)
      BY <1>2, <1>4, <2>1 DEF Report
    <3>3. QED BY <1>3, <2>1, <3>1, <3>2 DEF Complete
  <2>2. QED BY <1>1, <2>1 DEF Complete, OnPage
<1>6. Agrees(c)'
  <2>1. ASSUME NEW p \in View(c), NEW r \in reports', p.event = r.event
        PROVE  /\ p.spot = r.spot /\ p.received = r.received
               /\ r.revision <= cursor[c] => p = OnPage(r, Key(c))
    <3>1. p.event <= nextEvent
      BY <1>3 DEF NothingStale
    <3>2. PICK o \in reports :
              /\ r.event = o.event /\ r.spot = o.spot
              /\ r.received = o.received
              /\ r = o \/ r.revision > revision
      BY <1>1, <1>2, <2>1, <3>1 DEF Report
    <3>3. QED BY <1>1, <1>2, <1>3, <2>1, <3>2 DEF Agrees, Report
  <2>2. QED BY <1>1, <2>1 DEF Agrees, OnPage
<1>7. NothingStale(c)'
  <2>1. ASSUME NEW p \in View(c)
        PROVE  p.event <= nextEvent'
    BY <1>1, <1>2, <1>3 DEF NothingStale, PageReport
  <2>2. ASSUME NEW p \in View(c), Fresh(p)'
        PROVE  \/ \E r \in reports' : r.event = p.event
               \/ \A r \in reports' : p.event < r.event
    <3>1. Fresh(p) /\ p.event <= nextEvent
      BY <1>2, <1>3, <1>4, <2>2 DEF NothingStale, PageReport
    <3>2. CASE \E o \in reports : o.event = p.event
      <4>1. PICK o \in reports : o.event = p.event
        BY <3>2
      <4>2. p.received = o.received
        BY <1>3, <4>1 DEF Agrees
      <4>3. Fresh(o)'
        BY <2>2, <4>2 DEF Fresh
      <4>4. QED BY <4>1, <4>3
    <3>3. CASE \A o \in reports : p.event < o.event
      <4>1. ASSUME NEW r \in reports' PROVE p.event < r.event
        BY <1>1, <1>2, <3>1, <3>3 DEF Report, PageReport
      <4>2. QED BY <4>1
    <3>4. QED BY <1>3, <3>1, <3>2, <3>3 DEF NothingStale
  <2>3. QED BY <1>1, <2>1, <2>2 DEF NothingStale
<1>8. ASSUME at'[c] \in {"deliver", "wait"}
      PROVE  Content(View(c))' = Content(sampled[c])'
  <2>0. PICK V, M : V = View(c) /\ M = sampled[c]
    OBVIOUS
  <2> DEFINE proj(q) == [event |-> q.event, spot |-> q.spot,
                         received |-> q.received, location |-> q.location]
  <2>1. sampled'[c] = M /\ Content(V) = Content(M)
    BY <1>8, <2>0 DEF IInv, PageInv
  <2>2. \A q \in V \union M : q.received \in Nat
    BY <1>2, <2>0 DEF Report, PageReport
  <2>3. ASSUME NEW A, NEW B, Content(A) = Content(B), NEW q \in A, Fresh(q)',
               \A x \in A \union B : x.received \in Nat
        PROVE  \E x \in B : Fresh(x)' /\ proj(x) = proj(q)
    <3>1. proj(q) \in Content(A)
      BY <1>4, <2>3 DEF Content
    <3>2. PICK x \in B : Fresh(x) /\ proj(x) = proj(q)
      BY <2>3, <3>1 DEF Content
    <3>3. x.received = q.received
      BY <3>2
    <3>4. QED BY <2>3, <3>2, <3>3 DEF Fresh
  <2>4. {proj(q) : q \in {x \in V : Fresh(x)'}} = {proj(q) : q \in {x \in M : Fresh(x)'}}
    <3> HIDE DEF proj
    <3>1. \A q \in V : Fresh(q)' => \E x \in M : Fresh(x)' /\ proj(x) = proj(q)
      BY <2>1, <2>2, <2>3 DEF Fresh
    <3>2. \A q \in M : Fresh(q)' => \E x \in V : Fresh(x)' /\ proj(x) = proj(q)
      BY <2>1, <2>2, <2>3 DEF Fresh
    <3>3. QED BY <3>1, <3>2 DEF Fresh
  <2>5. QED BY <1>1, <2>0, <2>1, <2>4 DEF Content
<1>9. QED BY <1>1, <1>3, <1>5, <1>6, <1>7, <1>8

\* The sample: the packet brings the page from its cursor to the store.
LEMMA SampleStep ==
    ASSUME IInv, TypeOK', NEW c \in Conn, StreamSample(c)
    PROVE  PageInv(c)'
<1> DEFINE k == read[c]
           from == IF Reset(c) THEN 0 ELSE cursor[c]
           rows == {OnPage(r, k) : r \in ChangesSince(from)}
           old == IF Reset(c) THEN {} ELSE page[c]
<1>1. /\ at[c] = "sample" /\ at'[c] = "deliver"
      /\ cursor'[c] = revision /\ sampled'[c] = reports
      /\ page' = page /\ read' = read /\ clock' = clock /\ reports' = reports
      /\ nextEvent' = nextEvent /\ revision' = revision
      /\ packet'[c] = [reset |-> Reset(c), now |-> now[c], oldest |-> OldestID,
                        reports |-> rows]
  BY DEF StreamSample, store, IInv, TypeOK
<1>2. /\ reports \subseteq Report /\ page[c] \subseteq PageReport
      /\ clock \in Nat /\ now[c] \in Nat /\ Retention \in Nat /\ now[c] <= clock
      /\ cursor[c] \in Nat /\ revision \in Nat /\ nextEvent \in Nat
  BY <1>1, StreamConstantsOK DEF IInv, TypeOK, TurnInv
<1>3. ~Reset(c) => /\ Complete(c) /\ NothingStale(c) /\ Agrees(c)
                   /\ View(c) = page[c] /\ Key(c) = k
                   /\ \A p \in page[c] : p.key = k
  BY <1>1 DEF Reset, IInv, PageInv, Synced, View, Key
<1>4. View(c)' = {p \in {q \in old : \A r \in rows : r.event # q.event} \union rows :
                     p.event >= OldestID /\ p.received >= now[c] - Retention}
  BY <1>1 DEF View, Apply
<1>5. Key(c)' = k
  BY <1>1 DEF Key
<1>6. /\ OldestID \in Nat
      /\ \A r \in reports : OldestID <= r.event
      /\ reports = {} => OldestID = nextEvent + 1
      /\ reports # {} => \E r \in reports : r.event = OldestID
  BY Oldest DEF IInv
<1>7. /\ \A r \in reports : /\ r.revision \in 1..revision
                              /\ r.event \in 1..nextEvent
                              /\ OnPage(r, k).event = r.event
                              /\ OnPage(r, k).received = r.received
                              /\ OnPage(r, k).spot = r.spot
                              /\ OnPage(r, k).key = k
      /\ \A r, o \in reports : r.event = o.event => r = o
  BY DEF IInv, StoreInv, OnPage
<1>8. \A p : p \in rows <=> \E r \in reports : r.revision > from /\ p = OnPage(r, k)
  BY DEF ChangesSince
<1> HIDE DEF rows
\* A row of the store that is fresh is on the page after the sample.
<1>9. ASSUME NEW r \in reports, Fresh(r)
      PROVE  OnPage(r, k) \in View(c)'
  <2>1. r.event >= OldestID /\ r.received >= now[c] - Retention
    BY <1>2, <1>6, <1>9 DEF Fresh, Report
  <2>2. CASE r.revision > from
    BY <1>4, <1>7, <1>8, <2>1, <2>2
  <2>3. CASE ~(r.revision > from)
    <3>1. ~Reset(c) /\ r.revision <= cursor[c]
      BY <1>2, <1>7, <2>3
    <3>2. OnPage(r, k) \in page[c]
      BY <1>3, <1>9, <3>1 DEF Complete
    <3>3. \A q \in rows : q.event # r.event
      BY <1>7, <1>8, <2>3
    <3>4. QED BY <1>4, <1>7, <2>1, <3>1, <3>2, <3>3
  <2>4. QED BY <2>2, <2>3
\* A row of the page after the sample is the store's row of that event.
<1>10. ASSUME NEW p \in View(c)', NEW r \in reports, p.event = r.event
       PROVE  p = OnPage(r, k)
  <2>1. CASE p \in rows
    BY <1>7, <1>8, <1>10, <2>1
  <2>2. CASE p \notin rows
    <3>1. ~Reset(c) /\ p \in page[c] /\ \A q \in rows : q.event # p.event
      BY <1>4, <2>2
    <3>2. ~(r.revision > from)
      BY <1>7, <1>8, <1>10, <3>1
    <3>3. QED BY <1>2, <1>3, <1>7, <1>10, <3>1, <3>2 DEF Agrees
  <2>3. QED BY <2>1, <2>2
\* A fresh row of the page after the sample has its row in the store.
<1>11. ASSUME NEW p \in View(c)'
       PROVE  /\ p.event <= nextEvent /\ p.event >= OldestID /\ p.event \in Nat
              /\ p.key = k
              /\ Fresh(p) => \E r \in reports : r.event = p.event
  <2>1. CASE p \in rows
    BY <1>2, <1>4, <1>7, <1>8, <1>11, <2>1 DEF Report
  <2>2. CASE p \notin rows
    <3>1. ~Reset(c) /\ p \in page[c] /\ p.event >= OldestID
      BY <1>4, <1>11, <2>2
    <3>2. p.event <= nextEvent /\ p.event \in Nat /\ p.key = k
      BY <1>2, <1>3, <3>1 DEF NothingStale, PageReport
    <3>3. ASSUME Fresh(p), \A r \in reports : p.event < r.event
          PROVE  FALSE
      BY <1>2, <1>6, <3>1, <3>2, <3>3
    <3>4. QED BY <1>3, <3>1, <3>2, <3>3 DEF NothingStale
  <2>3. QED BY <2>1, <2>2
<1>12. Complete(c)' /\ NothingStale(c)' /\ Agrees(c)'
  <2>1. Complete(c)'
    BY <1>1, <1>5, <1>9 DEF Complete, Fresh, OnPage
  <2>2. NothingStale(c)'
    BY <1>1, <1>11 DEF NothingStale, Fresh
  <2>3. Agrees(c)'
    BY <1>1, <1>5, <1>7, <1>10 DEF Agrees, OnPage
  <2>4. QED BY <2>1, <2>2, <2>3
<1>13. Content(View(c))' = Content(sampled[c])'
  <2>0. PICK V : V = View(c)'
    OBVIOUS
  <2> DEFINE proj(q) == [event |-> q.event, spot |-> q.spot,
                         received |-> q.received, location |-> q.location]
  <2>1. \A r \in reports : proj(OnPage(r, k)) = proj(r)
    BY DEF OnPage
  <2>2. \A r \in reports : Fresh(r) => OnPage(r, k) \in V /\ Fresh(OnPage(r, k))
    BY <1>7, <1>9, <2>0 DEF Fresh
  <2>3. \A p \in V : Fresh(p) => \E r \in reports : p = OnPage(r, k) /\ Fresh(r)
    BY <1>7, <1>10, <1>11, <2>0 DEF Fresh
  <2> HIDE DEF proj
  <2>4. {proj(q) : q \in {x \in V : Fresh(x)}}
            = {proj(q) : q \in {x \in reports : Fresh(x)}}
    BY <2>1, <2>2, <2>3
  <2>5. QED BY <1>1, <2>0, <2>4 DEF Content, Fresh, proj
<1>14. QED BY <1>1, <1>2, <1>5, <1>11, <1>12, <1>13 DEF PageInv

\* The part of the invariant about the pages.
LEMMA PageStep ==
    ASSUME IInv, TypeOK', [Next]_vars, NEW c \in Conn
    PROVE  PageInv(c)'
<1> USE DEF View, Key, Synced
<1>0. /\ clock \in Nat /\ nextEvent \in Nat /\ revision \in Nat
      /\ MaxHold \in Nat /\ Retention \in Nat
      /\ \A r \in reports : r \in Report
  BY StreamConstantsOK DEF IInv, TypeOK
<1>1. ASSUME NEW s \in Spot, NEW t \in (clock - MaxHold)..clock,
             NEW l \in Location, t >= 0, Publish(s, t, l)
      PROVE  PageInv(c)'
  <2>1. UNCHANGED <<clock, connection, page>>
    BY <1>1 DEF Publish
  <2>2. t \in Nat
    BY <1>0, <1>1
  <2>3. /\ nextEvent' = nextEvent + 1 /\ revision' = revision + 1
        /\ \A r \in reports' :
               \/ r \in reports
               \/ r = [event |-> nextEvent + 1, revision |-> revision + 1,
                       spot |-> s, received |-> t, location |-> l]
        /\ \A r \in reports \ reports', o \in reports' : r.event < o.event
    BY <1>1, <2>2, PublishStep DEF IInv
  <2>4. \A r \in reports' :
            \/ r.event > nextEvent /\ r.revision > revision
            \/ \E o \in reports :
                   /\ r.event = o.event /\ r.spot = o.spot
                   /\ r.received = o.received
                   /\ r = o \/ r.revision > revision
    BY <1>0, <2>3
  <2>5. \A o \in reports :
            \/ \E r \in reports' : r.event = o.event
            \/ ~Fresh(o)'
            \/ \A r \in reports' : o.event < r.event
    BY <2>3
  <2>6. QED BY <1>0, <2>1, <2>3, <2>4, <2>5, PageStutter DEF connection
<1>2. ASSUME NEW S \in SUBSET reports, NEW f \in [S -> Location], Enrich(S, f)
      PROVE  PageInv(c)'
  <2>1. UNCHANGED <<clock, connection, page>>
    BY <1>2 DEF Enrich
  <2>2. /\ nextEvent' = nextEvent /\ revision' \in Nat /\ revision <= revision'
        /\ \A r \in reports' : \E o \in reports :
               /\ r.event = o.event /\ r.spot = o.spot
               /\ r.received = o.received
               /\ r = o \/ r.revision \in (revision + 1)..revision'
        /\ \A o \in reports : \E r \in reports' : r.event = o.event
    BY <1>2, EnrichStep DEF IInv
  <2>3. \A r \in reports' : \E o \in reports :
            /\ r.event = o.event /\ r.spot = o.spot
            /\ r.received = o.received
            /\ r = o \/ r.revision > revision
    BY <1>0, <2>2
  <2>4. QED BY <1>0, <2>1, <2>2, <2>3, PageStutter DEF connection
<1>3. ASSUME NEW k \in FilterKey, SetState(k) PROVE PageInv(c)'
  BY <1>0, <1>3, PageStutter DEF SetState, store, connection
<1>4. CASE Tick
  BY <1>0, <1>4, PageStutter DEF Tick, store, connection
<1>5. ASSUME NEW d \in Conn, Begin(d) PROVE PageInv(c)'
  <2>1. /\ reports' = {r \in reports : r.received >= clock - Retention}
        /\ nextEvent' = nextEvent /\ revision' = revision /\ clock' = clock
    BY <1>5 DEF Begin, Expire
  <2>2. \A o \in reports : o \in reports' \/ ~Fresh(o)'
    BY <2>1 DEF Fresh
  <2>3. Synced(c)' => /\ Synced(c)
                      /\ View(c)' = View(c) /\ Key(c)' = Key(c)
                      /\ cursor'[c] = cursor[c]
                      /\ at'[c] \in {"deliver", "wait"} =>
                             /\ at[c] \in {"deliver", "wait"}
                             /\ sampled'[c] = sampled[c]
    BY <1>5 DEF Begin, IInv, TurnInv, TypeOK
  <2>4. QED BY <1>0, <2>1, <2>2, <2>3, PageStutter
<1>6. ASSUME NEW d \in Conn, StreamSample(d) PROVE PageInv(c)'
  <2>1. CASE d = c
    BY <1>6, <2>1, SampleStep
  <2>2. CASE d # c
    BY <1>0, <1>6, <2>2, PageStutter DEF StreamSample, store, IInv, TypeOK
  <2>3. QED BY <2>1, <2>2
<1>7. ASSUME NEW d \in Conn, Deliver(d) PROVE PageInv(c)'
  <2>1. Synced(c)' => /\ Synced(c)
                      /\ View(c)' = View(c) /\ Key(c)' = Key(c)
                      /\ cursor'[c] = cursor[c]
                      /\ at'[c] \in {"deliver", "wait"} =>
                             /\ at[c] \in {"deliver", "wait"}
                             /\ sampled'[c] = sampled[c]
    BY <1>7 DEF Deliver, IInv, TypeOK
  <2>2. QED BY <1>0, <1>7, <2>1, PageStutter DEF Deliver, store
<1>8. ASSUME NEW d \in Conn, Drop(d) PROVE PageInv(c)'
  <2>1. Synced(c)' => /\ Synced(c)
                      /\ View(c)' = View(c) /\ Key(c)' = Key(c)
                      /\ cursor'[c] = cursor[c]
                      /\ at'[c] \in {"deliver", "wait"} =>
                             /\ at[c] \in {"deliver", "wait"}
                             /\ sampled'[c] = sampled[c]
    BY <1>8 DEF Drop, IInv, TypeOK
  <2>2. QED BY <1>0, <1>8, <2>1, PageStutter DEF Drop, store
<1>9. CASE UNCHANGED vars
  BY <1>0, <1>9, PageStutter DEF vars, store, connection
<1>10. QED
  BY <1>1, <1>2, <1>3, <1>4, <1>5, <1>6, <1>7, <1>8, <1>9
     DEF Next, EventLoop, Connection

\* The inductive invariant of the stream holds in every reachable state.
THEOREM StreamSafety == Spec => []IInv
<1>1. Init => IInv
  <2> SUFFICES ASSUME Init PROVE IInv
    OBVIOUS
  <2>1. NoPacket \in Packet
    BY DEF NoPacket, Packet
  <2>2. TypeOK
    BY <2>1, StreamConstantsOK DEF Init, TypeOK, Place
  <2>3. QED BY <2>2 DEF Init, IInv, StoreInv, TurnInv, PageInv, Synced
<1>2. IInv /\ [Next]_vars => IInv'
  BY BaseStep, PageStep DEF IInv
<1>3. QED BY <1>1, <1>2, PTL DEF Spec

\* A page that has applied a packet shows the store as that packet's sample
\* found it (events, ChangesSince, stream.onmessage).
THEOREM PageShowsStoreHolds == Spec => []PageShowsStore
<1>1. IInv => PageShowsStore
  BY DEF IInv, TurnInv, PageInv, Synced, View, PageShowsStore
<1>2. QED BY <1>1, StreamSafety, PTL

\* All rows of a page are judged by one filter, the one the page names (events).
THEOREM OneFilterHolds == Spec => []OneFilter
<1>1. IInv => OneFilter
  BY DEF IInv, TurnInv, PageInv, Synced, View, Key, OneFilter
<1>2. QED BY <1>1, StreamSafety, PTL
=============================================================================
