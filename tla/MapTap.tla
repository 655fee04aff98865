------------------------------- MODULE MapTap -------------------------------
(***************************************************************************)
(* How cluster spots reach the map (main.go, mapfeed_tap.go): a spot is    *)
(* published with the best location known, a spot naming a park whose      *)
(* lookup is in flight is held back for it, and answers that come late     *)
(* enrich the reports already published.                                   *)
(*                                                                         *)
(* One event-loop handler at a time; `todo` holds the spots the running    *)
(* handler has still to add, one store operation each.                     *)
(***************************************************************************)
EXTENDS GeoCache, Sequences, SequencesExt

CONSTANTS
    Spot, Call, Park, Coord,
    NoPark,        \* the comment names no park
    ParkOf,        \* the park a spot's comment names
    DXCall,        \* the spotted call
    SpotterCall,   \* the call of its spotter
    Capacity,      \* mapReportsCapacity
    QRZCapacity,   \* qrzGeoCacheCapacity
    POTACapacity,  \* potaGeoCacheCapacity
    SpotCap,       \* potaPendingSpotCap
    TotalCap,      \* potaPendingTotalCap
    LookupTimeout, \* potaParkLookupTimeout
    DrainInterval, \* uploadDrainInterval
    MaxRevision,   \* bound: revisions given out
    Horizon        \* bound: the clock

ASSUME TapConstantsOK ==
    /\ ParkOf \in [Spot -> Park \union {NoPark}]
    /\ DXCall \in [Spot -> Call]
    /\ SpotterCall \in [Spot -> Call]
    /\ NoPark \notin Park
    /\ NoCoord \notin Coord
    /\ {Capacity, QRZCapacity, POTACapacity, SpotCap, TotalCap,
        LookupTimeout, DrainInterval, MaxRevision, Horizon} \subseteq Nat
    /\ Capacity > 0 /\ LookupTimeout > 0 /\ DrainInterval > 0

VARIABLES
    reports, nextEvent, revision,   \* the report store
    qrz,        \* qrzGeoCache, by call
    pota,       \* potaGeoCache, by park
    waiting,    \* pendingPOTASpots: the spots held back for each park
    todo,       \* spots the running handler has still to add
    received,   \* when each spot was received, -1 if not yet
    published,  \* history: the spots added to the store
    clock,
    timer       \* time left until the next drain tick

storeVars == <<reports, nextEvent, revision>>
vars == <<storeVars, qrz, pota, waiting, todo, received, published, clock, timer>>

\* Where a station is known to be: from the country table (or nowhere), from
\* its QRZ profile, or at its park.
Reference == [source |-> "country", coord |-> NoCoord]
Known(source, coord) == [source |-> source, coord |-> coord]
Site == {Reference} \union [source : {"qrz", "pota"}, coord : Coord]
Location == [dx : Site, spotter : {s \in Site : s.source # "pota"}]

INSTANCE ReportStore

Cache(K) == [capacity : Nat,
             entries : UNION {[S -> Coord \union {NoCoord}] : S \in SUBSET K},
             stale : SUBSET K, pending : SUBSET K]

TypeOK ==
    /\ reports \subseteq Report
    /\ nextEvent \in Nat
    /\ revision \in Nat
    /\ qrz \in Cache(Call)
    /\ pota \in Cache(Park)
    /\ waiting \in [Park -> Seq(Spot)]
    /\ todo \in Seq(Spot)
    /\ received \in [Spot -> -1..Horizon]
    /\ published \subseteq Spot
    /\ clock \in 0..Horizon
    /\ timer \in 0..DrainInterval

Init ==
    /\ reports = {} /\ nextEvent = 0 /\ revision = 0
    /\ qrz = Empty(QRZCapacity)
    /\ pota = Empty(POTACapacity)
    /\ waiting = [p \in Park |-> <<>>]
    /\ todo = <<>>
    /\ received = [s \in Spot |-> -1]
    /\ published = {}
    /\ clock = 0
    /\ timer = DrainInterval

-----------------------------------------------------------------------------
(* Locations                                                               *)

\* resolveMapLocation
Profile(call) ==
    IF Lookup(qrz, call) = NoCoord THEN Reference
    ELSE Known("qrz", Lookup(qrz, call))

\* resolveDXLocation
DXSite(s) ==
    IF ParkOf[s] # NoPark /\ Lookup(pota, ParkOf[s]) # NoCoord
    THEN Known("pota", Lookup(pota, ParkOf[s]))
    ELSE Profile(DXCall[s])

\* buildMapReport
Build(s) ==
    [spot     |-> s,
     received |-> received[s],
     location |-> [dx |-> DXSite(s), spotter |-> Profile(SpotterCall[s])]]

\* Mutant: a QRZ answer takes the place of a park.
AnySite(site) == TRUE

\* What a QRZ answer may replace.
ProfileMayReplace(site) == site.source # "pota"

\* enrichQRZReports.  Every answer is a location of its own, so a report that
\* takes it changes even if the coordinate is the one it had.
QRZChanges(call, coord) ==
    LET takes(site, c) == c = call /\ ProfileMayReplace(site)
        takesDX(r) == takes(r.location.dx, DXCall[r.spot])
        takesSpotter(r) == takes(r.location.spotter, SpotterCall[r.spot])
        new == Known("qrz", coord)
    IN  [r \in {q \in reports : takesDX(q) \/ takesSpotter(q)} |->
            [dx      |-> IF takesDX(r) THEN new ELSE r.location.dx,
             spotter |-> IF takesSpotter(r) THEN new ELSE r.location.spotter]]

\* Mutant: a park answer moves the spotter of a report as well.
POTAMovesBoth(park, coord) ==
    [r \in {q \in reports : ParkOf[q.spot] = park} |->
        [dx |-> Known("pota", coord), spotter |-> Known("pota", coord)]]

\* enrichPOTAReports
POTAChanges(park, coord) ==
    [r \in {q \in reports : ParkOf[q.spot] = park} |->
        [r.location EXCEPT !.dx = Known("pota", coord)]]

-----------------------------------------------------------------------------
(* The pending spots                                                       *)

Handler == todo = <<>>
Waiting == UNION {Range(waiting[p]) : p \in Park}

\* Mutant: a spot as old as the timeout waits for the next tick.
ExpiredLater ==
    {p \in Park : waiting[p] # <<>>
                  /\ clock - received[waiting[p][1]] > LookupTimeout}

\* The parks whose first spot has waited long enough (expirePendingPOTASpots).
Expired ==
    {p \in Park : waiting[p] # <<>>
                  /\ clock - received[waiting[p][1]] >= LookupTimeout}

\* The spots of the parks in P, park after park in any order (a Go map), in
\* order of arrival within a park.
Flushes(P) ==
    {FlattenSeq([i \in 1..Cardinality(P) |-> waiting[order[i]]]) :
        order \in SetToSeqs(P)}

\* Mutant: the spots are added, and stay queued.
KeepsQueue(P) == waiting

\* The queues after flushPendingPOTASpots for the parks in P.
Without(P) == [p \in Park |-> IF p \in P THEN <<>> ELSE waiting[p]]

Held(w) == FoldSet(LAMBDA p, n : n + Len(w[p]), 0, Park)

\* A spot from the cluster.  The handler starts the lookups it needs, and adds
\* the spot or holds it back for its park's lookup (queuePendingPOTASpot).
Receive(s) ==
    /\ Handler
    /\ received[s] = -1
    /\ received' = [received EXCEPT ![s] = clock]
    /\ LET p == ParkOf[s]
           started == IF p = NoPark THEN pota ELSE StartIfNeeded(pota, p)
           left == Without(Expired)
       IN  /\ pota' = started
           /\ IF p = NoPark \/ p \notin started.pending
              THEN todo' = <<s>> /\ UNCHANGED waiting
              ELSE \E flushed \in Flushes(Expired) :
                     IF Len(left[p]) >= SpotCap \/ Held(left) >= TotalCap
                     THEN waiting' = left /\ todo' = Append(flushed, s)
                     ELSE /\ waiting' = [left EXCEPT ![p] = Append(@, s)]
                          /\ todo' = flushed
    \* without credentials no QRZ lookup starts
    /\ qrz' \in {qrz, StartIfNeeded(StartIfNeeded(qrz, DXCall[s]), SpotterCall[s])}
    /\ UNCHANGED <<storeVars, published, clock, timer>>

\* The handler adds the next of its spots.
AddNext ==
    /\ todo # <<>>
    /\ AddAll(<<Build(todo[1])>>)
    /\ todo' = Tail(todo)
    /\ published' = published \union {todo[1]}
    /\ UNCHANGED <<qrz, pota, waiting, received, clock, timer>>

\* qrzMapGeoMsg
QRZAnswer(call, coord) ==
    /\ Handler
    /\ call \in qrz.pending
    /\ qrz' = Stored(qrz, call, coord)
    /\ IF coord = NoCoord THEN UNCHANGED storeVars
       ELSE UpdateLocations(QRZChanges(call, coord))
    /\ UNCHANGED <<pota, waiting, todo, received, published, clock, timer>>

\* potaGeoMsg: the spots held back for the park are added next.
POTAAnswer(park, coord) ==
    /\ Handler
    /\ park \in pota.pending
    /\ pota' = Stored(pota, park, coord)
    /\ IF coord = NoCoord THEN UNCHANGED storeVars
       ELSE UpdateLocations(POTAChanges(park, coord))
    /\ waiting' = Without({park})
    /\ todo' = waiting[park]
    /\ UNCHANGED <<qrz, received, published, clock, timer>>

\* Mutant: held spots are flushed by the next spot, not by the clock.
DrainUploadsOnly ==
    /\ Handler
    /\ timer = 0
    /\ timer' = DrainInterval
    /\ UNCHANGED <<storeVars, qrz, pota, waiting, todo, received, published, clock>>

\* uploadDrainMsg
DrainTick ==
    /\ Handler
    /\ timer = 0
    /\ timer' = DrainInterval
    /\ todo' \in Flushes(Expired)
    /\ waiting' = Without(Expired)
    /\ UNCHANGED <<storeVars, qrz, pota, received, published, clock>>

\* A cached answer grows older than the ttl; a handler takes no time.
AgeEntry ==
    /\ Handler
    /\ \/ \E c \in DOMAIN qrz.entries \ qrz.stale :
              qrz' = Age(qrz, c) /\ UNCHANGED pota
       \/ \E p \in DOMAIN pota.entries \ pota.stale :
              pota' = Age(pota, p) /\ UNCHANGED qrz
    /\ UNCHANGED <<storeVars, waiting, todo, received, published, clock, timer>>

\* Time passes; the event loop takes a drain tick when it is due.
Tick ==
    /\ Handler
    /\ timer > 0
    /\ clock < Horizon
    /\ clock' = clock + 1
    /\ timer' = timer - 1
    /\ UNCHANGED <<storeVars, qrz, pota, waiting, todo, received, published>>

Next ==
    \/ \E s \in Spot : Receive(s)
    \/ AddNext
    \/ \E c \in Call, x \in Coord \union {NoCoord} : QRZAnswer(c, x)
    \/ \E p \in Park, x \in Coord \union {NoCoord} : POTAAnswer(p, x)
    \/ DrainTick
    \/ AgeEntry
    \/ Tick

Spec == Init /\ [][Next]_vars

-----------------------------------------------------------------------------
(* What the tap promises                                                   *)

\* Every spot received is added exactly once or still waits for that.
PublishedOnce ==
    /\ nextEvent = Cardinality(published)
    /\ {s \in Spot : received[s] >= 0} = published \union Waiting \union Range(todo)
    /\ (Waiting \union Range(todo)) \intersect published = {}
    /\ Waiting \intersect Range(todo) = {}

\* A report shows its park wherever the cache knows the park, and otherwise no
\* less than the QRZ profiles the cache knows.
Located(r) ==
    LET park == ParkOf[r.spot]
        profile(call, site) ==
            Lookup(qrz, call) = NoCoord \/ site = Known("qrz", Lookup(qrz, call))
    IN  /\ \/ /\ park \in DOMAIN pota.entries
              /\ pota.entries[park] # NoCoord
              /\ r.location.dx = Known("pota", pota.entries[park])
           \/ /\ park \notin DOMAIN pota.entries \/ pota.entries[park] = NoCoord
              /\ \/ park # NoPark /\ r.location.dx.source = "pota"
                 \/ profile(DXCall[r.spot], r.location.dx)
        /\ profile(SpotterCall[r.spot], r.location.spotter)

\* Between handlers every retained report shows the best location the caches
\* know (resolveMapLocation and the two enrichments).
BestLocation == Handler => \A r \in reports : Located(r)

\* Every lookup in flight has a place reserved for its answer (geoCache.store
\* never finds the cache full).
Reservation == Reserved(qrz) /\ Reserved(pota)

\* No spot is held back longer than the timeout and one drain interval.
HeldBriefly ==
    \A s \in Waiting : clock - received[s] < LookupTimeout + DrainInterval

Stream == INSTANCE MapStream WITH
    Conn <- {}, FilterKey <- {"filter"}, NoKey <- "none", Retention <- Horizon,
    MaxHold <- LookupTimeout + DrainInterval - 1, MaxChanges <- 0,
    filter <- "filter", changes <- 0,
    at <- <<>>, cursor <- <<>>, first <- <<>>, now <- <<>>, read <- <<>>,
    sent <- <<>>, packet <- <<>>, page <- <<>>, sampled <- <<>>

\* The tap is the event loop that MapStream assumes, here without pages: this
\* is Stream!Spec, with the steps that leave the store alone singled out first.
\* Above all, no spot is published later than MapStream allows for.
FeedsStream ==
    Stream!Init /\ [][UNCHANGED <<storeVars, clock>> \/ Stream!Next]_vars
=============================================================================
