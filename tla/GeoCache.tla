------------------------------ MODULE GeoCache ------------------------------
(***************************************************************************)
(* The bounded cache of looked-up locations (geo_cache.go): entries with   *)
(* their age against the ttl, and keys reserved by lookups in flight.      *)
(***************************************************************************)
EXTENDS Integers, FiniteSets

CONSTANT NoCoord  \* a known absence of coordinates, or a failed lookup

Empty(capacity) ==
    [capacity |-> capacity, entries |-> <<>>, stale |-> {}, pending |-> {}]

\* The keys with an entry; those in `stale` are older than the ttl.
Keys(cache) == DOMAIN cache.entries
Size(cache) == Cardinality(Keys(cache)) + Cardinality(cache.pending)

\* lookup: a fresh answer with a coordinate, if there is one.
Lookup(cache, key) ==
    IF key \in Keys(cache) \ cache.stale THEN cache.entries[key] ELSE NoCoord

\* Mutant: an expired entry and the lookup that renews it both take a place.
StartBesideEntry(cache, key) ==
    IF key \in (Keys(cache) \ cache.stale) \union cache.pending
    THEN cache
    ELSE [cache EXCEPT !.pending =
              IF Size(cache) >= cache.capacity THEN @ ELSE @ \union {key}]

\* startIfNeeded: an expired entry gives way to a reservation; a full cache
\* drops every expired entry before it turns a key away.
StartIfNeeded(cache, key) ==
    LET full == Size(cache) >= cache.capacity
        kept == {k \in Keys(cache) \ {key} :
                     ~(full /\ k \in cache.stale \ cache.pending)}
    IN  IF key \in (Keys(cache) \ cache.stale) \union cache.pending
        THEN cache
        ELSE [cache EXCEPT
                 !.entries = [k \in kept |-> cache.entries[k]],
                 !.stale = @ \intersect kept,
                 !.pending =
                     IF Cardinality(kept) + Cardinality(@) >= cache.capacity
                     THEN @ ELSE @ \union {key}]

\* store: the answer replaces the reservation, unless there is no room for it.
Stored(cache, key, coord) ==
    LET answered == [cache EXCEPT !.pending = @ \ {key}]
    IN  IF key \notin Keys(cache) /\ Size(answered) >= cache.capacity
        THEN answered
        ELSE [answered EXCEPT
                 !.entries = [k \in Keys(cache) \union {key} |->
                                  IF k = key THEN coord ELSE cache.entries[k]],
                 !.stale = @ \ {key}]

\* An entry passes its ttl.
Age(cache, key) == [cache EXCEPT !.stale = @ \union {key}]

\* Reservations and entries are different keys, and together they fit.
Reserved(cache) ==
    /\ cache.stale \subseteq Keys(cache)
    /\ Keys(cache) \intersect cache.pending = {}
    /\ Size(cache) <= cache.capacity
=============================================================================
