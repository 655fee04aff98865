--------------------------- MODULE GeoCacheProofs ---------------------------
(***************************************************************************)
(* What the operations of the location cache preserve.                     *)
(***************************************************************************)
EXTENDS GeoCache, FiniteSetTheorems, TLAPS

\* Reserved, and what the model needs of a cache to count its keys.
Sound(cache) ==
    /\ cache.capacity \in Nat
    /\ cache = [capacity |-> cache.capacity, entries |-> cache.entries,
                stale |-> cache.stale, pending |-> cache.pending]
    /\ IsFiniteSet(Keys(cache))
    /\ IsFiniteSet(cache.pending)
    /\ Reserved(cache)

\* A new cache is sound (newGeoCache).
LEMMA SoundEmpty ==
    ASSUME NEW capacity \in Nat
    PROVE  Sound(Empty(capacity))
<1> DEFINE new == Empty(capacity)
<1>1. /\ Keys(new) = {} /\ new.pending = {} /\ new.stale = {}
      /\ new.capacity = capacity
  BY DEF Empty, Keys
<1>2. IsFiniteSet({}) /\ Cardinality({}) = 0
  BY FS_EmptySet
<1>3. new = [capacity |-> new.capacity, entries |-> new.entries,
             stale |-> new.stale, pending |-> new.pending]
  BY DEF Empty
<1> HIDE DEF new
<1>4. Size(new) = 0
  BY <1>1, <1>2 DEF Size
<1>5. Sound(new)
  BY <1>1, <1>2, <1>3, <1>4 DEF Sound, Reserved
<1> QED
  BY <1>5 DEF new

\* startIfNeeded keeps every reservation and never overfills the cache, whatever
\* has expired.
LEMMA SoundStart ==
    ASSUME NEW cache, NEW key, Sound(cache)
    PROVE  Sound(StartIfNeeded(cache, key))
<1> DEFINE full == Size(cache) >= cache.capacity
           kept == {k \in Keys(cache) \ {key} :
                        ~(full /\ k \in cache.stale \ cache.pending)}
           room == ~(Cardinality(kept) + Cardinality(cache.pending)
                         >= cache.capacity)
           reserved == IF room THEN cache.pending \union {key}
                       ELSE cache.pending
           new == [capacity |-> cache.capacity,
                   entries |-> [k \in kept |-> cache.entries[k]],
                   stale |-> cache.stale \intersect kept,
                   pending |-> reserved]
<1>1. CASE key \in (Keys(cache) \ cache.stale) \union cache.pending
  BY <1>1 DEF StartIfNeeded
<1>2. CASE key \notin (Keys(cache) \ cache.stale) \union cache.pending
  <2>1. StartIfNeeded(cache, key) = new
    BY <1>2 DEF StartIfNeeded, Sound
  <2>2. kept \subseteq Keys(cache) /\ key \notin kept /\ key \notin cache.pending
    BY <1>2
  <2>3. IsFiniteSet(kept) /\ Cardinality(kept) <= Cardinality(Keys(cache))
    BY <2>2, FS_Subset DEF Sound
  <2>4. /\ Cardinality(kept) \in Nat
        /\ Cardinality(Keys(cache)) \in Nat
        /\ Cardinality(cache.pending) \in Nat
    BY <2>3, FS_CardinalityType DEF Sound
  <2>5. /\ IsFiniteSet(cache.pending \union {key})
        /\ Cardinality(cache.pending \union {key}) = Cardinality(cache.pending) + 1
    BY <2>2, FS_AddElement DEF Sound
  <2>6. /\ IsFiniteSet(reserved)
        /\ Cardinality(kept) + Cardinality(reserved) <= cache.capacity
    BY <2>3, <2>4, <2>5 DEF Sound, Reserved, Size
  <2>7. kept \intersect reserved = {}
    BY <2>2 DEF Sound, Reserved
  <2> HIDE DEF kept, reserved
  <2>8. Keys(new) = kept /\ new.stale \subseteq kept /\ new.pending = reserved
      /\ new.capacity = cache.capacity
    BY DEF Keys
  <2> QED
    BY <2>1, <2>3, <2>6, <2>7, <2>8 DEF Sound, Reserved, Size
<1> QED
  BY <1>1, <1>2

\* The answer of a lookup in flight takes the place reserved for it.
LEMMA SoundStored ==
    ASSUME NEW cache, NEW key, NEW coord, Sound(cache),
           key \in cache.pending
    PROVE  /\ Sound(Stored(cache, key, coord))
           /\ key \in Keys(Stored(cache, key, coord))
<1> DEFINE left == cache.pending \ {key}
           keys == Keys(cache) \union {key}
           answered == [cache EXCEPT !.pending = left]
           new == [capacity |-> cache.capacity,
                   entries |-> [k \in keys |-> IF k = key THEN coord
                                               ELSE cache.entries[k]],
                   stale |-> cache.stale \ {key},
                   pending |-> left]
<1>1. key \notin Keys(cache)
  BY DEF Sound, Reserved
<1>2. /\ IsFiniteSet(left)
      /\ Cardinality(left) = Cardinality(cache.pending) - 1
  BY FS_RemoveElement DEF Sound
<1>3. /\ IsFiniteSet(keys)
      /\ Cardinality(keys) = Cardinality(Keys(cache)) + 1
  BY <1>1, FS_AddElement DEF Sound
<1>4. Cardinality(Keys(cache)) \in Nat /\ Cardinality(cache.pending) \in Nat
  BY FS_CardinalityType DEF Sound
<1>5. /\ answered.pending = left /\ answered.entries = cache.entries
      /\ answered.stale = cache.stale
      /\ answered.capacity = cache.capacity
  BY DEF Sound
<1>6. Size(answered) < cache.capacity
  BY <1>2, <1>4, <1>5 DEF Size, Keys, Sound, Reserved
<1>7. Stored(cache, key, coord) = new
  <2>1. ~(Size(answered) >= cache.capacity)
    BY <1>2, <1>4, <1>5, <1>6 DEF Size, Keys, Sound
  <2>2. Stored(cache, key, coord) =
            [answered EXCEPT
                !.entries = [k \in keys |-> IF k = key THEN coord
                                            ELSE cache.entries[k]],
                !.stale = @ \ {key}]
    BY <2>1, Zenon DEF Stored
  <2>3. answered = [capacity |-> cache.capacity, entries |-> cache.entries,
                    stale |-> cache.stale, pending |-> left]
    BY DEF Sound
  <2> QED
    BY <2>2, <2>3
<1>8. keys \intersect left = {} /\ cache.stale \ {key} \subseteq keys
  BY DEF Sound, Reserved
<1>9. Cardinality(keys) + Cardinality(left) <= cache.capacity
  BY <1>2, <1>3, <1>4 DEF Sound, Reserved, Size
<1> HIDE DEF keys, left
<1>10. Keys(new) = keys /\ new.pending = left /\ new.stale = cache.stale \ {key}
       /\ new.capacity = cache.capacity
  BY DEF Keys
<1>11. key \in keys
  BY DEF keys
<1> QED
  BY <1>2, <1>3, <1>7, <1>8, <1>9, <1>10, <1>11 DEF Sound, Reserved, Size

\* An entry that passes its ttl keeps its place.
LEMMA SoundAge ==
    ASSUME NEW cache, NEW key, Sound(cache), key \in Keys(cache)
    PROVE  Sound(Age(cache, key))
<1>1. Age(cache, key) = [capacity |-> cache.capacity,
                         entries |-> cache.entries,
                         stale |-> cache.stale \union {key},
                         pending |-> cache.pending]
  BY DEF Age, Sound
<1> QED
  BY <1>1 DEF Sound, Reserved, Size, Keys

\* Starting a lookup answers every key as before: what it drops was stale.  The
\* key itself is not stale any more, and no reservation is given up.
LEMMA StartKeeps ==
    ASSUME NEW cache, NEW key, Sound(cache)
    PROVE  LET new == StartIfNeeded(cache, key) IN
           /\ Keys(new) \subseteq Keys(cache) /\ new.stale \subseteq cache.stale
           /\ \A k \in Keys(new) : new.entries[k] = cache.entries[k]
           /\ cache.pending \subseteq new.pending
           /\ new.pending \subseteq cache.pending \union {key}
           /\ key \notin new.stale
           /\ \A k : Lookup(new, k) = Lookup(cache, k)
<1> DEFINE new == StartIfNeeded(cache, key)
           full == Size(cache) >= cache.capacity
           kept == {k \in Keys(cache) \ {key} :
                        ~(full /\ k \in cache.stale \ cache.pending)}
           reserved == IF Cardinality(kept) + Cardinality(cache.pending)
                              >= cache.capacity
                       THEN cache.pending ELSE cache.pending \union {key}
<1>1. CASE key \in (Keys(cache) \ cache.stale) \union cache.pending
  <2>1. new = cache
    BY <1>1 DEF StartIfNeeded
  <2>2. key \notin cache.stale
    BY <1>1 DEF Sound, Reserved
  <2> QED
    BY <2>1, <2>2
<1>2. CASE key \notin (Keys(cache) \ cache.stale) \union cache.pending
  <2>1. new = [capacity |-> cache.capacity,
               entries |-> [k \in kept |-> cache.entries[k]],
               stale |-> cache.stale \intersect kept,
               pending |-> reserved]
    BY <1>2 DEF StartIfNeeded, Sound
  <2>2. /\ kept \subseteq Keys(cache) /\ key \notin kept
        /\ Keys(cache) \ cache.stale \subseteq kept
    BY <1>2
  <2>3. /\ cache.pending \subseteq reserved
        /\ reserved \subseteq cache.pending \union {key}
    OBVIOUS
  <2> HIDE DEF kept, reserved, new
  <2>4. /\ Keys(new) = kept /\ new.stale = cache.stale \intersect kept
        /\ new.pending = reserved
        /\ \A k \in kept : new.entries[k] = cache.entries[k]
    BY <2>1 DEF Keys
  <2>5. ASSUME NEW k
        PROVE  Lookup(new, k) = Lookup(cache, k)
    BY <2>2, <2>4 DEF Lookup
  <2> QED
    BY <2>2, <2>3, <2>4, <2>5 DEF new
<1> QED
  BY <1>1, <1>2

\* An answer changes what the cache knows of its own key only.
LEMMA StoredKeeps ==
    ASSUME NEW cache, NEW key, NEW coord, Sound(cache), key \in cache.pending
    PROVE  LET new == Stored(cache, key, coord) IN
           /\ Keys(new) = Keys(cache) \union {key} /\ key \notin Keys(cache)
           /\ new.stale = cache.stale
           /\ new.pending = cache.pending \ {key}
           /\ \A k \in Keys(cache) : new.entries[k] = cache.entries[k]
           /\ new.entries[key] = coord
           /\ \A k : Lookup(new, k) = IF k = key THEN coord ELSE Lookup(cache, k)
<1> DEFINE new == Stored(cache, key, coord)
           keys == Keys(cache) \union {key}
           answered == [cache EXCEPT !.pending = @ \ {key}]
           entries == [k \in keys |-> IF k = key THEN coord ELSE cache.entries[k]]
<1>1. key \notin Keys(cache) /\ key \notin cache.stale
  BY DEF Sound, Reserved
<1>2. key \in Keys(new)
  BY SoundStored
<1>3. answered = [capacity |-> cache.capacity, entries |-> cache.entries,
                  stale |-> cache.stale, pending |-> cache.pending \ {key}]
  BY DEF Sound
<1>4. new = answered \/ new = [answered EXCEPT !.entries = entries, !.stale = @ \ {key}]
  BY DEF Stored
<1>5. new # answered
  <2>1. Keys(answered) = Keys(cache)
    BY <1>3 DEF Keys
  <2> HIDE DEF new, answered
  <2> QED
    BY <1>1, <1>2, <2>1
<1> HIDE DEF entries, new
<1>6. new = [capacity |-> cache.capacity, entries |-> entries,
             stale |-> cache.stale \ {key}, pending |-> cache.pending \ {key}]
  BY <1>3, <1>4, <1>5
<1>7. /\ Keys(new) = keys /\ new.stale = cache.stale
      /\ new.pending = cache.pending \ {key} /\ new.entries = entries
  <2>1. Keys(new) = DOMAIN entries
    BY <1>6 DEF Keys
  <2> QED
    BY <1>1, <1>6, <2>1 DEF entries
<1>8. /\ entries[key] = coord
      /\ \A k \in Keys(cache) : entries[k] = cache.entries[k]
  BY <1>1 DEF entries
<1>9. ASSUME NEW k
      PROVE  Lookup(new, k) = IF k = key THEN coord ELSE Lookup(cache, k)
  BY <1>1, <1>7, <1>8 DEF Lookup
<1> QED
  BY <1>1, <1>7, <1>8, <1>9 DEF new

\* An entry that passes its ttl answers no more, and the others as before.
LEMMA AgeKeeps ==
    ASSUME NEW cache, NEW key, Sound(cache)
    PROVE  LET new == Age(cache, key) IN
           /\ new.entries = cache.entries /\ new.pending = cache.pending
           /\ new.stale = cache.stale \union {key}
           /\ \A k : Lookup(new, k) = Lookup(cache, k) \/ Lookup(new, k) = NoCoord
<1> DEFINE new == Age(cache, key)
<1>1. new = [capacity |-> cache.capacity, entries |-> cache.entries,
             stale |-> cache.stale \union {key}, pending |-> cache.pending]
  BY DEF Age, Sound
<1> HIDE DEF new
<1>2. /\ new.entries = cache.entries /\ new.pending = cache.pending
      /\ new.stale = cache.stale \union {key}
  BY <1>1
<1>3. ASSUME NEW k
      PROVE  Lookup(new, k) = Lookup(cache, k) \/ Lookup(new, k) = NoCoord
  BY <1>2 DEF Lookup, Keys
<1> QED
  BY <1>2, <1>3 DEF new
=============================================================================
