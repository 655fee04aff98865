---------------------------- MODULE MapTapProofs ----------------------------
(***************************************************************************)
(* The tap, for every number of spots, calls and parks, every capacity and *)
(* every timeout: no spot is lost or published twice, none waits too long, *)
(* and reports show the best location known.                               *)
(***************************************************************************)
EXTENDS MapTap, GeoCacheProofs, SequenceTheorems, WellFoundedInduction

-----------------------------------------------------------------------------
(* Sequences. *)

\* A non-empty set of numbers has a least one.
LEMMA LeastOf ==
    ASSUME NEW T, T \subseteq Nat, T # {}
    PROVE  \E n \in T : \A m \in T : n <= m
<1> DEFINE R == OpToRel(<, Nat)
<1>1. IsWellFoundedOn(R, Nat)
  BY NatLessThanWellFounded
<1>2. \A x, y \in Nat : x < y => <<x, y>> \in R
  BY DEF OpToRel
<1> HIDE DEF R
<1>3. PICK n \in T : \A m \in T : ~(<<m, n>> \in R)
  BY <1>1, WFMin
<1>4. ASSUME NEW m \in T
      PROVE  n <= m
  <2>1. ~(m < n)
    BY <1>2, <1>3
  <2> QED
    BY <2>1
<1> QED
  BY <1>4

\* The concatenations of the first sequences of s, one sequence more each time.
IsFlattening(f, s, n) ==
    f = [i \in 1..n |-> IF i = 1 THEN s[i] ELSE f[i - 1] \o s[i]]

\* They exist, for any number of sequences.
LEMMA FlatteningExists ==
    ASSUME NEW s, NEW n \in Nat
    PROVE  \E f : IsFlattening(f, s, n)
<1> DEFINE Bad == {k \in Nat : \A f : ~IsFlattening(f, s, k)}
<1> SUFFICES ASSUME Bad # {} PROVE FALSE
  OBVIOUS
<1>1. PICK k \in Bad : \A m \in Bad : k <= m
  BY LeastOf
<1>2. k # 0
  <2>1. IsFlattening(<<>>, s, 0)
    BY DEF IsFlattening
  <2> QED
    BY <2>1
<1>3. PICK f : IsFlattening(f, s, k - 1)
  BY <1>1, <1>2
<1> DEFINE g == [i \in 1..k |-> IF i = k THEN IF k = 1 THEN s[k] ELSE f[k - 1] \o s[k]
                                ELSE f[i]]
<1>4. ASSUME NEW i \in 1..k
      PROVE  g[i] = IF i = 1 THEN s[i] ELSE g[i - 1] \o s[i]
  <2>1. i # 1 => i - 1 \in 1..k /\ i - 1 # k /\ g[i - 1] = f[i - 1]
    OBVIOUS
  <2>2. CASE i = k
    BY <2>1, <2>2
  <2>3. CASE i # k
    <3>1. i \in 1..k - 1 /\ g[i] = f[i]
      BY <2>3
    <3>2. f[i] = IF i = 1 THEN s[i] ELSE f[i - 1] \o s[i]
      BY <1>3, <3>1 DEF IsFlattening
    <3> HIDE DEF g
    <3> QED
      BY <2>1, <3>1, <3>2
  <2> QED
    BY <2>2, <2>3
<1>5. IsFlattening(g, s, k)
  BY <1>4 DEF IsFlattening
<1> QED
  BY <1>5

\* What FlattenSeq makes of a sequence of sequences: their elements, none twice
\* when they have no repeats and share nothing.
Flat(q, s, n) ==
    /\ Range(q) = UNION {Range(s[j]) : j \in 1..n}
    /\ (/\ \A j \in 1..n : IsInjective(s[j])
        /\ \A j, k \in 1..n : j # k => Range(s[j]) \intersect Range(s[k]) = {})
           => IsInjective(q)

LEMMA FlatStep ==
    ASSUME NEW T, NEW s, NEW n \in Nat \ {0}, \A j \in 1..n + 1 : s[j] \in Seq(T),
           NEW q \in Seq(T), Flat(q, s, n)
    PROVE  q \o s[n + 1] \in Seq(T) /\ Flat(q \o s[n + 1], s, n + 1)
<1> DEFINE t == s[n + 1]
           new == q \o t
<1>1. t \in Seq(T)
  OBVIOUS
<1>0. /\ \A j : j \in 1..n + 1 <=> j \in 1..n \/ j = n + 1
      /\ n + 1 \notin 1..n
  OBVIOUS
<1> HIDE DEF t
<1>2. new \in Seq(T) /\ Range(new) = Range(q) \union Range(t)
  BY <1>1, ConcatProperties, RangeConcatenation
<1>3. Range(new) = UNION {Range(s[j]) : j \in 1..n + 1}
  <2>1. UNION {Range(s[j]) : j \in 1..n + 1}
           = (UNION {Range(s[j]) : j \in 1..n}) \union Range(t)
    BY <1>0, Zenon DEF t
  <2>2. Range(q) = UNION {Range(s[j]) : j \in 1..n}
    BY DEF Flat
  <2> QED
    BY <1>2, <2>1, <2>2
<1>4. ASSUME \A j \in 1..n + 1 : IsInjective(s[j]),
             \A j, k \in 1..n + 1 : j # k => Range(s[j]) \intersect Range(s[k]) = {}
      PROVE  IsInjective(new)
  <2>1. IsInjective(q) /\ IsInjective(t)
    BY <1>0, <1>4, Zenon DEF Flat, t
  <2>2. Range(q) \intersect Range(t) = {}
    <3>1. \A j \in 1..n : Range(s[j]) \intersect Range(t) = {}
      BY <1>0, <1>4, Zenon DEF t
    <3> QED
      BY <3>1 DEF Flat
  <2>3. /\ Len(q) \in Nat /\ Len(t) \in Nat
        /\ DOMAIN q = 1..Len(q) /\ DOMAIN t = 1..Len(t)
        /\ DOMAIN new = 1..(Len(q) + Len(t))
    BY <1>1, <1>2, LenProperties, ConcatProperties
  <2>4. \A i \in 1..(Len(q) + Len(t)) :
            new[i] = IF i <= Len(q) THEN q[i] ELSE t[i - Len(q)]
    BY <1>1, ConcatProperties
  <2> HIDE DEF new
  <2> SUFFICES ASSUME NEW i \in DOMAIN new, NEW j \in DOMAIN new, new[i] = new[j]
               PROVE  i = j
    BY DEF IsInjective
  <2>5. CASE i <= Len(q) /\ j <= Len(q)
    BY <2>1, <2>3, <2>4, <2>5 DEF IsInjective
  <2>6. CASE ~(i <= Len(q)) /\ ~(j <= Len(q))
    <3>1. i - Len(q) \in DOMAIN t /\ j - Len(q) \in DOMAIN t
      BY <2>3, <2>6
    <3>2. t[i - Len(q)] = t[j - Len(q)]
      BY <2>3, <2>4, <2>6
    <3>3. i - Len(q) = j - Len(q)
      BY <2>1, <3>1, <3>2 DEF IsInjective
    <3> QED
      BY <2>3, <3>3
  <2>7. ASSUME NEW a \in DOMAIN new, NEW b \in DOMAIN new, a <= Len(q), ~(b <= Len(q))
        PROVE  new[a] # new[b]
    <3>1. a \in DOMAIN q /\ b - Len(q) \in DOMAIN t
      BY <2>3, <2>7
    <3>2. new[a] = q[a] /\ new[b] = t[b - Len(q)]
      BY <2>3, <2>4, <2>7
    <3> QED
      BY <2>2, <3>1, <3>2 DEF Range
  <2> QED
    BY <2>5, <2>6, <2>7
<1>5. Flat(new, s, n + 1)
  BY <1>3, <1>4 DEF Flat
<1> QED
  BY <1>2, <1>5 DEF t

LEMMA FlattenSeqOK ==
    ASSUME NEW T, NEW s \in Seq(Seq(T))
    PROVE  FlattenSeq(s) \in Seq(T) /\ Flat(FlattenSeq(s), s, Len(s))
<1>0. /\ Len(s) \in Nat /\ DOMAIN s = 1..Len(s)
      /\ \A j \in 1..Len(s) : s[j] \in Seq(T)
  BY LenProperties, ElementOfSeq
<1>1. CASE Len(s) = 0
  <2>1. FlattenSeq(s) = s
    BY <1>1 DEF FlattenSeq
  <2>2. s = <<>>
    BY <1>1, EmptySeq
  <2>3. Range(s) = {} /\ IsInjective(s)
    BY <2>2 DEF Range, IsInjective
  <2> QED
    BY <1>1, <2>1, <2>2, <2>3 DEF Flat
<1>2. CASE Len(s) # 0
  <2>1. PICK f : IsFlattening(f, s, Len(s)) /\ FlattenSeq(s) = f[Len(s)]
    <3>1. \E f : IsFlattening(f, s, Len(s))
      BY <1>0, FlatteningExists
    <3> QED
      BY <1>2, <3>1 DEF FlattenSeq, IsFlattening
  <2> DEFINE Bad == {i \in 1..Len(s) : ~(f[i] \in Seq(T) /\ Flat(f[i], s, i))}
  <2>2. \A i \in 1..Len(s) : f[i] = IF i = 1 THEN s[i] ELSE f[i - 1] \o s[i]
    BY <2>1 DEF IsFlattening
  <2>3. Bad = {}
    <3> SUFFICES ASSUME Bad # {} PROVE FALSE
      OBVIOUS
    <3>1. PICK i \in Bad : \A m \in Bad : i <= m
      <4>1. Bad \subseteq Nat
        OBVIOUS
      <4> HIDE DEF Bad
      <4> QED
        BY <4>1, LeastOf
    <3>2. CASE i = 1
      <4>1. f[1] = s[1] /\ s[1] \in Seq(T)
        BY <1>0, <1>2, <2>2
      <4>2. Flat(s[1], s, 1)
        BY DEF Flat
      <4> QED
        BY <3>1, <3>2, <4>1, <4>2
    <3>3. CASE i # 1
      <4> DEFINE n == i - 1
      <4>1. n \in Nat \ {0} /\ n + 1 = i /\ n \in 1..Len(s) /\ n \notin Bad
        BY <1>0, <3>1, <3>3
      <4>2. f[n] \in Seq(T) /\ Flat(f[n], s, n)
        BY <4>1
      <4>3. f[n + 1] = f[n] \o s[n + 1]
        BY <2>2, <3>3, <4>1
      <4>4. \A j \in 1..n + 1 : s[j] \in Seq(T)
        BY <1>0, <4>1
      <4> HIDE DEF n
      <4>5. f[n + 1] \in Seq(T) /\ Flat(f[n + 1], s, n + 1)
        <5>1. f[n] \o s[n + 1] \in Seq(T) /\ Flat(f[n] \o s[n + 1], s, n + 1)
          BY <4>1, <4>2, <4>4, FlatStep
        <5> QED
          BY <4>3, <5>1
      <4> QED
        BY <3>1, <4>1, <4>5
    <3> QED
      BY <3>2, <3>3
  <2> QED
    BY <1>0, <1>2, <2>1, <2>3
<1> QED
  BY <1>1, <1>2

\* What Append and Tail do to the elements of a sequence.
LEMMA RangeAppend ==
    ASSUME NEW T, NEW q \in Seq(T), NEW e \in T
    PROVE  /\ Append(q, e) \in Seq(T)
           /\ Range(Append(q, e)) = Range(q) \union {e}
           /\ IsInjective(q) /\ e \notin Range(q) => IsInjective(Append(q, e))
<1> DEFINE new == Append(q, e)
<1>1. /\ Len(q) \in Nat /\ DOMAIN q = 1..Len(q)
      /\ new \in Seq(T) /\ Len(new) = Len(q) + 1
      /\ \A i \in 1..Len(q) : new[i] = q[i]
      /\ new[Len(q) + 1] = e
  BY LenProperties, AppendProperties
<1>2. DOMAIN new = 1..(Len(q) + 1)
  BY <1>1, LenProperties
<1> HIDE DEF new
<1>3. \A i : i \in DOMAIN new <=> i \in DOMAIN q \/ i = Len(q) + 1
  BY <1>1, <1>2
<1>4. Range(new) = Range(q) \union {e}
  BY <1>1, <1>3 DEF Range
<1>5. ASSUME IsInjective(q), e \notin Range(q)
      PROVE  IsInjective(new)
  BY <1>1, <1>3, <1>5 DEF IsInjective, Range
<1> QED
  BY <1>1, <1>4, <1>5 DEF new

LEMMA RangeTail ==
    ASSUME NEW T, NEW q \in Seq(T), q # <<>>, IsInjective(q)
    PROVE  /\ q[1] \in T /\ q[1] \in Range(q)
           /\ Tail(q) \in Seq(T)
           /\ Range(Tail(q)) = Range(q) \ {q[1]}
           /\ IsInjective(Tail(q))
<1> DEFINE new == Tail(q)
<1>1. /\ Len(q) \in Nat \ {0} /\ DOMAIN q = 1..Len(q)
      /\ new \in Seq(T) /\ Len(new) = Len(q) - 1
      /\ \A i \in 1..Len(new) : new[i] = q[i + 1]
  BY LenProperties, HeadTailProperties, EmptySeq
<1>2. DOMAIN new = 1..(Len(q) - 1)
  BY <1>1, LenProperties
<1> HIDE DEF new
<1>3. \A i : i \in DOMAIN new => i + 1 \in DOMAIN q /\ i + 1 # 1 /\ new[i] = q[i + 1]
  BY <1>1, <1>2
<1>4. \A i : i \in DOMAIN q /\ i # 1 => i - 1 \in DOMAIN new /\ i - 1 + 1 = i
  BY <1>1, <1>2
<1>5. 1 \in DOMAIN q
  BY <1>1
<1>6. Range(new) = Range(q) \ {q[1]}
  <2>1. ASSUME NEW x \in Range(new)
        PROVE  x \in Range(q) \ {q[1]}
    <3>1. PICK i \in DOMAIN new : x = new[i]
      BY DEF Range
    <3> QED
      BY <1>3, <1>5, <3>1 DEF Range, IsInjective
  <2>2. ASSUME NEW x \in Range(q) \ {q[1]}
        PROVE  x \in Range(new)
    <3>1. PICK i \in DOMAIN q : x = q[i] /\ i # 1
      BY DEF Range
    <3>2. i - 1 \in DOMAIN new /\ new[i - 1] = x
      BY <1>3, <1>4, <3>1
    <3> QED
      BY <3>2 DEF Range
  <2> QED
    BY <2>1, <2>2
<1>7. IsInjective(new)
  <2> SUFFICES ASSUME NEW i \in DOMAIN new, NEW j \in DOMAIN new, new[i] = new[j]
               PROVE  i = j
    BY DEF IsInjective
  <2>1. i + 1 = j + 1
    BY <1>3 DEF IsInjective
  <2> QED
    BY <1>2, <2>1
<1>8. q[1] \in T /\ q[1] \in Range(q)
  BY <1>1, <1>5, ElementOfSeq DEF Range
<1> QED
  BY <1>1, <1>6, <1>7, <1>8 DEF new

\* The image of a finite set under a function is finite.
LEMMA ImageFinite ==
    ASSUME NEW S, IsFiniteSet(S), NEW f, DOMAIN f = S, f = [x \in S |-> f[x]]
    PROVE  IsFiniteSet(Range(f))
<1>1. f \in Surjection(S, Range(f))
  BY DEF Surjection, Range
<1> QED
  BY <1>1, FS_Surjection

-----------------------------------------------------------------------------
(* The reservations. *)

\* The invariant behind Reservation.
CachesSound == Sound(qrz) /\ Sound(pota)

\* Both caches are new at the start.
LEMMA CachesInit == Init => CachesSound
<1>1. Sound(Empty(QRZCapacity)) /\ Sound(Empty(POTACapacity))
  BY TapConstantsOK, SoundEmpty
<1> QED
  BY <1>1 DEF Init, CachesSound

\* Every handler keeps both caches sound: what it starts takes a free place,
\* what it stores had one.
LEMMA CachesStep == CachesSound /\ [Next]_vars => CachesSound'
<1> SUFFICES ASSUME CachesSound, [Next]_vars
             PROVE  CachesSound'
  OBVIOUS
<1> USE DEF CachesSound
<1>1. ASSUME NEW s \in Spot, Receive(s)
      PROVE  CachesSound'
  <2>1. Sound(pota')
    <3>1. pota' = pota \/ pota' = StartIfNeeded(pota, ParkOf[s])
      BY <1>1 DEF Receive
    <3> QED
      BY <3>1, SoundStart
  <2>2. Sound(qrz')
    <3> DEFINE once == StartIfNeeded(qrz, DXCall[s])
               twice == StartIfNeeded(once, SpotterCall[s])
    <3>1. qrz' = qrz \/ qrz' = twice
      BY <1>1 DEF Receive
    <3>2. Sound(once)
      BY SoundStart
    <3> HIDE DEF once
    <3>3. Sound(twice)
      BY <3>2, SoundStart
    <3> QED
      BY <3>1, <3>3
  <2> QED
    BY <2>1, <2>2
<1>2. ASSUME NEW c \in Call, NEW x, QRZAnswer(c, x)
      PROVE  CachesSound'
  <2>1. qrz' = Stored(qrz, c, x) /\ c \in qrz.pending /\ pota' = pota
    BY <1>2 DEF QRZAnswer
  <2> QED
    BY <2>1, SoundStored
<1>3. ASSUME NEW p \in Park, NEW x, POTAAnswer(p, x)
      PROVE  CachesSound'
  <2>1. pota' = Stored(pota, p, x) /\ p \in pota.pending /\ qrz' = qrz
    BY <1>3 DEF POTAAnswer
  <2> QED
    BY <2>1, SoundStored
<1>4. CASE AgeEntry
  <2>1. CASE \E c \in DOMAIN qrz.entries \ qrz.stale :
                 qrz' = Age(qrz, c) /\ UNCHANGED pota
    <3>1. PICK c \in Keys(qrz) : qrz' = Age(qrz, c)
      BY <2>1 DEF Keys
    <3> QED
      BY <2>1, <3>1, SoundAge
  <2>2. CASE \E p \in DOMAIN pota.entries \ pota.stale :
                 pota' = Age(pota, p) /\ UNCHANGED qrz
    <3>1. PICK p \in Keys(pota) : pota' = Age(pota, p)
      BY <2>2 DEF Keys
    <3> QED
      BY <2>2, <3>1, SoundAge
  <2> QED
    BY <1>4, <2>1, <2>2 DEF AgeEntry
<1>5. CASE UNCHANGED <<qrz, pota>>
  BY <1>5
<1>6. AddNext \/ DrainTick \/ Tick \/ UNCHANGED vars => UNCHANGED <<qrz, pota>>
  BY DEF AddNext, DrainTick, Tick, vars
<1> QED
  BY <1>1, <1>2, <1>3, <1>4, <1>5, <1>6 DEF Next

-----------------------------------------------------------------------------
(* The queues. *)

Queued(w) == UNION {Range(w[p]) : p \in Park}

\* Each park's queue holds spots of that park, each once, oldest first.
Orderly(w, at) ==
    \A p \in Park :
        /\ IsInjective(w[p])
        /\ \A i \in DOMAIN w[p] : ParkOf[w[p][i]] = p
        /\ \A i, j \in DOMAIN w[p] : i <= j => at[w[p][i]] <= at[w[p][j]]

\* The invariant behind PublishedOnce.
QueuesInv ==
    /\ IsFiniteSet({s \in Spot : received[s] >= 0})
    /\ Orderly(waiting, received)
    /\ IsInjective(todo)
    /\ PublishedOnce

\* The parks with a spot that has waited too long are finitely many.
LEMMA ExpiredFinite ==
    ASSUME TypeOK, QueuesInv
    PROVE  Expired \subseteq Park /\ IsFiniteSet(Expired)
<1> DEFINE S == {s \in Spot : received[s] >= 0}
           f == [s \in S |-> ParkOf[s]]
<1>1. IsFiniteSet(Range(f))
  <2>1. IsFiniteSet(S) /\ DOMAIN f = S /\ f = [s \in S |-> f[s]]
    BY DEF QueuesInv
  <2> HIDE DEF f, S
  <2> QED
    BY <2>1, ImageFinite
<1>2. ASSUME NEW p \in Expired
      PROVE  p \in Range(f)
  <2>1. p \in Park /\ waiting[p] \in Seq(Spot) /\ waiting[p] # <<>>
    BY <1>2 DEF Expired, TypeOK
  <2>2. 1 \in DOMAIN waiting[p]
    BY <2>1, EmptySeq, LenProperties
  <2>3. ParkOf[waiting[p][1]] = p
    BY <2>1, <2>2 DEF QueuesInv, Orderly
  <2>4. waiting[p][1] \in Waiting
    BY <2>1, <2>2 DEF Waiting, Range
  <2>5. waiting[p][1] \in S
    BY <2>4 DEF QueuesInv, PublishedOnce
  <2> QED
    BY <2>3, <2>5 DEF Range
<1>3. Expired \subseteq Park
  BY DEF Expired
<1>4. IsFiniteSet(Expired)
  BY <1>1, <1>2, FS_Subset
<1> QED
  BY <1>3, <1>4

\* What comes of flushing the parks in P, the spots q in one go.
FlushOf(P, q) ==
    /\ q \in Seq(Spot) /\ IsInjective(q)
    /\ Range(q) = UNION {Range(waiting[p]) : p \in P}

\* Flushing parks one after another, in any order, leaves out no spot and takes
\* none twice.
LEMMA FlushesOK ==
    ASSUME TypeOK, Orderly(waiting, received), NEW P \in SUBSET Park, IsFiniteSet(P),
           NEW q \in Flushes(P)
    PROVE  FlushOf(P, q)
<1> DEFINE n == Cardinality(P)
<1>1. PICK order \in SetToSeqs(P) :
          q = FlattenSeq([i \in 1..n |-> waiting[order[i]]])
  BY DEF Flushes
<1>2. /\ order \in [1..n -> P]
      /\ \A i, j \in 1..n : i # j => order[i] # order[j]
  BY DEF SetToSeqs
<1>3. n \in Nat /\ IsFiniteSet(1..n) /\ Cardinality(1..n) = n
  BY FS_CardinalityType, FS_Interval
<1>4. \A p \in P : \E i \in 1..n : order[i] = p
  <2>1. order \in Injection(1..n, P)
    BY <1>2 DEF Injection, IsInjective
  <2>2. order \in Surjection(1..n, P)
    BY <1>3, <2>1, FS_Injection
  <2> QED
    BY <2>2 DEF Surjection
<1> DEFINE s == [i \in 1..n |-> waiting[order[i]]]
<1>5. \A i \in 1..n : s[i] = waiting[order[i]] /\ order[i] \in P /\ s[i] \in Seq(Spot)
  BY <1>2 DEF TypeOK
<1>6. s \in Seq(Seq(Spot)) /\ Len(s) = n
  BY <1>3, <1>5
<1> HIDE DEF s, n
<1>7. q \in Seq(Spot) /\ Flat(q, s, n)
  BY <1>1, <1>6, FlattenSeqOK DEF s
<1>8. Range(q) = UNION {Range(waiting[p]) : p \in P}
  <2>1. \A p \in P : \E i \in 1..n : s[i] = waiting[p]
    BY <1>4, <1>5
  <2>2. Range(q) = UNION {Range(s[j]) : j \in 1..n}
    BY <1>7 DEF Flat
  <2> QED
    BY <1>5, <2>1, <2>2
<1>9. \A j \in 1..n : IsInjective(s[j])
  BY <1>5 DEF Orderly
<1>10. ASSUME NEW j \in 1..n, NEW k \in 1..n, j # k
       PROVE  Range(s[j]) \intersect Range(s[k]) = {}
  <2>1. \A x \in Range(s[j]) : ParkOf[x] = order[j]
    BY <1>5 DEF Orderly, Range
  <2>2. \A x \in Range(s[k]) : ParkOf[x] = order[k]
    BY <1>5 DEF Orderly, Range
  <2> QED
    BY <1>2, <1>10, <2>1, <2>2
<1>11. IsInjective(q)
  BY <1>7, <1>9, <1>10 DEF Flat
<1> QED
  BY <1>7, <1>8, <1>11 DEF FlushOf

\* What is left is in order, and is what was not taken.
LEMMA WithoutOK ==
    ASSUME TypeOK, Orderly(waiting, received), NEW P \in SUBSET Park, NEW q, FlushOf(P, q)
    PROVE  /\ Without(P) \in [Park -> Seq(Spot)]
           /\ Orderly(Without(P), received)
           /\ Range(q) \subseteq Waiting
           /\ Queued(Without(P)) = Waiting \ Range(q)
<1> DEFINE w == Without(P)
<1>1. \A p \in Park : w[p] = IF p \in P THEN <<>> ELSE waiting[p]
  BY DEF Without
<1>2. w \in [Park -> Seq(Spot)]
  BY DEF Without, TypeOK
<1> HIDE DEF w
<1>3. Orderly(w, received)
  <2>1. ASSUME NEW p \in Park, p \in P
        PROVE  DOMAIN w[p] = {}
    BY <1>1, <2>1
  <2> QED
    BY <1>1, <2>1 DEF Orderly, IsInjective
<1>4. Range(q) \subseteq Waiting
  BY DEF FlushOf, Waiting
<1>5. \A x : x \in Queued(w) <=> \E p \in Park \ P : x \in Range(waiting[p])
  <2>1. \A p \in P : Range(w[p]) = {}
    BY <1>1 DEF Range
  <2>2. \A p \in Park \ P : w[p] = waiting[p]
    BY <1>1
  <2> QED
    BY <2>1, <2>2 DEF Queued
<1>6. \A p \in Park : \A x \in Range(waiting[p]) : ParkOf[x] = p
  BY DEF Orderly, Range
<1>7. \A x : x \in Waiting <=> \E p \in Park : x \in Range(waiting[p])
  BY DEF Waiting
<1>8. \A x : x \in Range(q) <=> \E p \in P : x \in Range(waiting[p])
  BY DEF FlushOf
<1>9. Queued(w) = Waiting \ Range(q)
  BY <1>5, <1>6, <1>7, <1>8
<1> QED
  BY <1>2, <1>3, <1>4, <1>9 DEF w

\* One park flushed, in the order of arrival.
LEMMA FlushOne ==
    ASSUME TypeOK, Orderly(waiting, received), NEW p \in Park
    PROVE  FlushOf({p}, waiting[p])
BY DEF FlushOf, TypeOK, Orderly

\* Holding back one more spot of a park.
LEMMA HoldOK ==
    ASSUME NEW w \in [Park -> Seq(Spot)], NEW at, Orderly(w, at), NEW s \in Spot,
           s \notin Queued(w), ParkOf[s] \in Park,
           \A x \in Queued(w) : at[x] <= at[s],
           at[s] \in Int
    PROVE  LET new == [w EXCEPT ![ParkOf[s]] = Append(@, s)] IN
           /\ new \in [Park -> Seq(Spot)]
           /\ Orderly(new, at)
           /\ Queued(new) = Queued(w) \union {s}
<1> DEFINE p == ParkOf[s]
           new == [w EXCEPT ![p] = Append(@, s)]
<1>1. new[p] = Append(w[p], s) /\ \A o \in Park \ {p} : new[o] = w[o]
  OBVIOUS
<1>2. w[p] \in Seq(Spot) /\ s \notin Range(w[p])
  BY DEF Queued
<1>3. /\ Append(w[p], s) \in Seq(Spot)
      /\ Range(Append(w[p], s)) = Range(w[p]) \union {s}
      /\ IsInjective(Append(w[p], s))
  BY <1>2, RangeAppend DEF Orderly
<1>4. new \in [Park -> Seq(Spot)]
  BY <1>3
<1>5. /\ DOMAIN w[p] = 1..Len(w[p]) /\ Len(w[p]) \in Nat
      /\ DOMAIN new[p] = 1..(Len(w[p]) + 1)
      /\ \A i \in 1..Len(w[p]) : new[p][i] = w[p][i]
      /\ new[p][Len(w[p]) + 1] = s
  BY <1>1, <1>2, AppendProperties, LenProperties
<1> HIDE DEF new
<1>6. \A i : i \in DOMAIN new[p] <=> i \in DOMAIN w[p] \/ i = Len(w[p]) + 1
  BY <1>5
<1>7. \A i \in DOMAIN w[p] : new[p][i] = w[p][i] /\ w[p][i] \in Queued(w) /\ i < Len(w[p]) + 1
  BY <1>5 DEF Queued, Range
<1>8. \A i \in DOMAIN new[p] : ParkOf[new[p][i]] = p
  BY <1>5, <1>6, <1>7 DEF Orderly
<1>9. ASSUME NEW i \in DOMAIN new[p], NEW j \in DOMAIN new[p], i <= j
      PROVE  at[new[p][i]] <= at[new[p][j]]
  <2>1. CASE j \in DOMAIN w[p]
    <3>1. i \in DOMAIN w[p]
      BY <1>5, <1>9, <2>1
    <3> QED
      BY <1>7, <1>9, <2>1, <3>1 DEF Orderly
  <2>2. CASE j = Len(w[p]) + 1
    <3>1. new[p][j] = s
      BY <1>5, <2>2
    <3>2. CASE i \in DOMAIN w[p]
      BY <1>7, <3>1, <3>2
    <3>3. CASE i = j
      BY <3>1, <3>3
    <3> QED
      BY <1>6, <2>2, <3>2, <3>3
  <2> QED
    BY <1>6, <2>1, <2>2
<1>10. Orderly(new, at)
  BY <1>1, <1>3, <1>8, <1>9 DEF Orderly
<1>11. Queued(new) = Queued(w) \union {s}
  <2>1. Range(new[p]) = Range(w[p]) \union {s} /\ p \in Park
    BY <1>1, <1>3
  <2> HIDE DEF p
  <2> QED
    BY <1>1, <2>1 DEF Queued
<1> QED
  BY <1>4, <1>10, <1>11 DEF new

\* The invariant behind HeldBriefly: a drain tick is due before a spot that
\* waits has waited too long.
TimeInv ==
    /\ \A s \in Spot : received[s] <= clock
    /\ \A s \in Waiting :
          clock - received[s] + timer < LookupTimeout + DrainInterval
    /\ \A s \in Range(todo) :
          clock - received[s] < LookupTimeout + DrainInterval

\* The invariant behind BestLocation: a spot that waits has its park's lookup in
\* flight, and a spot to be added finds its park's answer fresh, if there is one.
LocatedInv ==
    /\ \A p \in Park : waiting[p] # <<>> => p \in pota.pending
    /\ \A s \in Range(todo) : ParkOf[s] \notin pota.stale
    /\ \A r \in reports : /\ Located(r)
                          /\ r.location.dx.source = "pota" => ParkOf[r.spot] # NoPark

TapInv ==
    /\ TypeOK
    /\ CachesSound
    /\ IsFiniteSet(reports)
    /\ QueuesInv /\ TimeInv
    /\ LocatedInv

\* The queues and the history are of their types.
QueuesTypeOK ==
    /\ waiting \in [Park -> Seq(Spot)]
    /\ todo \in Seq(Spot)
    /\ received \in [Spot -> -1..Horizon]
    /\ published \subseteq Spot

LEMMA WaitingQueued == Waiting = Queued(waiting)
BY DEF Waiting, Queued

\* A step that flushes the parks in P moves their spots from the queues to the
\* running handler.
LEMMA FlushStep ==
    ASSUME TapInv, NEW P \in SUBSET Park, todo = <<>>,
           FlushOf(P, todo'), waiting' = Without(P),
           UNCHANGED <<received, published, nextEvent>>
    PROVE  /\ QueuesTypeOK' /\ QueuesInv'
           /\ Range(todo') \subseteq Waiting
           /\ Waiting' = Waiting \ Range(todo')
<1>1. /\ TypeOK /\ QueuesInv /\ Orderly(waiting, received)
  BY DEF TapInv, QueuesInv
<1>2. /\ waiting' \in [Park -> Seq(Spot)]
      /\ Orderly(Without(P), received)
      /\ Range(todo') \subseteq Waiting
      /\ Waiting' = Waiting \ Range(todo')
  <2>1. /\ Without(P) \in [Park -> Seq(Spot)]
        /\ Orderly(Without(P), received)
        /\ Range(todo') \subseteq Waiting
        /\ Queued(Without(P)) = Waiting \ Range(todo')
    BY <1>1, WithoutOK
  <2>2. Waiting' = Queued(waiting')
    BY DEF Waiting, Queued
  <2> QED
    BY <2>1, <2>2
<1>3. Orderly(waiting', received')
  BY <1>2 DEF Orderly
<1>4. todo' \in Seq(Spot) /\ IsInjective(todo')
  BY DEF FlushOf
<1>5. Range(todo) = {}
  BY DEF Range
<1>6. PublishedOnce'
  BY <1>1, <1>2, <1>5 DEF QueuesInv, PublishedOnce
<1>7. QueuesInv'
  BY <1>1, <1>3, <1>4, <1>6 DEF QueuesInv
<1> QED
  BY <1>1, <1>2, <1>4, <1>7 DEF QueuesTypeOK, TypeOK

\* What a spot from the cluster does to the queues: it waits, or is added after
\* those that have waited too long.
LEMMA ReceiveMoves ==
    ASSUME TapInv, NEW s \in Spot, Receive(s)
    PROVE  /\ QueuesTypeOK' /\ Orderly(waiting', received') /\ IsInjective(todo')
           /\ Waiting' \union Range(todo') = Waiting \union {s}
           /\ Waiting' \intersect Range(todo') = {}
           /\ s \notin Waiting /\ s \notin published
           /\ s \in Waiting' => ParkOf[s] # NoPark /\ ParkOf[s] \in pota'.pending
           /\ \A p \in Park : waiting'[p] # <<>> =>
                  waiting[p] # <<>> \/ (p = ParkOf[s] /\ p \in pota'.pending)
           /\ \A x \in Spot \ {s} : received'[x] = received[x]
           /\ received'[s] = clock
<1> DEFINE p == ParkOf[s]
           left == Without(Expired)
<1>1. /\ TypeOK /\ QueuesInv /\ Orderly(waiting, received) /\ PublishedOnce
      /\ clock \in 0..Horizon
  BY DEF TapInv, QueuesInv, TypeOK
<1>2. /\ todo = <<>> /\ received[s] = -1
      /\ received' = [received EXCEPT ![s] = clock]
      /\ published' = published
  BY DEF Receive, Handler
<1>3. /\ \A x \in Spot \ {s} : received'[x] = received[x]
      /\ received'[s] = clock
      /\ received' \in [Spot -> -1..Horizon]
  BY <1>1, <1>2 DEF TypeOK
<1>4. s \notin Waiting /\ s \notin published /\ Waiting \subseteq Spot
  <2>1. \A x \in published \union Waiting : x \in Spot /\ received[x] >= 0
    BY <1>1 DEF PublishedOnce
  <2> QED
    BY <1>2, <2>1
<1>5. IsFiniteSet(Expired) /\ Expired \in SUBSET Park
  BY <1>1, ExpiredFinite
<1>6. \/ todo' = <<s>> /\ waiting' = waiting
      \/ /\ p # NoPark /\ p \in pota'.pending
         /\ \E q \in Flushes(Expired) :
               \/ waiting' = left /\ todo' = Append(q, s)
               \/ waiting' = [left EXCEPT ![p] = Append(@, s)] /\ todo' = q
  <2> DEFINE started == IF p = NoPark THEN pota ELSE StartIfNeeded(pota, p)
  <2>1. /\ pota' = started
        /\ IF p = NoPark \/ p \notin started.pending
           THEN todo' = <<s>> /\ UNCHANGED waiting
           ELSE \E q \in Flushes(Expired) :
                  IF Len(left[p]) >= SpotCap \/ Held(left) >= TotalCap
                  THEN waiting' = left /\ todo' = Append(q, s)
                  ELSE /\ waiting' = [left EXCEPT ![p] = Append(@, s)]
                       /\ todo' = q
    BY DEF Receive
  <2> HIDE DEF started, left, p
  <2> QED
    BY <2>1
<1>7. ASSUME NEW w, Orderly(w, received), w \in [Park -> Seq(Spot)], Queued(w) \subseteq Waiting
      PROVE  Orderly(w, received')
  <2>1. \A o \in Park : \A i \in DOMAIN w[o] : received'[w[o][i]] = received[w[o][i]]
    BY <1>3, <1>4, <1>7 DEF Queued, Range
  <2> QED
    BY <1>7, <2>1 DEF Orderly
<1>8. CASE todo' = <<s>> /\ waiting' = waiting
  <2>1. Range(todo') = {s} /\ IsInjective(todo') /\ todo' \in Seq(Spot)
    BY <1>8 DEF Range, IsInjective
  <2>2. Waiting' = Waiting
    BY <1>8 DEF Waiting
  <2>3. Orderly(waiting', received')
    BY <1>1, <1>7, <1>8, WaitingQueued DEF TypeOK
  <2> QED
    BY <1>1, <1>2, <1>3, <1>4, <1>8, <2>1, <2>2, <2>3 DEF QueuesTypeOK, TypeOK
<1>9. ASSUME NEW q \in Flushes(Expired), p # NoPark, p \in pota'.pending,
             \/ waiting' = left /\ todo' = Append(q, s)
             \/ waiting' = [left EXCEPT ![p] = Append(@, s)] /\ todo' = q
      PROVE  /\ QueuesTypeOK' /\ Orderly(waiting', received') /\ IsInjective(todo')
             /\ Waiting' \union Range(todo') = Waiting \union {s}
             /\ Waiting' \intersect Range(todo') = {}
             /\ \A o \in Park : waiting'[o] # <<>> => waiting[o] # <<>> \/ o = p
  <2>1. FlushOf(Expired, q)
    BY <1>1, <1>5, FlushesOK
  <2>2. /\ left \in [Park -> Seq(Spot)]
        /\ Orderly(left, received)
        /\ Range(q) \subseteq Waiting
        /\ Queued(left) = Waiting \ Range(q)
    BY <1>1, <1>5, <2>1, WithoutOK
  <2>3. q \in Seq(Spot) /\ IsInjective(q) /\ s \notin Range(q)
    BY <1>4, <2>1, <2>2 DEF FlushOf
  <2>4. Orderly(left, received')
    BY <1>7, <2>2
  <2>5. \A o \in Park : left[o] # <<>> => waiting[o] # <<>>
    BY DEF Without
  <2>6. p \in Park
    BY <1>9, TapConstantsOK
  <2> HIDE DEF left, p
  <2>7. CASE waiting' = left /\ todo' = Append(q, s)
    <3>1. /\ todo' \in Seq(Spot) /\ IsInjective(todo')
          /\ Range(todo') = Range(q) \union {s}
      BY <2>3, <2>7, RangeAppend
    <3>2. Waiting' = Queued(left)
      BY <2>7 DEF Waiting, Queued
    <3>3. Orderly(waiting', received')
      BY <2>4, <2>7 DEF Orderly
    <3> QED
      BY <1>1, <1>2, <1>3, <1>4, <2>2, <2>5, <2>7, <3>1, <3>2, <3>3
         DEF QueuesTypeOK, TypeOK
  <2>8. CASE waiting' = [left EXCEPT ![p] = Append(@, s)] /\ todo' = q
    <3>1. /\ s \notin Queued(left)
          /\ \A x \in Queued(left) : received'[x] <= received'[s]
      <4>1. \A x \in Queued(left) : x \in Spot \ {s} /\ received[x] <= clock
        BY <1>4, <2>2 DEF TapInv, TimeInv
      <4> QED
        BY <1>3, <4>1
    <3>2. received'[s] \in Int
      BY <1>1, <1>3
    <3>3. /\ waiting' \in [Park -> Seq(Spot)]
          /\ Orderly(waiting', received')
          /\ Queued(waiting') = Queued(left) \union {s}
      <4> DEFINE new == [left EXCEPT ![ParkOf[s]] = Append(@, s)]
      <4>1. /\ new \in [Park -> Seq(Spot)]
            /\ Orderly(new, received')
            /\ Queued(new) = Queued(left) \union {s}
        BY <2>2, <2>4, <2>6, <3>1, <3>2, HoldOK DEF p
      <4> QED
        BY <2>8, <4>1 DEF p
    <3>4. Waiting' = Queued(left) \union {s}
      BY <3>3 DEF Waiting, Queued
    <3>5. \A o \in Park : waiting'[o] # <<>> => waiting[o] # <<>> \/ o = p
      <4>1. \A o \in Park : waiting'[o] = IF o = p THEN Append(left[o], s) ELSE left[o]
        BY <2>2, <2>8
      <4> QED
        BY <2>5, <4>1
    <3> QED
      BY <1>1, <1>2, <1>3, <1>4, <2>2, <2>3, <2>8, <3>3, <3>4, <3>5
         DEF QueuesTypeOK, TypeOK
  <2> QED
    BY <1>9, <2>7, <2>8
<1>10. s \in Waiting' => p # NoPark /\ p \in pota'.pending
  <2>1. CASE todo' = <<s>> /\ waiting' = waiting
    BY <1>4, <2>1 DEF Waiting
  <2> QED
    BY <1>6, <2>1
<1> QED
  <2>1. CASE todo' = <<s>> /\ waiting' = waiting
    BY <1>3, <1>4, <1>8, <1>10, <2>1
  <2>2. CASE ~(todo' = <<s>> /\ waiting' = waiting)
    <3>1. p # NoPark /\ p \in pota'.pending
      BY <1>6, <2>2
    <3>2. /\ QueuesTypeOK' /\ Orderly(waiting', received') /\ IsInjective(todo')
          /\ Waiting' \union Range(todo') = Waiting \union {s}
          /\ Waiting' \intersect Range(todo') = {}
          /\ \A o \in Park : waiting'[o] # <<>> => waiting[o] # <<>> \/ o = p
      BY <1>6, <1>9, <2>2
    <3> QED
      BY <1>3, <1>4, <1>10, <3>1, <3>2
  <2> QED
    BY <2>1, <2>2

\* The next spot of the handler goes to the store, and to the history.
LEMMA AddMoves ==
    ASSUME TapInv, AddNext
    PROVE  /\ todo[1] \in Spot /\ todo[1] \in Range(todo)
           /\ todo' \in Seq(Spot) /\ IsInjective(todo')
           /\ Range(todo') = Range(todo) \ {todo[1]}
           /\ nextEvent' = nextEvent + 1 /\ revision' = revision + 1
           /\ published' = published \union {todo[1]}
           /\ Waiting' = Waiting
<1>1. /\ todo \in Seq(Spot) /\ IsInjective(todo) /\ todo # <<>>
      /\ todo' = Tail(todo) /\ waiting' = waiting
      /\ published' = published \union {todo[1]}
  BY DEF TapInv, TypeOK, QueuesInv, AddNext
<1>2. nextEvent' = nextEvent + 1 /\ revision' = revision + 1
  BY DEF AddNext, AddAll
<1> QED
  BY <1>1, <1>2, RangeTail DEF Waiting

\* No handler loses a held spot, publishes one twice, or mixes up the queues.
LEMMA QueuesStep ==
    ASSUME TapInv, [Next]_vars
    PROVE  QueuesTypeOK' /\ QueuesInv'
<1> DEFINE S == {s \in Spot : received[s] >= 0}
<1>1. /\ TypeOK /\ QueuesInv /\ PublishedOnce /\ QueuesTypeOK
      /\ Orderly(waiting, received) /\ IsInjective(todo) /\ IsFiniteSet(S)
      /\ clock \in 0..Horizon
  BY DEF TapInv, QueuesInv, TypeOK, QueuesTypeOK
<1>2. ASSUME NEW s \in Spot, Receive(s)
      PROVE  QueuesTypeOK' /\ QueuesInv'
  <2>1. /\ QueuesTypeOK' /\ Orderly(waiting', received') /\ IsInjective(todo')
        /\ Waiting' \union Range(todo') = Waiting \union {s}
        /\ Waiting' \intersect Range(todo') = {}
        /\ s \notin Waiting /\ s \notin published
        /\ \A x \in Spot \ {s} : received'[x] = received[x]
        /\ received'[s] = clock
    BY <1>2, ReceiveMoves
  <2>2. todo = <<>> /\ published' = published /\ nextEvent' = nextEvent
    BY <1>2 DEF Receive, Handler, storeVars
  <2>3. S' = S \union {s}
    BY <1>1, <2>1
  <2>4. IsFiniteSet(S')
    BY <1>1, <2>3, FS_AddElement
  <2>5. Range(todo) = {}
    BY <2>2 DEF Range
  <2>6. /\ S = published \union Waiting /\ nextEvent = Cardinality(published)
        /\ Waiting \intersect published = {}
    BY <1>1, <2>5 DEF PublishedOnce
  <2> HIDE DEF S
  <2>7. /\ S' = published' \union Waiting' \union Range(todo')
        /\ (Waiting' \union Range(todo')) \intersect published' = {}
        /\ nextEvent' = Cardinality(published')
    BY <2>1, <2>2, <2>3, <2>6
  <2>8. PublishedOnce'
    BY <2>1, <2>7 DEF PublishedOnce, S
  <2> QED
    BY <2>1, <2>4, <2>8 DEF QueuesInv, S
<1>3. CASE AddNext
  <2>1. /\ todo[1] \in Spot /\ todo[1] \in Range(todo)
        /\ todo' \in Seq(Spot) /\ IsInjective(todo')
        /\ Range(todo') = Range(todo) \ {todo[1]}
        /\ nextEvent' = nextEvent + 1
        /\ published' = published \union {todo[1]}
        /\ Waiting' = Waiting
    BY <1>3, AddMoves
  <2>2. received' = received /\ waiting' = waiting
    BY <1>3 DEF AddNext
  <2>3. /\ S = published \union Waiting \union Range(todo)
        /\ (Waiting \union Range(todo)) \intersect published = {}
        /\ Waiting \intersect Range(todo) = {}
        /\ nextEvent = Cardinality(published)
    BY <1>1 DEF PublishedOnce
  <2>4. IsFiniteSet(published)
    <3>1. published \in SUBSET S
      BY <2>3
    <3> HIDE DEF S
    <3> QED
      BY <1>1, <3>1, FS_Subset
  <2>5. nextEvent' = Cardinality(published')
    BY <2>1, <2>3, <2>4, FS_AddElement
  <2>6. S' = S
    BY <2>2
  <2> HIDE DEF S
  <2>7. /\ S' = published' \union Waiting' \union Range(todo')
        /\ (Waiting' \union Range(todo')) \intersect published' = {}
        /\ Waiting' \intersect Range(todo') = {}
    BY <2>1, <2>3, <2>6
  <2>8. PublishedOnce'
    BY <2>5, <2>7 DEF PublishedOnce, S
  <2>9. Orderly(waiting', received') /\ IsFiniteSet(S')
    BY <1>1, <2>2, <2>6
  <2> QED
    BY <1>1, <2>1, <2>2, <2>8, <2>9 DEF QueuesInv, QueuesTypeOK, S
<1>4. ASSUME NEW p \in Park, NEW x, POTAAnswer(p, x)
      PROVE  QueuesTypeOK' /\ QueuesInv'
  <2>1. /\ todo = <<>> /\ waiting' = Without({p}) /\ todo' = waiting[p]
        /\ UNCHANGED <<received, published>>
    BY <1>4 DEF POTAAnswer, Handler
  <2>2. nextEvent' = nextEvent
    BY <1>4 DEF POTAAnswer, storeVars, UpdateLocations
  <2>3. FlushOf({p}, todo')
    BY <1>1, <2>1, FlushOne
  <2>4. {p} \in SUBSET Park
    OBVIOUS
  <2> QED
    BY <2>1, <2>2, <2>3, <2>4, FlushStep
<1>5. CASE DrainTick
  <2>1. /\ todo = <<>> /\ waiting' = Without(Expired) /\ todo' \in Flushes(Expired)
        /\ UNCHANGED <<received, published, nextEvent>>
    BY <1>5 DEF DrainTick, Handler, storeVars
  <2>2. Expired \in SUBSET Park /\ IsFiniteSet(Expired)
    BY <1>1, ExpiredFinite
  <2>3. FlushOf(Expired, todo')
    BY <1>1, <2>1, <2>2, FlushesOK
  <2> QED
    BY <2>1, <2>2, <2>3, FlushStep
<1>6. CASE UNCHANGED <<waiting, todo, received, published, nextEvent>>
  <2>1. Waiting' = Waiting
    BY <1>6 DEF Waiting
  <2> QED
    BY <1>1, <1>6, <2>1 DEF QueuesInv, QueuesTypeOK, PublishedOnce
<1>7. ASSUME NEW c, NEW x, QRZAnswer(c, x)
      PROVE  UNCHANGED <<waiting, todo, received, published, nextEvent>>
  BY <1>7 DEF QRZAnswer, storeVars, UpdateLocations
<1>8. AgeEntry \/ Tick \/ UNCHANGED vars =>
          UNCHANGED <<waiting, todo, received, published, nextEvent>>
  BY DEF AgeEntry, Tick, vars, storeVars
<1> HIDE DEF S
<1> QED
  BY <1>2, <1>3, <1>4, <1>5, <1>6, <1>7, <1>8 DEF Next

\* A spot is taken from its queue at the latest by the first drain tick after
\* its time is up.
LEMMA TimeStep ==
    ASSUME TapInv, [Next]_vars, clock' \in 0..Horizon
    PROVE  TimeInv'
<1>1. /\ TypeOK /\ QueuesInv /\ TimeInv /\ PublishedOnce
      /\ Orderly(waiting, received)
      /\ received \in [Spot -> -1..Horizon]
      /\ clock \in 0..Horizon /\ timer \in 0..DrainInterval
      /\ LookupTimeout \in Nat /\ DrainInterval \in Nat /\ Horizon \in Nat
      /\ LookupTimeout > 0 /\ DrainInterval > 0
  BY TapConstantsOK DEF TapInv, QueuesInv, TypeOK
<1>2. Waiting \subseteq Spot /\ Range(todo) \subseteq Spot
  BY <1>1 DEF PublishedOnce
<1>3. ASSUME NEW s \in Spot, Receive(s)
      PROVE  TimeInv'
  <2>1. /\ Waiting' \union Range(todo') = Waiting \union {s}
        /\ \A x \in Spot \ {s} : received'[x] = received[x]
        /\ received'[s] = clock
    BY <1>3, ReceiveMoves
  <2>2. clock' = clock /\ timer' = timer
    BY <1>3 DEF Receive
  <2>3. \A x \in Spot : received'[x] <= clock'
    BY <1>1, <2>1, <2>2 DEF TimeInv
  <2>4. ASSUME NEW x \in Waiting' \union Range(todo')
        PROVE  clock' - received'[x] + timer' < LookupTimeout + DrainInterval
    <3>1. CASE x = s
      BY <1>1, <2>1, <2>2, <3>1
    <3>2. CASE x # s
      <4>1. x \in Waiting /\ received'[x] = received[x] /\ x \in Spot
        BY <1>2, <2>1, <3>2
      <4> QED
        BY <1>1, <2>2, <4>1 DEF TimeInv
    <3> QED
      BY <3>1, <3>2
  <2>5. \A x \in Waiting' \union Range(todo') : x \in Spot /\ received'[x] \in Int
    BY <1>1, <1>2, <2>1
  <2>6. \A x \in Range(todo') : clock' - received'[x] < LookupTimeout + DrainInterval
    BY <1>1, <2>2, <2>4, <2>5
  <2> QED
    BY <2>3, <2>4, <2>6 DEF TimeInv
<1>4. CASE AddNext
  <2>1. Range(todo') \subseteq Range(todo) /\ Waiting' = Waiting
    BY <1>4, AddMoves
  <2>2. UNCHANGED <<received, clock, timer>>
    BY <1>4 DEF AddNext
  <2> QED
    BY <1>1, <2>1, <2>2 DEF TimeInv
<1>5. ASSUME NEW P \in SUBSET Park, todo = <<>>, FlushOf(P, todo'), waiting' = Without(P),
             UNCHANGED <<received, published, nextEvent, clock>>,
             \/ timer' = timer
             \/ timer' \in Nat /\ timer' <= DrainInterval
                /\ \A x \in Waiting' : clock - received[x] < LookupTimeout
      PROVE  TimeInv'
  <2>1. Range(todo') \subseteq Waiting /\ Waiting' = Waiting \ Range(todo')
    BY <1>5, FlushStep
  <2>2. \A x \in Waiting : /\ x \in Spot /\ received[x] \in Int
                           /\ clock - received[x] < LookupTimeout + DrainInterval
    BY <1>1, <1>2 DEF TimeInv
  <2>3. \A x \in Waiting' :
            clock - received[x] + timer' < LookupTimeout + DrainInterval
    BY <1>1, <1>5, <2>1, <2>2 DEF TimeInv
  <2> QED
    BY <1>1, <1>5, <2>1, <2>2, <2>3 DEF TimeInv
<1>6. ASSUME NEW p \in Park, NEW x, POTAAnswer(p, x)
      PROVE  TimeInv'
  <2>1. /\ todo = <<>> /\ waiting' = Without({p}) /\ todo' = waiting[p]
        /\ UNCHANGED <<received, published, clock, timer>>
    BY <1>6 DEF POTAAnswer, Handler
  <2>2. nextEvent' = nextEvent
    BY <1>6 DEF POTAAnswer, storeVars, UpdateLocations
  <2>3. FlushOf({p}, todo')
    BY <1>1, <2>1, FlushOne
  <2>4. {p} \in SUBSET Park
    OBVIOUS
  <2> QED
    BY <1>5, <2>1, <2>2, <2>3, <2>4
<1>7. CASE DrainTick
  <2>1. /\ todo = <<>> /\ waiting' = Without(Expired) /\ todo' \in Flushes(Expired)
        /\ UNCHANGED <<received, published, nextEvent, clock>>
        /\ timer' = DrainInterval
    BY <1>7 DEF DrainTick, Handler, storeVars
  <2>2. Expired \in SUBSET Park /\ IsFiniteSet(Expired)
    BY <1>1, ExpiredFinite
  <2>3. FlushOf(Expired, todo')
    BY <1>1, <2>1, <2>2, FlushesOK
  <2>4. ASSUME NEW x \in Waiting'
        PROVE  clock - received[x] < LookupTimeout
    <3>1. PICK p \in Park : x \in Range(waiting'[p])
      BY DEF Waiting
    <3>2. p \notin Expired /\ waiting'[p] = waiting[p]
      BY <2>1, <3>1 DEF Without, Range
    <3>3. waiting[p] \in Seq(Spot)
      BY <1>1 DEF TypeOK
    <3>4. PICK i \in DOMAIN waiting[p] : x = waiting[p][i]
      BY <3>1, <3>2 DEF Range
    <3>5. /\ 1 \in DOMAIN waiting[p] /\ 1 <= i /\ waiting[p] # <<>>
          /\ waiting[p][1] \in Spot /\ x \in Spot
      BY <3>3, <3>4, LenProperties, ElementOfSeq
    <3>6. received[waiting[p][1]] <= received[x]
      BY <1>1, <3>4, <3>5 DEF Orderly
    <3>7. ~(clock - received[waiting[p][1]] >= LookupTimeout)
      BY <3>2, <3>5 DEF Expired
    <3>8. received[waiting[p][1]] \in Int /\ received[x] \in Int
      BY <1>1, <3>5
    <3> QED
      BY <1>1, <3>6, <3>7, <3>8
  <2>5. timer' \in Nat /\ timer' <= DrainInterval
    BY <1>1, <2>1
  <2> QED
    BY <1>5, <2>1, <2>2, <2>3, <2>4, <2>5
<1>8. CASE Tick
  <2>1. clock' = clock + 1 /\ timer' = timer - 1 /\ todo = <<>>
        /\ UNCHANGED <<received, waiting, todo>>
    BY <1>8 DEF Tick, Handler
  <2>2. Waiting' = Waiting /\ Range(todo') = {}
    BY <2>1 DEF Waiting, Range
  <2>3. \A s \in Spot : received'[s] <= clock'
    BY <1>1, <2>1 DEF TimeInv
  <2>4. \A s \in Waiting' :
            clock' - received'[s] + timer' < LookupTimeout + DrainInterval
    <3>1. \A s \in Waiting : /\ received[s] \in Int
                             /\ clock - received[s] + timer < LookupTimeout + DrainInterval
      BY <1>1, <1>2 DEF TimeInv
    <3> QED
      BY <1>1, <2>1, <2>2, <3>1
  <2> QED
    BY <2>2, <2>3, <2>4 DEF TimeInv
<1>9. CASE UNCHANGED <<waiting, todo, received, clock, timer>>
  BY <1>1, <1>9 DEF TimeInv, Waiting
<1>10. ASSUME NEW c, NEW x, QRZAnswer(c, x)
       PROVE  UNCHANGED <<waiting, todo, received, clock, timer>>
  BY <1>10 DEF QRZAnswer
<1>11. AgeEntry \/ UNCHANGED vars => UNCHANGED <<waiting, todo, received, clock, timer>>
  BY DEF AgeEntry, vars
<1> QED
  BY <1>3, <1>4, <1>6, <1>7, <1>8, <1>9, <1>10, <1>11 DEF Next

-----------------------------------------------------------------------------
(* The caches and the report store. *)

\* A cache answers with a coordinate or not at all.
LEMMA LookupType ==
    ASSUME NEW K, NEW cache \in Cache(K), NEW k
    PROVE  Lookup(cache, k) \in Coord \union {NoCoord}
<1>1. PICK S \in SUBSET K : cache.entries \in [S -> Coord \union {NoCoord}]
  BY DEF Cache
<1> QED
  BY <1>1 DEF Lookup, Keys

LEMMA StartType ==
    ASSUME NEW K, NEW cache \in Cache(K), NEW key \in K
    PROVE  StartIfNeeded(cache, key) \in Cache(K)
<1> DEFINE full == Size(cache) >= cache.capacity
           kept == {k \in Keys(cache) \ {key} :
                        ~(full /\ k \in cache.stale \ cache.pending)}
           reserved == IF Cardinality(kept) + Cardinality(cache.pending)
                              >= cache.capacity
                       THEN cache.pending ELSE cache.pending \union {key}
<1>1. PICK S \in SUBSET K : cache.entries \in [S -> Coord \union {NoCoord}]
  BY DEF Cache
<1>2. kept \subseteq S
  BY <1>1 DEF Keys
<1>3. reserved \in SUBSET K /\ cache.stale \intersect kept \in SUBSET K
  BY DEF Cache
<1>4. StartIfNeeded(cache, key) = cache
      \/ StartIfNeeded(cache, key) =
             [capacity |-> cache.capacity,
              entries |-> [k \in kept |-> cache.entries[k]],
              stale |-> cache.stale \intersect kept,
              pending |-> reserved]
  BY DEF StartIfNeeded, Cache
<1> HIDE DEF kept, reserved
<1>5. [k \in kept |-> cache.entries[k]] \in [kept -> Coord \union {NoCoord}]
  BY <1>1, <1>2
<1>6. kept \in SUBSET K
  BY <1>2
<1>7. [k \in kept |-> cache.entries[k]]
          \in UNION {[R -> Coord \union {NoCoord}] : R \in SUBSET K}
  BY <1>5, <1>6
<1>8. cache.capacity \in Nat
  BY DEF Cache
<1> QED
  BY <1>3, <1>4, <1>7, <1>8 DEF Cache

LEMMA StoredType ==
    ASSUME NEW K, NEW cache \in Cache(K), NEW key \in K,
           NEW coord \in Coord \union {NoCoord}
    PROVE  Stored(cache, key, coord) \in Cache(K)
<1> DEFINE keys == Keys(cache) \union {key}
           entries == [k \in keys |-> IF k = key THEN coord ELSE cache.entries[k]]
           answered == [cache EXCEPT !.pending = @ \ {key}]
<1>1. PICK S \in SUBSET K : cache.entries \in [S -> Coord \union {NoCoord}]
  BY DEF Cache
<1>2. keys \in SUBSET K /\ entries \in [keys -> Coord \union {NoCoord}]
  BY <1>1 DEF Keys
<1>3. entries \in UNION {[R -> Coord \union {NoCoord}] : R \in SUBSET K}
  BY <1>2
<1>4. answered \in Cache(K)
  BY DEF Cache
<1>5. \/ Stored(cache, key, coord) = answered
      \/ Stored(cache, key, coord) =
             [answered EXCEPT !.entries = entries, !.stale = @ \ {key}]
  BY DEF Stored
<1> HIDE DEF entries, answered
<1> QED
  BY <1>3, <1>4, <1>5 DEF Cache

LEMMA AgeType ==
    ASSUME NEW K, NEW cache \in Cache(K), NEW key \in DOMAIN cache.entries
    PROVE  Age(cache, key) \in Cache(K)
<1>1. PICK S \in SUBSET K : cache.entries \in [S -> Coord \union {NoCoord}]
  BY DEF Cache
<1>2. key \in K
  BY <1>1
<1> QED
  BY <1>2 DEF Age, Cache

\* A profile is never a park's location.
LEMMA ProfileType ==
    ASSUME qrz \in Cache(Call), NEW call
    PROVE  Profile(call) \in {s \in Site : s.source # "pota"}
<1>1. Lookup(qrz, call) \in Coord \union {NoCoord}
  BY LookupType
<1>2. Reference \in Site /\ Reference.source = "country"
  BY DEF Reference, Site
<1>3. ASSUME NEW x \in Coord
      PROVE  Known("qrz", x) \in Site /\ Known("qrz", x).source = "qrz"
  BY DEF Known, Site
<1> QED
  BY <1>1, <1>2, <1>3 DEF Profile

LEMMA BuildType ==
    ASSUME TypeOK, NEW s \in Spot
    PROVE  /\ Build(s).spot = s /\ Build(s).received = received[s]
           /\ Build(s).location \in Location
<1>1. Profile(DXCall[s]) \in Site
  BY ProfileType DEF TypeOK
<1>2. Profile(SpotterCall[s]) \in {x \in Site : x.source # "pota"}
  BY ProfileType DEF TypeOK
<1>3. DXSite(s) \in Site
  <2>1. Lookup(pota, ParkOf[s]) \in Coord \union {NoCoord}
    BY LookupType DEF TypeOK
  <2>2. \A x \in Coord : Known("pota", x) \in Site
    BY DEF Known, Site
  <2> QED
    BY <1>1, <2>1, <2>2 DEF DXSite
<1> QED
  BY <1>2, <1>3 DEF Build, Location

\* Adding one report.
LEMMA AddedOK ==
    ASSUME reports \subseteq Report, IsFiniteSet(reports),
           nextEvent \in Nat, revision \in Nat,
           NEW x, x.spot \in Spot, x.received \in Nat, x.location \in Location,
           AddAll(<<x>>)
    PROVE  /\ reports' \subseteq Report /\ IsFiniteSet(reports')
           /\ nextEvent' = nextEvent + 1 /\ revision' = revision + 1
           /\ \A r \in reports' : r \in reports
                  \/ (r.spot = x.spot /\ r.location = x.location)
<1> DEFINE new == [event |-> nextEvent + 1, revision |-> revision + 1,
                   spot |-> x.spot, received |-> x.received,
                   location |-> x.location]
<1>1. new \in Report /\ new.spot = x.spot /\ new.location = x.location
  BY DEF Report
<1>2. DOMAIN <<x>> = {1} /\ Len(<<x>>) = 1 /\ <<x>>[1] = x
  OBVIOUS
<1>3. {[event |-> nextEvent + i, revision |-> revision + i,
        spot |-> <<x>>[i].spot, received |-> <<x>>[i].received,
        location |-> <<x>>[i].location] : i \in DOMAIN <<x>>} = {new}
  BY <1>2
<1>4. reports' = Youngest(reports \union {new})
  BY <1>3, Zenon DEF AddAll
<1>5. nextEvent' = nextEvent + 1 /\ revision' = revision + 1
  BY <1>2 DEF AddAll
<1> HIDE DEF new
<1>6. reports' \subseteq reports \union {new}
  BY <1>4 DEF Youngest
<1>7. IsFiniteSet(reports \union {new})
  BY FS_AddElement
<1>8. IsFiniteSet(reports')
  BY <1>6, <1>7, FS_Subset
<1> QED
  BY <1>1, <1>5, <1>6, <1>8

\* Relocating reports: each one of the store is as it was, or has the location
\* it was given.
LEMMA MovedOK ==
    ASSUME reports \subseteq Report, IsFiniteSet(reports), revision \in Nat,
           NEW D \in SUBSET reports, NEW where \in [D -> Location],
           UpdateLocations(where)
    PROVE  /\ reports' \subseteq Report /\ IsFiniteSet(reports')
           /\ nextEvent' = nextEvent /\ revision' \in Nat
           /\ \A r \in reports' : r \in reports \ D
                  \/ \E o \in D : r.spot = o.spot /\ r.location = where[o]
<1> DEFINE rank(r) == Cardinality({o \in D : o.event <= r.event})
           moved(r) == [r EXCEPT !.location = where[r],
                                 !.revision = revision + rank(r)]
           f == [r \in D |-> moved(r)]
<1>0. IsFiniteSet(D) /\ DOMAIN where = D
  BY FS_Subset
<1>1. /\ nextEvent' = nextEvent /\ revision' = revision + Cardinality(D)
      /\ reports' = (reports \ D) \union {moved(r) : r \in D}
  BY <1>0 DEF UpdateLocations
<1>2. ASSUME NEW r \in D
      PROVE  rank(r) \in Nat
  <2>1. IsFiniteSet({o \in D : o.event <= r.event})
    BY <1>0, FS_Subset
  <2> QED
    BY <2>1, FS_CardinalityType
<1>3. ASSUME NEW r \in D
      PROVE  /\ moved(r) \in Report
             /\ moved(r).spot = r.spot /\ moved(r).location = where[r]
  <2>1. r \in Report /\ where[r] \in Location
    OBVIOUS
  <2>2. revision + rank(r) \in Nat
    BY <1>2
  <2> HIDE DEF rank
  <2> QED
    BY <2>1, <2>2 DEF Report
<1> HIDE DEF moved
<1>4. Range(f) = {moved(r) : r \in D}
  BY DEF Range
<1>5. IsFiniteSet(Range(f))
  <2>1. DOMAIN f = D /\ f = [x \in D |-> f[x]]
    OBVIOUS
  <2> HIDE DEF f
  <2> QED
    BY <1>0, <2>1, ImageFinite
<1>6. IsFiniteSet(reports \ D)
  BY FS_Subset
<1>7. IsFiniteSet(reports')
  BY <1>1, <1>4, <1>5, <1>6, FS_Union
<1>8. revision' \in Nat
  BY <1>0, <1>1, FS_CardinalityType
<1> QED
  BY <1>1, <1>3, <1>7, <1>8

\* What the two enrichments ask for.
LEMMA QRZChangesType ==
    ASSUME TypeOK, NEW c, NEW x \in Coord
    PROVE  /\ DOMAIN QRZChanges(c, x) \subseteq reports
           /\ QRZChanges(c, x) \in [DOMAIN QRZChanges(c, x) -> Location]
<1> DEFINE takes(site, k) == k = c /\ ProfileMayReplace(site)
           takesDX(r) == takes(r.location.dx, DXCall[r.spot])
           takesSpotter(r) == takes(r.location.spotter, SpotterCall[r.spot])
           new == Known("qrz", x)
           to(r) == [dx |-> IF takesDX(r) THEN new ELSE r.location.dx,
                     spotter |-> IF takesSpotter(r) THEN new ELSE r.location.spotter]
           D == {q \in reports : takesDX(q) \/ takesSpotter(q)}
<1>1. QRZChanges(c, x) = [r \in D |-> to(r)]
  BY DEF QRZChanges
<1>2. new \in Site /\ new.source = "qrz"
  BY DEF Known, Site
<1> HIDE DEF takes, new
<1>3. ASSUME NEW r \in reports
      PROVE  to(r) \in Location
  <2>1. r.location \in Location
    BY DEF TypeOK, Report
  <2> QED
    BY <1>2, <2>1 DEF Location
<1> HIDE DEF to, D
<1>4. DOMAIN QRZChanges(c, x) = D
  BY <1>1
<1>5. D \subseteq reports
  BY DEF D
<1> QED
  BY <1>1, <1>3, <1>4, <1>5

LEMMA POTAChangesType ==
    ASSUME TypeOK, NEW p, NEW x \in Coord
    PROVE  /\ DOMAIN POTAChanges(p, x) \subseteq reports
           /\ POTAChanges(p, x) \in [DOMAIN POTAChanges(p, x) -> Location]
<1>1. Known("pota", x) \in Site
  BY DEF Known, Site
<1>2. ASSUME NEW r \in reports
      PROVE  [r.location EXCEPT !.dx = Known("pota", x)] \in Location
  <2>1. r.location \in Location
    BY DEF TypeOK, Report
  <2> QED
    BY <1>1, <2>1 DEF Location
<1> QED
  BY <1>2 DEF POTAChanges

\* The store, the caches and the clock stay of their types.
LEMMA TypeStep ==
    ASSUME TapInv, [Next]_vars
    PROVE  TypeOK' /\ IsFiniteSet(reports')
<1>1. /\ TypeOK /\ QueuesInv /\ PublishedOnce /\ IsFiniteSet(reports)
      /\ reports \subseteq Report /\ nextEvent \in Nat /\ revision \in Nat
      /\ qrz \in Cache(Call) /\ pota \in Cache(Park)
      /\ clock \in 0..Horizon /\ timer \in 0..DrainInterval
      /\ DrainInterval \in Nat /\ Horizon \in Nat
      /\ received \in [Spot -> -1..Horizon]
  BY TapConstantsOK DEF TapInv, QueuesInv, TypeOK
<1>2. QueuesTypeOK'
  BY QueuesStep
<1> DEFINE StoreOK == /\ reports \subseteq Report /\ IsFiniteSet(reports)
                      /\ nextEvent \in Nat /\ revision \in Nat
           CachesOK == qrz \in Cache(Call) /\ pota \in Cache(Park)
           ClockOK == clock \in 0..Horizon /\ timer \in 0..DrainInterval
<1>3. StoreOK' /\ CachesOK' /\ ClockOK' => TypeOK' /\ IsFiniteSet(reports')
  BY <1>2 DEF TypeOK, QueuesTypeOK
<1>4. UNCHANGED storeVars => StoreOK'
  BY <1>1 DEF storeVars
<1>5. UNCHANGED <<qrz, pota>> => CachesOK'
  BY <1>1
<1>6. UNCHANGED <<clock, timer>> => ClockOK'
  BY <1>1
<1>7. ASSUME NEW s \in Spot, Receive(s)
      PROVE  StoreOK' /\ CachesOK' /\ ClockOK'
  <2>1. UNCHANGED storeVars /\ UNCHANGED <<clock, timer>>
    BY <1>7 DEF Receive
  <2>2. pota' \in Cache(Park)
    <3>1. pota' = pota \/ (ParkOf[s] # NoPark /\ pota' = StartIfNeeded(pota, ParkOf[s]))
      BY <1>7 DEF Receive
    <3>2. ParkOf[s] # NoPark => ParkOf[s] \in Park
      BY TapConstantsOK
    <3> QED
      BY <1>1, <3>1, <3>2, StartType
  <2>3. qrz' \in Cache(Call)
    <3> DEFINE once == StartIfNeeded(qrz, DXCall[s])
               twice == StartIfNeeded(once, SpotterCall[s])
    <3>1. qrz' = qrz \/ qrz' = twice
      BY <1>7 DEF Receive
    <3>2. DXCall[s] \in Call /\ SpotterCall[s] \in Call
      BY TapConstantsOK
    <3>3. once \in Cache(Call)
      BY <1>1, <3>2, StartType
    <3> HIDE DEF once
    <3>4. twice \in Cache(Call)
      BY <3>2, <3>3, StartType
    <3> QED
      BY <1>1, <3>1, <3>4
  <2> QED
    BY <1>4, <1>6, <2>1, <2>2, <2>3
<1>8. ASSUME AddNext
     PROVE  StoreOK' /\ CachesOK' /\ ClockOK'
  <2> DEFINE x == Build(todo[1])
  <2>1. todo[1] \in Spot /\ todo[1] \in Range(todo)
    BY <1>8, AddMoves
  <2>2. x.spot \in Spot /\ x.location \in Location /\ x.received = received[todo[1]]
    BY <1>1, <2>1, BuildType
  <2>3. x.received \in Nat
    <3>1. received[todo[1]] >= 0
      BY <1>1, <2>1 DEF PublishedOnce
    <3> QED
      BY <1>1, <2>1, <2>2, <3>1
  <2>4. AddAll(<<x>>) /\ UNCHANGED <<qrz, pota>> /\ UNCHANGED <<clock, timer>>
    BY <1>8 DEF AddNext
  <2> HIDE DEF x
  <2>5. StoreOK'
    BY <1>1, <2>2, <2>3, <2>4, AddedOK
  <2> QED
    BY <1>5, <1>6, <2>4, <2>5
<1>9. ASSUME NEW c \in Call, NEW x \in Coord \union {NoCoord}, QRZAnswer(c, x)
      PROVE  StoreOK' /\ CachesOK' /\ ClockOK'
  <2>1. qrz' = Stored(qrz, c, x) /\ pota' = pota /\ UNCHANGED <<clock, timer>>
    BY <1>9 DEF QRZAnswer
  <2>2. CachesOK'
    BY <1>1, <2>1, StoredType
  <2>3. CASE x = NoCoord
    BY <1>4, <1>6, <1>9, <2>1, <2>2, <2>3 DEF QRZAnswer
  <2>4. CASE x # NoCoord
    <3> DEFINE where == QRZChanges(c, x)
    <3>1. UpdateLocations(where) /\ x \in Coord
      BY <1>9, <2>4 DEF QRZAnswer
    <3>2. DOMAIN where \subseteq reports /\ where \in [DOMAIN where -> Location]
      BY <1>1, <3>1, QRZChangesType
    <3> HIDE DEF where
    <3>3. StoreOK'
      BY <1>1, <3>1, <3>2, MovedOK
    <3> QED
      BY <1>6, <2>1, <2>2, <3>3
  <2> QED
    BY <2>3, <2>4
<1>10. ASSUME NEW p \in Park, NEW x \in Coord \union {NoCoord}, POTAAnswer(p, x)
       PROVE  StoreOK' /\ CachesOK' /\ ClockOK'
  <2>1. pota' = Stored(pota, p, x) /\ qrz' = qrz /\ UNCHANGED <<clock, timer>>
    BY <1>10 DEF POTAAnswer
  <2>2. CachesOK'
    BY <1>1, <2>1, StoredType
  <2>3. CASE x = NoCoord
    BY <1>4, <1>6, <1>10, <2>1, <2>2, <2>3 DEF POTAAnswer
  <2>4. CASE x # NoCoord
    <3> DEFINE where == POTAChanges(p, x)
    <3>1. UpdateLocations(where) /\ x \in Coord
      BY <1>10, <2>4 DEF POTAAnswer
    <3>2. DOMAIN where \subseteq reports /\ where \in [DOMAIN where -> Location]
      BY <1>1, <3>1, POTAChangesType
    <3> HIDE DEF where
    <3>3. StoreOK'
      BY <1>1, <3>1, <3>2, MovedOK
    <3> QED
      BY <1>6, <2>1, <2>2, <3>3
  <2> QED
    BY <2>3, <2>4
<1>11. ASSUME DrainTick
      PROVE  StoreOK' /\ CachesOK' /\ ClockOK'
  <2>1. UNCHANGED storeVars /\ UNCHANGED <<qrz, pota>> /\ ClockOK'
    BY <1>1, <1>11 DEF DrainTick
  <2> QED
    BY <1>4, <1>5, <2>1
<1>12. ASSUME AgeEntry
      PROVE  StoreOK' /\ CachesOK' /\ ClockOK'
  <2>1. UNCHANGED storeVars /\ UNCHANGED <<clock, timer>>
    BY <1>12 DEF AgeEntry
  <2>2. CachesOK'
    BY <1>1, <1>12, AgeType DEF AgeEntry
  <2> QED
    BY <1>4, <1>6, <2>1, <2>2
<1>13. ASSUME Tick
      PROVE  StoreOK' /\ CachesOK' /\ ClockOK'
  <2>1. UNCHANGED storeVars /\ UNCHANGED <<qrz, pota>> /\ ClockOK'
    BY <1>1, <1>13 DEF Tick
  <2> QED
    BY <1>4, <1>5, <2>1
<1>14. ASSUME UNCHANGED vars
      PROVE  StoreOK' /\ CachesOK' /\ ClockOK'
  BY <1>4, <1>5, <1>6, <1>14 DEF vars
<1> HIDE DEF StoreOK, CachesOK, ClockOK
<1> QED
  BY <1>3, <1>7, <1>8, <1>9, <1>10, <1>11, <1>12, <1>13, <1>14 DEF Next

\* A location stays the best known while the caches only forget: an entry that
\* is dropped or expires answers no more.
LEMMA LocatedFades ==
    ASSUME NEW r, Located(r), NoPark \notin Keys(pota),
           \A k : Lookup(qrz', k) = Lookup(qrz, k) \/ Lookup(qrz', k) = NoCoord,
           Keys(pota') \subseteq Keys(pota),
           \A k \in Keys(pota') : pota'.entries[k] = pota.entries[k]
    PROVE  Located(r)'
<1> DEFINE park == ParkOf[r.spot]
           dx == r.location.dx
           spotter == r.location.spotter
<1>1. \A call, site :
          (Lookup(qrz, call) = NoCoord \/ site = Known("qrz", Lookup(qrz, call))) =>
          (Lookup(qrz', call) = NoCoord \/ site = Known("qrz", Lookup(qrz', call)))
  OBVIOUS
<1>2. \A coord : Known("pota", coord).source = "pota"
  BY DEF Known
<1>3. /\ \/ /\ park \in Keys(pota) /\ pota.entries[park] # NoCoord
            /\ dx = Known("pota", pota.entries[park])
         \/ /\ park \notin Keys(pota) \/ pota.entries[park] = NoCoord
            /\ \/ park # NoPark /\ dx.source = "pota"
               \/ Lookup(qrz, DXCall[r.spot]) = NoCoord
               \/ dx = Known("qrz", Lookup(qrz, DXCall[r.spot]))
      /\ \/ Lookup(qrz, SpotterCall[r.spot]) = NoCoord
         \/ spotter = Known("qrz", Lookup(qrz, SpotterCall[r.spot]))
  BY DEF Located, Keys
<1> HIDE DEF park, dx, spotter
<1>4. /\ \/ /\ park \in Keys(pota') /\ pota'.entries[park] # NoCoord
            /\ dx = Known("pota", pota'.entries[park])
         \/ /\ park \notin Keys(pota') \/ pota'.entries[park] = NoCoord
            /\ \/ park # NoPark /\ dx.source = "pota"
               \/ Lookup(qrz', DXCall[r.spot]) = NoCoord
               \/ dx = Known("qrz", Lookup(qrz', DXCall[r.spot]))
      /\ \/ Lookup(qrz', SpotterCall[r.spot]) = NoCoord
         \/ spotter = Known("qrz", Lookup(qrz', SpotterCall[r.spot]))
  BY <1>1, <1>2, <1>3
<1> QED
  BY <1>4 DEF Located, Keys, park, dx, spotter

\* A new report shows the best location known.
LEMMA BuildLocated ==
    ASSUME TypeOK, CachesSound, NEW s \in Spot, ParkOf[s] \notin pota.stale,
           NEW r, r.spot = s, r.location = Build(s).location
    PROVE  /\ Located(r)
           /\ r.location.dx.source = "pota" => ParkOf[r.spot] # NoPark
<1> DEFINE park == ParkOf[s]
<1>1. r.location.dx = DXSite(s) /\ r.location.spotter = Profile(SpotterCall[s])
  BY DEF Build
<1>2. \A k : Lookup(qrz, k) = NoCoord \/ Profile(k) = Known("qrz", Lookup(qrz, k))
  BY DEF Profile
<1>3. NoCoord # Lookup(pota, park) =>
          /\ park \in Keys(pota)
          /\ pota.entries[park] = Lookup(pota, park)
  BY DEF Lookup
<1>4. park \in Keys(pota) => Lookup(pota, park) = pota.entries[park]
  BY DEF Lookup
<1>5. park \in Keys(pota) => park # NoPark
  <2>1. Keys(pota) \subseteq Park
    BY DEF TypeOK, Cache, Keys
  <2> QED
    BY <2>1, TapConstantsOK
<1>6. Known("pota", Lookup(pota, park)).source = "pota"
  BY DEF Known
<1>7. Profile(DXCall[s]).source # "pota"
  BY ProfileType DEF TypeOK
<1>8. \/ /\ park # NoPark /\ Lookup(pota, park) # NoCoord
         /\ DXSite(s) = Known("pota", Lookup(pota, park))
      \/ /\ ~(park # NoPark /\ Lookup(pota, park) # NoCoord)
         /\ DXSite(s) = Profile(DXCall[s])
  BY DEF DXSite
<1> HIDE DEF park
<1>9. /\ \/ /\ park \in Keys(pota) /\ pota.entries[park] # NoCoord
            /\ DXSite(s) = Known("pota", pota.entries[park])
         \/ /\ park \notin Keys(pota) \/ pota.entries[park] = NoCoord
            /\ \/ park # NoPark /\ DXSite(s).source = "pota"
               \/ Lookup(qrz, DXCall[s]) = NoCoord
               \/ DXSite(s) = Known("qrz", Lookup(qrz, DXCall[s]))
      /\ DXSite(s).source = "pota" => park # NoPark
  BY <1>2, <1>3, <1>4, <1>5, <1>6, <1>7, <1>8
<1> QED
  BY <1>1, <1>2, <1>9 DEF Located, Keys, park

\* A QRZ answer, where it may, replaces the location of every station it is for.
LEMMA ProfileLocated ==
    ASSUME TypeOK, CachesSound, NEW c \in Call, c \in qrz.pending, NEW x \in Coord,
           qrz' = Stored(qrz, c, x), pota' = pota,
           NEW o \in reports, Located(o),
           o.location.dx.source = "pota" => ParkOf[o.spot] # NoPark,
           NEW r, r.spot = o.spot,
           r.location = IF o \in DOMAIN QRZChanges(c, x)
                        THEN QRZChanges(c, x)[o] ELSE o.location
    PROVE  /\ Located(r)'
           /\ r.location.dx.source = "pota" => ParkOf[r.spot] # NoPark
<1> DEFINE dxCall == DXCall[o.spot]
           spotterCall == SpotterCall[o.spot]
           takesDX == dxCall = c /\ o.location.dx.source # "pota"
           takesSpotter == spotterCall = c /\ o.location.spotter.source # "pota"
           new == Known("qrz", x)
           park == ParkOf[o.spot]
           dx == r.location.dx
           spotter == r.location.spotter
<1>1. /\ dx = IF takesDX THEN new ELSE o.location.dx
      /\ spotter = IF takesSpotter THEN new ELSE o.location.spotter
  <2>1. o \in DOMAIN QRZChanges(c, x) <=> takesDX \/ takesSpotter
    BY DEF QRZChanges, ProfileMayReplace
  <2>2. takesDX \/ takesSpotter =>
            QRZChanges(c, x)[o] =
                [dx |-> IF takesDX THEN new ELSE o.location.dx,
                 spotter |-> IF takesSpotter THEN new ELSE o.location.spotter]
    BY DEF QRZChanges, ProfileMayReplace
  <2> HIDE DEF takesDX, takesSpotter, new
  <2> QED
    BY <2>1, <2>2
<1>2. \A k : Lookup(qrz', k) = IF k = c THEN x ELSE Lookup(qrz, k)
  BY StoredKeeps DEF CachesSound
<1>3. o.location.spotter.source # "pota"
  BY DEF TypeOK, Report, Location
<1>4. new.source = "qrz"
  BY DEF Known
<1>5. \A site : site = Known("pota", pota.entries[park]) => site.source = "pota"
  BY DEF Known
<1>6. /\ \/ /\ park \in Keys(pota) /\ pota.entries[park] # NoCoord
            /\ o.location.dx = Known("pota", pota.entries[park])
         \/ /\ park \notin Keys(pota) \/ pota.entries[park] = NoCoord
            /\ \/ park # NoPark /\ o.location.dx.source = "pota"
               \/ Lookup(qrz, dxCall) = NoCoord
               \/ o.location.dx = Known("qrz", Lookup(qrz, dxCall))
      /\ \/ Lookup(qrz, spotterCall) = NoCoord
         \/ o.location.spotter = Known("qrz", Lookup(qrz, spotterCall))
  BY DEF Located, Keys
<1>7. /\ DXCall[r.spot] = dxCall /\ SpotterCall[r.spot] = spotterCall
      /\ ParkOf[r.spot] = park
  OBVIOUS
<1>8. \A k : k = c => new = Known("qrz", Lookup(qrz', k))
  BY <1>2
<1> HIDE DEF dxCall, spotterCall, park, dx, spotter, new
<1>9. \/ Lookup(qrz', spotterCall) = NoCoord
      \/ spotter = Known("qrz", Lookup(qrz', spotterCall))
  BY <1>1, <1>2, <1>3, <1>6, <1>8
<1>10. dx.source = "pota" => park # NoPark
  BY <1>1, <1>4 DEF park
<1>11. \/ /\ park \in Keys(pota) /\ pota.entries[park] # NoCoord
          /\ dx = Known("pota", pota.entries[park])
       \/ /\ park \notin Keys(pota) \/ pota.entries[park] = NoCoord
          /\ \/ park # NoPark /\ dx.source = "pota"
             \/ Lookup(qrz', dxCall) = NoCoord
             \/ dx = Known("qrz", Lookup(qrz', dxCall))
  <2>1. CASE takesDX
    <3>1. dx = new /\ dx = Known("qrz", Lookup(qrz', dxCall))
      BY <1>1, <1>8, <2>1
    <3> QED
      BY <1>5, <1>6, <2>1, <3>1
  <2>2. CASE ~takesDX
    <3>1. dx = o.location.dx
      BY <1>1, <2>2
    <3>2. CASE dxCall = c
      BY <1>6, <1>10, <2>2, <3>1, <3>2
    <3>3. CASE dxCall # c
      BY <1>2, <1>6, <3>1, <3>3
    <3> QED
      BY <3>2, <3>3
  <2> QED
    BY <2>1, <2>2
<1> QED
  BY <1>7, <1>9, <1>10, <1>11 DEF Located, Keys, dx, spotter

\* A park's answer becomes the location of every report that names the park.
LEMMA ParkLocated ==
    ASSUME TypeOK, CachesSound, NEW p \in Park, p \in pota.pending,
           NEW x \in Coord \union {NoCoord},
           pota' = Stored(pota, p, x), qrz' = qrz,
           NEW o \in reports, Located(o),
           o.location.dx.source = "pota" => ParkOf[o.spot] # NoPark,
           NEW r, r.spot = o.spot,
           r.location = IF ParkOf[o.spot] = p /\ x # NoCoord
                        THEN [o.location EXCEPT !.dx = Known("pota", x)]
                        ELSE o.location
    PROVE  /\ Located(r)'
           /\ r.location.dx.source = "pota" => ParkOf[r.spot] # NoPark
<1> DEFINE park == ParkOf[o.spot]
           dx == r.location.dx
           spotter == r.location.spotter
           profile(call, site) ==
               Lookup(qrz, call) = NoCoord \/ site = Known("qrz", Lookup(qrz, call))
<1>1. /\ Keys(pota') = Keys(pota) \union {p} /\ p \notin Keys(pota)
      /\ \A k \in Keys(pota) : pota'.entries[k] = pota.entries[k]
      /\ pota'.entries[p] = x
  BY StoredKeeps DEF CachesSound
<1>2. /\ spotter = o.location.spotter
      /\ dx = IF park = p /\ x # NoCoord THEN Known("pota", x) ELSE o.location.dx
  <2>1. o.location \in Location
    BY DEF TypeOK, Report
  <2>2. [o.location EXCEPT !.dx = Known("pota", x)].dx = Known("pota", x)
        /\ [o.location EXCEPT !.dx = Known("pota", x)].spotter = o.location.spotter
    BY <2>1 DEF Location
  <2> QED
    BY <2>2
<1>3. p # NoPark
  BY TapConstantsOK
<1>4. Located(o) <=>
        /\ \/ /\ park \in Keys(pota) /\ pota.entries[park] # NoCoord
              /\ o.location.dx = Known("pota", pota.entries[park])
           \/ /\ park \notin Keys(pota) \/ pota.entries[park] = NoCoord
              /\ \/ park # NoPark /\ o.location.dx.source = "pota"
                 \/ profile(DXCall[o.spot], o.location.dx)
        /\ profile(SpotterCall[o.spot], o.location.spotter)
  BY DEF Located, Keys
<1>5. Located(r)' <=>
        /\ \/ /\ park \in Keys(pota') /\ pota'.entries[park] # NoCoord
              /\ dx = Known("pota", pota'.entries[park])
           \/ /\ park \notin Keys(pota') \/ pota'.entries[park] = NoCoord
              /\ \/ park # NoPark /\ dx.source = "pota"
                 \/ profile(DXCall[o.spot], dx)
        /\ profile(SpotterCall[o.spot], spotter)
  BY DEF Located, Keys
<1>6. dx.source = "pota" => park # NoPark
  BY <1>2, <1>3
<1>7. ParkOf[r.spot] = park
  OBVIOUS
<1> HIDE DEF profile, park, dx, spotter
<1>8. CASE park = p /\ x # NoCoord
  BY <1>1, <1>2, <1>4, <1>5, <1>6, <1>7, <1>8 DEF dx
<1>9. CASE ~(park = p /\ x # NoCoord)
  BY <1>1, <1>2, <1>4, <1>5, <1>6, <1>7, <1>9 DEF dx
<1> QED
  BY <1>8, <1>9

\* No handler leaves a report without the best location its caches know.
LEMMA LocatedStep ==
    ASSUME TapInv, [Next]_vars, CachesSound'
    PROVE  LocatedInv'
<1>1. /\ TypeOK /\ CachesSound /\ QueuesInv /\ LocatedInv
      /\ Orderly(waiting, received) /\ PublishedOnce /\ IsFiniteSet(reports)
      /\ reports \subseteq Report /\ nextEvent \in Nat /\ revision \in Nat
      /\ waiting \in [Park -> Seq(Spot)]
  BY DEF TapInv, QueuesInv, TypeOK
<1>2. NoPark \notin Keys(pota)
  <2>1. Keys(pota) \subseteq Park
    BY <1>1 DEF TypeOK, Cache, Keys
  <2> QED
    BY <2>1, TapConstantsOK
<1>3. /\ pota.stale \subseteq Keys(pota) /\ Keys(pota) \intersect pota.pending = {}
      /\ pota'.stale \subseteq Keys(pota') /\ Keys(pota') \intersect pota'.pending = {}
  BY <1>1 DEF CachesSound, Sound, Reserved
<1>4. \A x \in Waiting : ParkOf[x] \in pota.pending
  <2> SUFFICES ASSUME NEW x \in Waiting PROVE ParkOf[x] \in pota.pending
    OBVIOUS
  <2>1. PICK p \in Park : x \in Range(waiting[p])
    BY DEF Waiting
  <2>2. PICK i \in DOMAIN waiting[p] : x = waiting[p][i]
    BY <2>1 DEF Range
  <2>3. waiting[p] # <<>>
    BY <2>2
  <2>4. ParkOf[x] = p
    BY <1>1, <2>2 DEF Orderly
  <2> QED
    BY <1>1, <2>3, <2>4 DEF LocatedInv
<1>5. ASSUME reports' = reports,
             \A k : Lookup(qrz', k) = Lookup(qrz, k) \/ Lookup(qrz', k) = NoCoord,
             Keys(pota') \subseteq Keys(pota),
             \A k \in Keys(pota') : pota'.entries[k] = pota.entries[k]
      PROVE  \A r \in reports' :
                 /\ Located(r)'
                 /\ r.location.dx.source = "pota" => ParkOf[r.spot] # NoPark
  BY <1>1, <1>2, <1>5, LocatedFades DEF LocatedInv
<1>6. \A P \in SUBSET Park : \A p \in Park :
          Without(P)[p] # <<>> => p \notin P /\ waiting[p] # <<>>
  BY DEF Without
<1>7. ASSUME NEW s \in Spot, Receive(s)
      PROVE  LocatedInv'
  <2> DEFINE p == ParkOf[s]
             once == StartIfNeeded(qrz, DXCall[s])
             twice == StartIfNeeded(once, SpotterCall[s])
  <2>1. /\ Waiting' \union Range(todo') = Waiting \union {s}
        /\ \A o \in Park : waiting'[o] # <<>> =>
               waiting[o] # <<>> \/ (o = p /\ o \in pota'.pending)
    BY <1>7, ReceiveMoves
  <2>2. pota' = IF p = NoPark THEN pota ELSE StartIfNeeded(pota, p)
    BY <1>7 DEF Receive
  <2>3. /\ Keys(pota') \subseteq Keys(pota)
        /\ \A k \in Keys(pota') : pota'.entries[k] = pota.entries[k]
        /\ pota.pending \subseteq pota'.pending
        /\ p \notin pota'.stale
    <3>1. CASE p = NoPark
      BY <1>2, <1>3, <2>2, <3>1
    <3>2. CASE p # NoPark
      <4>1. pota' = StartIfNeeded(pota, p) /\ Sound(pota)
        BY <1>1, <2>2, <3>2 DEF CachesSound
      <4> HIDE DEF p
      <4> QED
        BY <4>1, StartKeeps
    <3> QED
      BY <3>1, <3>2
  <2>4. \A k : Lookup(qrz', k) = Lookup(qrz, k)
    <3>1. qrz' = qrz \/ qrz' = twice
      BY <1>7 DEF Receive
    <3>2. Sound(once) /\ \A k : Lookup(once, k) = Lookup(qrz, k)
      BY <1>1, SoundStart, StartKeeps DEF CachesSound
    <3> HIDE DEF once
    <3>3. \A k : Lookup(twice, k) = Lookup(once, k)
      BY <3>2, StartKeeps
    <3> QED
      BY <3>1, <3>2, <3>3
  <2>5. reports' = reports
    BY <1>7 DEF Receive, storeVars
  <2>6. \A r \in reports' : /\ Located(r)'
                            /\ r.location.dx.source = "pota" => ParkOf[r.spot] # NoPark
    BY <1>5, <2>3, <2>4, <2>5
  <2>7. \A o \in Park : waiting'[o] # <<>> => o \in pota'.pending
    BY <1>1, <2>1, <2>3 DEF LocatedInv
  <2>8. \A x \in Range(todo') : ParkOf[x] \notin pota'.stale
    <3>1. \A x \in Waiting : ParkOf[x] \notin pota'.stale
      BY <1>3, <1>4, <2>3
    <3> QED
      BY <2>1, <2>3, <3>1
  <2> QED
    BY <2>6, <2>7, <2>8 DEF LocatedInv
<1>8. CASE AddNext
  <2> DEFINE s == todo[1]
             x == Build(s)
  <2>1. s \in Spot /\ s \in Range(todo) /\ Range(todo') \subseteq Range(todo)
    BY <1>8, AddMoves
  <2>2. x.spot = s /\ x.location \in Location /\ x.received = received[s]
    BY <1>1, <2>1, BuildType
  <2>3. x.received \in Nat
    <3>1. received[s] >= 0
      BY <1>1, <2>1 DEF PublishedOnce
    <3>2. received[s] \in -1..Horizon /\ Horizon \in Nat
      BY <1>1, <2>1, TapConstantsOK DEF TypeOK
    <3> QED
      BY <2>2, <3>1, <3>2
  <2>4. AddAll(<<x>>) /\ UNCHANGED <<qrz, pota, waiting>>
    BY <1>8 DEF AddNext
  <2>5. ParkOf[s] \notin pota.stale
    BY <1>1, <2>1 DEF LocatedInv
  <2> HIDE DEF x
  <2>6. \A r \in reports' : r \in reports \/ (r.spot = x.spot /\ r.location = x.location)
    BY <1>1, <2>1, <2>2, <2>3, <2>4, AddedOK
  <2>7. ASSUME NEW r \in reports'
        PROVE  /\ Located(r)'
               /\ r.location.dx.source = "pota" => ParkOf[r.spot] # NoPark
    <3>1. /\ Located(r)
          /\ r.location.dx.source = "pota" => ParkOf[r.spot] # NoPark
      <4>1. CASE r \in reports
        BY <1>1, <4>1 DEF LocatedInv
      <4>2. CASE r.spot = x.spot /\ r.location = x.location
        <5>1. r.spot = s /\ r.location = Build(s).location
          BY <2>2, <4>2 DEF x
        <5> QED
          BY <1>1, <2>1, <2>5, <5>1, BuildLocated
      <4> QED
        BY <2>6, <4>1, <4>2
    <3>2. Located(r)' <=> Located(r)
      BY <2>4 DEF Located
    <3> QED
      BY <3>1, <3>2
  <2> QED
    BY <1>1, <2>1, <2>4, <2>7 DEF LocatedInv
<1>9. ASSUME NEW c \in Call, NEW x \in Coord \union {NoCoord}, QRZAnswer(c, x)
      PROVE  LocatedInv'
  <2>1. /\ qrz' = Stored(qrz, c, x) /\ c \in qrz.pending
        /\ UNCHANGED <<pota, waiting, todo>> /\ todo = <<>>
    BY <1>9 DEF QRZAnswer, Handler
  <2>2. \A r \in reports' : /\ Located(r)'
                            /\ r.location.dx.source = "pota" => ParkOf[r.spot] # NoPark
    <3>1. CASE x = NoCoord
      <4>1. \A k : Lookup(qrz', k) = IF k = c THEN x ELSE Lookup(qrz, k)
        BY <1>1, <2>1, StoredKeeps DEF CachesSound
      <4>2. reports' = reports
        BY <1>9, <3>1 DEF QRZAnswer, storeVars
      <4> QED
        BY <1>5, <2>1, <3>1, <4>1, <4>2
    <3>2. CASE x # NoCoord
      <4> DEFINE where == QRZChanges(c, x)
                 D == DOMAIN where
      <4>1. UpdateLocations(where) /\ x \in Coord
        BY <1>9, <3>2 DEF QRZAnswer
      <4>2. D \subseteq reports /\ where \in [D -> Location]
        BY <1>1, <4>1, QRZChangesType
      <4> HIDE DEF where
      <4>3. \A r \in reports' : r \in reports \ D
                \/ \E o \in D : r.spot = o.spot /\ r.location = where[o]
        BY <1>1, <4>1, <4>2, MovedOK
      <4> SUFFICES ASSUME NEW r \in reports'
                   PROVE  /\ Located(r)'
                          /\ r.location.dx.source = "pota" => ParkOf[r.spot] # NoPark
        OBVIOUS
      <4>4. PICK o \in reports :
                /\ r.spot = o.spot
                /\ r.location = IF o \in D THEN where[o] ELSE o.location
        BY <4>2, <4>3
      <4>5. /\ Located(o)
            /\ o.location.dx.source = "pota" => ParkOf[o.spot] # NoPark
        BY <1>1 DEF LocatedInv
      <4> QED
        BY <1>1, <2>1, <4>1, <4>4, <4>5, ProfileLocated DEF where
    <3> QED
      BY <3>1, <3>2
  <2>3. Range(todo') = {}
    BY <2>1 DEF Range
  <2> QED
    BY <1>1, <2>1, <2>2, <2>3 DEF LocatedInv
<1>10. ASSUME NEW p \in Park, NEW x \in Coord \union {NoCoord}, POTAAnswer(p, x)
       PROVE  LocatedInv'
  <2>1. /\ pota' = Stored(pota, p, x) /\ p \in pota.pending /\ qrz' = qrz
        /\ waiting' = Without({p}) /\ todo' = waiting[p]
    BY <1>10 DEF POTAAnswer
  <2>2. /\ pota'.stale = pota.stale /\ pota'.pending = pota.pending \ {p}
    BY <1>1, <2>1, StoredKeeps DEF CachesSound
  <2>3. \A o \in Park : waiting'[o] # <<>> => o \in pota'.pending
    BY <1>1, <1>6, <2>1, <2>2 DEF LocatedInv
  <2>4. \A y \in Range(todo') : ParkOf[y] \notin pota'.stale
    <3>1. \A y \in Range(waiting[p]) : ParkOf[y] = p
      BY <1>1 DEF Orderly, Range
    <3> QED
      BY <1>3, <2>1, <2>2, <3>1
  <2>5. \A r \in reports' : \E o \in reports :
            /\ r.spot = o.spot
            /\ r.location = IF ParkOf[o.spot] = p /\ x # NoCoord
                            THEN [o.location EXCEPT !.dx = Known("pota", x)]
                            ELSE o.location
    <3>1. CASE x = NoCoord
      <4>1. reports' = reports
        BY <1>10, <3>1 DEF POTAAnswer, storeVars
      <4> QED
        BY <3>1, <4>1
    <3>2. CASE x # NoCoord
      <4> DEFINE where == POTAChanges(p, x)
                 D == DOMAIN where
      <4>1. UpdateLocations(where) /\ x \in Coord
        BY <1>10, <3>2 DEF POTAAnswer
      <4>2. D \subseteq reports /\ where \in [D -> Location]
        BY <1>1, <4>1, POTAChangesType
      <4>3. /\ D = {q \in reports : ParkOf[q.spot] = p}
            /\ \A o \in D : where[o] = [o.location EXCEPT !.dx = Known("pota", x)]
        BY DEF POTAChanges
      <4> HIDE DEF where, D
      <4>4. D \in SUBSET reports
        BY <4>2
      <4>5. \A r \in reports' : r \in reports \ D
                \/ \E o \in D : r.spot = o.spot /\ r.location = where[o]
        BY <1>1, <4>1, <4>2, <4>4, MovedOK
      <4> QED
        BY <3>2, <4>3, <4>5
    <3> QED
      BY <3>1, <3>2
  <2>6. ASSUME NEW r \in reports'
        PROVE  /\ Located(r)'
               /\ r.location.dx.source = "pota" => ParkOf[r.spot] # NoPark
    <3>1. PICK o \in reports :
            /\ r.spot = o.spot
            /\ r.location = IF ParkOf[o.spot] = p /\ x # NoCoord
                            THEN [o.location EXCEPT !.dx = Known("pota", x)]
                            ELSE o.location
      BY <2>5
    <3>2. /\ Located(o)
          /\ o.location.dx.source = "pota" => ParkOf[o.spot] # NoPark
      BY <1>1 DEF LocatedInv
    <3> QED
      BY <1>1, <2>1, <3>1, <3>2, ParkLocated
  <2> QED
    BY <2>3, <2>4, <2>6 DEF LocatedInv
<1>11. CASE DrainTick
  <2>1. /\ waiting' = Without(Expired) /\ todo' \in Flushes(Expired)
        /\ UNCHANGED <<reports, qrz, pota>>
    BY <1>11 DEF DrainTick, storeVars
  <2>2. Expired \in SUBSET Park /\ IsFiniteSet(Expired)
    BY <1>1, ExpiredFinite
  <2>3. Range(todo') \subseteq Waiting
    <3>1. FlushOf(Expired, todo')
      BY <1>1, <2>1, <2>2, FlushesOK
    <3> QED
      BY <2>2, <3>1 DEF FlushOf, Waiting
  <2>4. \A p \in Park : waiting'[p] # <<>> => p \in pota'.pending
    BY <1>1, <1>6, <2>1, <2>2 DEF LocatedInv
  <2>5. \A x \in Range(todo') : ParkOf[x] \notin pota'.stale
    BY <1>3, <1>4, <2>1, <2>3
  <2>6. \A r \in reports' : /\ Located(r)'
                            /\ r.location.dx.source = "pota" => ParkOf[r.spot] # NoPark
    BY <1>5, <2>1
  <2> QED
    BY <2>4, <2>5, <2>6 DEF LocatedInv
<1>12. CASE AgeEntry
  <2>1. todo' = <<>> /\ reports' = reports /\ waiting' = waiting
    BY <1>12 DEF AgeEntry, Handler, storeVars
  <2>2. \/ \E k : qrz' = Age(qrz, k) /\ pota' = pota
        \/ \E k : pota' = Age(pota, k) /\ qrz' = qrz
    BY <1>12 DEF AgeEntry
  <2>3. /\ \A k : Lookup(qrz', k) = Lookup(qrz, k) \/ Lookup(qrz', k) = NoCoord
        /\ pota'.entries = pota.entries /\ pota'.pending = pota.pending
    BY <1>1, <2>2, AgeKeeps DEF CachesSound
  <2>4. \A r \in reports' : /\ Located(r)'
                            /\ r.location.dx.source = "pota" => ParkOf[r.spot] # NoPark
    <3>1. Keys(pota') = Keys(pota)
      BY <2>3 DEF Keys
    <3> QED
      BY <1>5, <2>1, <2>3, <3>1
  <2>5. Range(todo') = {}
    BY <2>1 DEF Range
  <2> QED
    BY <1>1, <2>1, <2>3, <2>4, <2>5 DEF LocatedInv
<1>13. CASE UNCHANGED <<reports, qrz, pota, waiting, todo>>
  BY <1>1, <1>13 DEF LocatedInv, Located
<1>14. Tick \/ UNCHANGED vars => UNCHANGED <<reports, qrz, pota, waiting, todo>>
  BY DEF Tick, vars, storeVars
<1> QED
  BY <1>7, <1>8, <1>9, <1>10, <1>11, <1>12, <1>13, <1>14 DEF Next

-----------------------------------------------------------------------------
(* The tap. *)

LEMMA TapInit == Init => TapInv
<1> SUFFICES ASSUME Init PROVE TapInv
  OBVIOUS
<1>1. /\ reports = {} /\ nextEvent = 0 /\ revision = 0 /\ published = {}
      /\ waiting = [p \in Park |-> <<>>] /\ todo = <<>>
      /\ received = [s \in Spot |-> -1]
      /\ clock = 0 /\ timer = DrainInterval
      /\ qrz = Empty(QRZCapacity) /\ pota = Empty(POTACapacity)
  BY DEF Init
<1>2. QRZCapacity \in Nat /\ POTACapacity \in Nat /\ DrainInterval \in Nat /\ Horizon \in Nat
  BY TapConstantsOK
<1>3. ASSUME NEW K, NEW capacity \in Nat
      PROVE  Empty(capacity) \in Cache(K)
  <2>1. <<>> \in [{} -> Coord \union {NoCoord}]
    OBVIOUS
  <2>2. <<>> \in UNION {[R -> Coord \union {NoCoord}] : R \in SUBSET K}
    BY <2>1
  <2> QED
    BY <2>2 DEF Empty, Cache
<1>4. TypeOK
  BY <1>1, <1>2, <1>3 DEF TypeOK
<1>5. Waiting = {} /\ Range(todo) = {}
  BY <1>1 DEF Waiting, Range
<1>6. {s \in Spot : received[s] >= 0} = {}
  BY <1>1
<1>7. IsFiniteSet({}) /\ Cardinality({}) = 0
  BY FS_EmptySet
<1>8. Orderly(waiting, received) /\ IsInjective(todo)
  BY <1>1 DEF Orderly, IsInjective
<1>9. PublishedOnce
  BY <1>1, <1>5, <1>6, <1>7 DEF PublishedOnce
<1>10. QueuesInv
  BY <1>6, <1>7, <1>8, <1>9 DEF QueuesInv
<1>11. TimeInv
  BY <1>1, <1>5 DEF TimeInv
<1>12. LocatedInv
  BY <1>1, <1>5 DEF LocatedInv
<1> QED
  BY <1>1, <1>4, <1>7, <1>10, <1>11, <1>12, CachesInit DEF TapInv

LEMMA TapStep == TapInv /\ [Next]_vars => TapInv'
<1> SUFFICES ASSUME TapInv, [Next]_vars PROVE TapInv'
  OBVIOUS
<1>1. CachesSound'
  BY CachesStep DEF TapInv
<1>2. TypeOK' /\ IsFiniteSet(reports')
  BY TypeStep
<1>3. QueuesInv'
  BY QueuesStep
<1>4. clock' \in 0..Horizon
  BY <1>2 DEF TypeOK
<1>5. TimeInv'
  BY <1>4, TimeStep
<1>6. LocatedInv'
  BY <1>1, LocatedStep
<1> QED
  BY <1>1, <1>2, <1>3, <1>5, <1>6 DEF TapInv

LEMMA TapAlways == Spec => []TapInv
BY TapInit, TapStep, PTL DEF Spec

\* The stores, queues, caches and timers of the tap are of their types.
THEOREM TapTypeCorrect == Spec => []TypeOK
<1>1. TapInv => TypeOK
  BY DEF TapInv
<1> QED
  BY <1>1, TapAlways, PTL

\* Every spot received is added to the report store exactly once, or is still
\* in exactly one queue on its way there (queuePendingPOTASpot,
\* flushPendingPOTASpots, expirePendingPOTASpots).
THEOREM SpotsPublishedOnce == Spec => []PublishedOnce
<1>1. TapInv => PublishedOnce
  BY DEF TapInv, QueuesInv
<1> QED
  BY <1>1, TapAlways, PTL

\* No spot is held back longer than the lookup timeout and one drain interval.
THEOREM SpotsHeldBriefly == Spec => []HeldBriefly
<1>1. TapInv => HeldBriefly
  <2> SUFFICES ASSUME TapInv, NEW s \in Waiting
               PROVE  clock - received[s] < LookupTimeout + DrainInterval
    BY DEF HeldBriefly
  <2>1. s \in Spot
    BY DEF TapInv, QueuesInv, PublishedOnce
  <2>2. /\ received[s] \in -1..Horizon /\ Horizon \in Nat
        /\ clock \in 0..Horizon /\ timer \in 0..DrainInterval
        /\ LookupTimeout \in Nat /\ DrainInterval \in Nat
    BY <2>1, TapConstantsOK DEF TapInv, TypeOK
  <2>3. clock - received[s] + timer < LookupTimeout + DrainInterval
    BY DEF TapInv, TimeInv
  <2> QED
    BY <2>2, <2>3
<1> QED
  BY <1>1, TapAlways, PTL

\* Whatever the order of answers, expiries and spots, every retained report
\* shows the best location the caches know of (resolveMapLocation,
\* enrichQRZReports, enrichPOTAReports).
THEOREM ReportsBestLocated == Spec => []BestLocation
<1>1. TapInv => BestLocation
  BY DEF TapInv, LocatedInv, BestLocation
<1> QED
  BY <1>1, TapAlways, PTL

\* A lookup that was started always finds the place reserved for its answer,
\* and neither cache outgrows its capacity (geoCache.startIfNeeded and store).
THEOREM ReservationHolds == Spec => []Reservation
<1>1. CachesSound => Reservation
  BY DEF CachesSound, Sound, Reservation
<1> QED
  BY <1>1, CachesInit, CachesStep, PTL DEF Spec

-----------------------------------------------------------------------------
(* The tap is the event loop of MapStream. *)

LEMMA StreamInit == Init => Stream!Init
<1> SUFFICES ASSUME Init PROVE Stream!Init
  OBVIOUS
<1>1. reports = {} /\ nextEvent = 0 /\ revision = 0 /\ clock = 0
  BY DEF Init
<1>2. ASSUME NEW v
      PROVE  <<>> = [c \in {} |-> v]
  OBVIOUS
<1> QED
  BY <1>1, <1>2 DEF Stream!Init

\* Both modules count the same.
LEMMA SameCardinality == \A S : Stream!Cardinality(S) = Cardinality(S)
BY DEF Cardinality, Stream!Cardinality

\* What the tap does to the store and the clock is what MapStream's event loop
\* may do: it publishes a spot within MaxHold of its reception, gives some
\* reports new locations, lets time pass, or leaves both alone.
LEMMA StreamStep ==
    ASSUME TapInv, [Next]_vars, revision' <= MaxRevision
    PROVE  UNCHANGED <<storeVars, clock>> \/ Stream!Next
<1>1. /\ TypeOK /\ QueuesInv /\ TimeInv /\ PublishedOnce /\ IsFiniteSet(reports)
      /\ reports \subseteq Report /\ nextEvent \in Nat /\ revision \in Nat
      /\ clock \in 0..Horizon
      /\ LookupTimeout \in Nat /\ DrainInterval \in Nat /\ Horizon \in Nat
      /\ LookupTimeout > 0 /\ MaxRevision \in Nat
  BY TapConstantsOK DEF TapInv, QueuesInv, TypeOK
<1>2. CASE AddNext
  <2> DEFINE s == todo[1]
             t == received[s]
             l == Build(s).location
  <2>1. s \in Spot /\ s \in Range(todo) /\ revision' = revision + 1
    BY <1>2, AddMoves
  <2>2. l \in Location /\ Build(s) = [spot |-> s, received |-> t, location |-> l]
    <3>1. l \in Location
      BY <1>1, <2>1, BuildType
    <3>2. Build(s) = [spot |-> s, received |-> t, location |-> l]
      BY DEF Build
    <3> QED
      BY <3>1, <3>2
  <2>3. /\ t >= 0 /\ t <= clock /\ t \in Int
        /\ clock - t < LookupTimeout + DrainInterval
    <3>1. t >= 0
      BY <1>1, <2>1 DEF PublishedOnce
    <3>2. t \in -1..Horizon
      BY <1>1, <2>1 DEF TypeOK
    <3> QED
      BY <1>1, <2>1, <3>1, <3>2 DEF TimeInv
  <2>4. AddAll(<<Build(s)>>) /\ clock' = clock
    BY <1>2 DEF AddNext
  <2> HIDE DEF s, t, l
  <2>5. t \in (clock - (LookupTimeout + DrainInterval - 1))..clock
    BY <1>1, <2>3
  <2>6. AddAll(<<[spot |-> s, received |-> t, location |-> l]>>)
    BY <2>2, <2>4
  <2>7. Stream!AddAll(<<[spot |-> s, received |-> t, location |-> l]>>)
    BY <2>6, SameCardinality DEF AddAll, Stream!AddAll, Youngest, Stream!Youngest
  <2>8. Stream!Publish(s, t, l)
    BY <1>1, <2>1, <2>4, <2>7 DEF Stream!Publish, Stream!connection
  <2> QED
    BY <2>1, <2>2, <2>3, <2>5, <2>8 DEF Stream!Next, Stream!EventLoop
<1>3. ASSUME NEW where, DOMAIN where \subseteq reports,
             where \in [DOMAIN where -> Location],
             UpdateLocations(where), clock' = clock
      PROVE  UNCHANGED <<storeVars, clock>> \/ Stream!Next
  <2>1. CASE DOMAIN where = {}
    <3>1. Cardinality({}) = 0
      BY FS_EmptySet
    <3> QED
      BY <1>1, <1>3, <2>1, <3>1 DEF UpdateLocations, storeVars
  <2>2. CASE DOMAIN where # {}
    <3>1. Stream!UpdateLocations(where)
      BY <1>3, SameCardinality DEF UpdateLocations, Stream!UpdateLocations
    <3>2. revision + Cardinality(DOMAIN where) <= MaxRevision
      BY <1>3 DEF UpdateLocations
    <3>3. Stream!Enrich(DOMAIN where, where)
      BY <1>3, <2>2, <3>1, <3>2, SameCardinality DEF Stream!Enrich, Stream!connection
    <3> QED
      BY <1>3, <3>3 DEF Stream!Next, Stream!EventLoop
  <2> QED
    BY <2>1, <2>2
<1>4. ASSUME NEW c \in Call, NEW x \in Coord \union {NoCoord}, QRZAnswer(c, x)
      PROVE  UNCHANGED <<storeVars, clock>> \/ Stream!Next
  <2>1. clock' = clock
    BY <1>4 DEF QRZAnswer
  <2>2. CASE x = NoCoord
    BY <1>4, <2>1, <2>2 DEF QRZAnswer
  <2>3. CASE x # NoCoord
    <3> DEFINE where == QRZChanges(c, x)
    <3>1. UpdateLocations(where) /\ x \in Coord
      BY <1>4, <2>3 DEF QRZAnswer
    <3>2. DOMAIN where \subseteq reports /\ where \in [DOMAIN where -> Location]
      BY <1>1, <3>1, QRZChangesType
    <3> HIDE DEF where
    <3> QED
      BY <1>3, <2>1, <3>1, <3>2
  <2> QED
    BY <2>2, <2>3
<1>5. ASSUME NEW p \in Park, NEW x \in Coord \union {NoCoord}, POTAAnswer(p, x)
      PROVE  UNCHANGED <<storeVars, clock>> \/ Stream!Next
  <2>1. clock' = clock
    BY <1>5 DEF POTAAnswer
  <2>2. CASE x = NoCoord
    BY <1>5, <2>1, <2>2 DEF POTAAnswer
  <2>3. CASE x # NoCoord
    <3> DEFINE where == POTAChanges(p, x)
    <3>1. UpdateLocations(where) /\ x \in Coord
      BY <1>5, <2>3 DEF POTAAnswer
    <3>2. DOMAIN where \subseteq reports /\ where \in [DOMAIN where -> Location]
      BY <1>1, <3>1, POTAChangesType
    <3> HIDE DEF where
    <3> QED
      BY <1>3, <2>1, <3>1, <3>2
  <2> QED
    BY <2>2, <2>3
<1>6. CASE Tick
  <2>1. Stream!Tick
    BY <1>6 DEF Tick, storeVars, Stream!Tick, Stream!store, Stream!connection
  <2> QED
    BY <2>1 DEF Stream!Next
<1>7. ASSUME NEW s \in Spot, Receive(s)
      PROVE  UNCHANGED <<storeVars, clock>>
  BY <1>7 DEF Receive
<1>8. DrainTick \/ AgeEntry \/ UNCHANGED vars => UNCHANGED <<storeVars, clock>>
  BY DEF DrainTick, AgeEntry, vars
<1> QED
  BY <1>2, <1>4, <1>5, <1>6, <1>7, <1>8 DEF Next

\* The tap implements the event loop that MapStream assumes, for as long as no
\* more revisions are given out than MapStream is bounded to: what is proved of
\* the pages there holds of the program that the tap feeds.
THEOREM TapFeedsStream == Spec /\ [](revision <= MaxRevision) => FeedsStream
<1> DEFINE Fits == revision <= MaxRevision
<1>1. TapInv /\ Fits /\ Fits' /\ [Next]_vars
         => [UNCHANGED <<storeVars, clock>> \/ Stream!Next]_vars
  BY StreamStep
<1> QED
  BY <1>1, StreamInit, TapAlways, PTL DEF Spec, FeedsStream
=============================================================================
