--------------------------- MODULE LogIndexProofs ---------------------------
(***************************************************************************)
(* The contest index agrees with the log it is kept of, for any number of  *)
(* contacts, calls, bands, contests, imports and edits.                    *)
(***************************************************************************)
EXTENDS LogIndex, FiniteSetTheorems, WellFoundedInduction, TLAPS

-----------------------------------------------------------------------------
(* Sets, folds and sums. *)

\* The least of some numbers.
LEMMA LeastOf ==
    ASSUME NEW T \in SUBSET Nat, T # {}
    PROVE  \E x \in T : \A y \in T : y >= x
<1> DEFINE R == OpToRel(<, Nat)
<1>1. IsWellFoundedOn(R, Nat)
  BY NatLessThanWellFounded
<1>2. \A x, y \in Nat : y < x => <<y, x>> \in R
  BY DEF OpToRel
<1> HIDE DEF R
<1>3. PICK x \in T : \A y \in T : ~(<<y, x>> \in R)
  BY <1>1, WFMin
<1>4. \A y \in T : ~(y < x)
  BY <1>2, <1>3
<1> QED
  BY <1>4

\* Induction on finite sets, from the smaller ones.
LEMMA SubsetInduction ==
    ASSUME NEW S, IsFiniteSet(S), NEW Good,
           \A s \in SUBSET S : (\A t \in SUBSET s : t # s => t \in Good) => s \in Good
    PROVE  SUBSET S \subseteq Good
<1> DEFINE Sizes == {Cardinality(s) : s \in (SUBSET S) \ Good}
<1> SUFFICES ASSUME (SUBSET S) \ Good # {} PROVE FALSE
  OBVIOUS
<1>1. \A s \in SUBSET S : IsFiniteSet(s) /\ Cardinality(s) \in Nat
  BY FS_Subset, FS_CardinalityType
<1>2. PICK s \in (SUBSET S) \ Good :
         \A t \in (SUBSET S) \ Good : Cardinality(t) >= Cardinality(s)
  <2>1. Sizes \in SUBSET Nat /\ Sizes # {}
    BY <1>1
  <2>2. PICK n \in Sizes : \A m \in Sizes : m >= n
    <3> HIDE DEF Sizes
    <3> QED
      BY <2>1, LeastOf
  <2> QED
    BY <2>2
<1>3. ASSUME NEW t \in SUBSET s, t # s
      PROVE  t \in Good
  <2>1. Cardinality(t) <= Cardinality(s) /\ Cardinality(t) # Cardinality(s)
    BY <1>1, <1>2, <1>3, FS_Subset
  <2>2. t \in SUBSET S /\ Cardinality(s) \in Nat /\ Cardinality(t) \in Nat
    BY <1>1, <1>2
  <2> QED
    BY <1>2, <2>1, <2>2
<1> QED
  BY <1>2, <1>3

\* A way to take one element after another out of the subsets of S.
Takes(ch, S) == \A s \in SUBSET S : s # {} => ch[s] \in s

\* Induction from each set to the one that Takes leaves.
LEMMA TakeInduction ==
    ASSUME NEW S, IsFiniteSet(S), NEW ch, Takes(ch, S), NEW Good, {} \in Good,
           \A s \in SUBSET S : s # {} /\ s \ {ch[s]} \in Good => s \in Good
    PROVE  SUBSET S \subseteq Good
<1>1. ASSUME NEW s \in SUBSET S, \A t \in SUBSET s : t # s => t \in Good
      PROVE  s \in Good
  BY <1>1 DEF Takes
<1> QED
  BY <1>1, SubsetInduction

\* The fold of a finite set, as the community modules define it: what it is on
\* each subset, from what it is on the subset without one element.
IsFold(iter, S, base, ch, step) ==
    iter = [s \in SUBSET S |-> IF s = {} THEN base
                               ELSE step[<<ch[s], iter[s \ {ch[s]}]>>]]

\* Such a function exists.
LEMMA FoldExists ==
    ASSUME NEW S, IsFiniteSet(S), NEW ch, Takes(ch, S), NEW base, NEW step
    PROVE  \E iter : IsFold(iter, S, base, ch, step)
<1> DEFINE Value(f, s) == IF s = {} THEN base ELSE step[<<ch[s], f[s \ {ch[s]}]>>]
           Upto(f, k) == \A s \in SUBSET S : Cardinality(s) <= k => f[s] = Value(f, s)
           Bad == {k \in Nat : ~\E f : f = [s \in SUBSET S |-> f[s]] /\ Upto(f, k)}
<1>1. \A s \in SUBSET S : IsFiniteSet(s) /\ Cardinality(s) \in Nat
  BY FS_Subset, FS_CardinalityType
<1>2. \A s \in SUBSET S : s # {} =>
         s \ {ch[s]} \in SUBSET S /\ Cardinality(s \ {ch[s]}) = Cardinality(s) - 1
  BY <1>1, FS_RemoveElement DEF Takes
<1>3. ASSUME NEW f, f = [s \in SUBSET S |-> f[s]], NEW k \in Nat, Upto(f, k)
      PROVE  \E g : g = [s \in SUBSET S |-> g[s]] /\ Upto(g, k + 1)
  <2> DEFINE g == [s \in SUBSET S |-> Value(f, s)]
  <2>1. ASSUME NEW s \in SUBSET S, Cardinality(s) <= k + 1
        PROVE  g[s] = Value(g, s)
    <3>1. CASE s = {}
      BY <3>1
    <3>2. CASE s # {}
      <4> DEFINE t == s \ {ch[s]}
      <4>1. t \in SUBSET S /\ Cardinality(t) <= k
        <5>1. Cardinality(t) = Cardinality(s) - 1 /\ t \in SUBSET S
          BY <1>2, <3>2
        <5>2. Cardinality(s) \in Nat
          BY <1>1
        <5> HIDE DEF t
        <5> QED
          BY <2>1, <5>1, <5>2
      <4>2. f[t] = Value(f, t)
        BY <1>3, <4>1
      <4>3. g[t] = f[t]
        BY <4>1, <4>2
      <4> HIDE DEF t
      <4> QED
        BY <3>2, <4>3 DEF t
    <3> QED
      BY <3>1, <3>2
  <2>2. g = [s \in SUBSET S |-> g[s]]
    OBVIOUS
  <2> HIDE DEF g
  <2> QED
    BY <2>1, <2>2
<1>4. Bad = {}
  <2> SUFFICES ASSUME Bad # {} PROVE FALSE
    OBVIOUS
  <2>1. PICK k \in Bad : \A m \in Bad : m >= k
    <3>1. Bad \in SUBSET Nat
      OBVIOUS
    <3> HIDE DEF Bad
    <3> QED
      BY <3>1, LeastOf
  <2>2. k # 0
    <3> DEFINE f == [s \in SUBSET S |-> base]
    <3>1. Upto(f, 0)
      BY <1>1, FS_Subset, FS_EmptySet
    <3>2. f = [s \in SUBSET S |-> f[s]]
      OBVIOUS
    <3> HIDE DEF f, Upto
    <3> QED
      BY <3>1, <3>2
  <2>3. k - 1 \in Nat /\ k - 1 \notin Bad
    <3>1. k \in Nat
      BY <2>1
    <3> HIDE DEF Bad
    <3> QED
      BY <2>1, <2>2, <3>1
  <2>4. PICK f : f = [s \in SUBSET S |-> f[s]] /\ Upto(f, k - 1)
    BY <2>3
  <2>5. \E g : g = [s \in SUBSET S |-> g[s]] /\ Upto(g, (k - 1) + 1)
    <3> HIDE DEF Upto
    <3> QED
      BY <1>3, <2>3, <2>4
  <2>6. (k - 1) + 1 = k
    OBVIOUS
  <2> HIDE DEF Upto
  <2> QED
    BY <2>5, <2>6
<1>5. Cardinality(S) \in Nat /\ Cardinality(S) \notin Bad
  BY <1>1, <1>4
<1>6. PICK f : f = [s \in SUBSET S |-> f[s]] /\ Upto(f, Cardinality(S))
  BY <1>5
<1>7. \A s \in SUBSET S : f[s] = Value(f, s)
  BY <1>6, FS_Subset
<1>8. f = [s \in SUBSET S |-> Value(f, s)]
  <2> HIDE DEF Value
  <2> QED
    BY <1>6, <1>7
<1> QED
  BY <1>8 DEF IsFold

\* Sums: MapThenSumSet, with the summands as a function.
IsSum(iter, w, S) ==
    iter = [s \in SUBSET S |->
               IF s = {} THEN 0
               ELSE w[CHOOSE x \in s : TRUE] + iter[s \ {CHOOSE x \in s : TRUE}]]

LEMMA SumExists ==
    ASSUME NEW S, IsFiniteSet(S), NEW w \in [S -> Nat]
    PROVE  \E f : IsSum(f, w, S)
<1> DEFINE ch == [s \in SUBSET S |-> CHOOSE x \in s : TRUE]
           step == [p \in S \X Nat |-> w[p[1]] + p[2]]
<1>1. Takes(ch, S)
  BY DEF Takes
<1>2. PICK f : IsFold(f, S, 0, ch, step)
  BY <1>1, FoldExists
<1>3. \A s \in SUBSET S : f[s] = IF s = {} THEN 0 ELSE step[<<ch[s], f[s \ {ch[s]}]>>]
  BY <1>2 DEF IsFold
<1>4. \A x \in S, n \in Nat : step[<<x, n>>] = w[x] + n
  OBVIOUS
<1>5. \A s \in SUBSET S : s # {} => ch[s] \in S /\ s \ {ch[s]} \in SUBSET S
  OBVIOUS
<1>6. \A s \in SUBSET S : f[s] \in Nat
  <2> DEFINE Good == {s \in SUBSET S : f[s] \in Nat}
  <2> HIDE DEF ch, step
  <2>1. {} \in Good
    <3>1. {} \in SUBSET S
      OBVIOUS
    <3>2. f[{}] = 0
      BY <1>3, <3>1, Zenon
    <3> QED
      BY <3>1, <3>2
  <2>2. ASSUME NEW s \in SUBSET S, s # {}, s \ {ch[s]} \in Good
        PROVE  s \in Good
    <3> DEFINE t == s \ {ch[s]}
    <3>1. f[s] = step[<<ch[s], f[t]>>]
      BY <1>3, <2>2
    <3>2. ch[s] \in S /\ f[t] \in Nat
      BY <1>5, <2>2
    <3>3. f[s] = w[ch[s]] + f[t] /\ w[ch[s]] \in Nat
      <4> HIDE DEF t
      <4> QED
        BY <1>4, <3>1, <3>2
    <3> HIDE DEF t
    <3>4. f[s] \in Nat
      BY <3>2, <3>3
    <3> QED
      BY <3>4
  <2> HIDE DEF Good
  <2>3. SUBSET S \subseteq Good
    BY <1>1, <2>1, <2>2, TakeInduction
  <2> QED
    BY <2>3 DEF Good
<1>7. \A s \in SUBSET S : s # {} => f[s] = w[ch[s]] + f[s \ {ch[s]}]
  <2> HIDE DEF ch, step
  <2> QED
    BY <1>3, <1>4, <1>5, <1>6
<1>8. \A s \in SUBSET S :
         f[s] = IF s = {} THEN 0
                ELSE w[CHOOSE x \in s : TRUE] + f[s \ {CHOOSE x \in s : TRUE}]
  BY <1>3, <1>7
<1>9. f = [s \in SUBSET S |-> f[s]]
  BY <1>2 DEF IsFold
<1> DEFINE Total(s) == IF s = {} THEN 0
                       ELSE w[CHOOSE x \in s : TRUE] + f[s \ {CHOOSE x \in s : TRUE}]
<1>10. f = [s \in SUBSET S |-> Total(s)]
  <2>1. \A s \in SUBSET S : f[s] = Total(s)
    BY <1>8
  <2> HIDE DEF Total
  <2> QED
    BY <1>9, <2>1
<1> QED
  BY <1>10 DEF IsSum

\* A sum is that of the others and of any one.
LEMMA SumWithout ==
    ASSUME NEW S, IsFiniteSet(S), NEW w \in [S -> Nat], NEW f, IsSum(f, w, S)
    PROVE  \A s \in SUBSET S : /\ f[s] \in Nat
                              /\ \A x \in s : f[s] = w[x] + f[s \ {x}]
<1> DEFINE Good == {s \in SUBSET S : f[s] \in Nat /\ \A x \in s : f[s] = w[x] + f[s \ {x}]}
<1>1. ASSUME NEW s \in SUBSET S, \A t \in SUBSET s : t # s => t \in Good
      PROVE  s \in Good
  <2>1. CASE s = {}
    BY <2>1 DEF IsSum
  <2>2. CASE s # {}
    <3> DEFINE y == CHOOSE x \in s : TRUE
    <3>1. y \in s /\ y \in S /\ w[y] \in Nat
      BY <2>2
    <3>2. f[s] = w[y] + f[s \ {y}]
      BY <2>2 DEF IsSum
    <3> HIDE DEF y
    <3>3. s \ {y} \in Good
      BY <1>1, <3>1
    <3>4. ASSUME NEW x \in s
          PROVE  f[s] = w[x] + f[s \ {x}]
      <4>1. CASE x = y
        BY <3>2, <4>1
      <4>2. CASE x # y
        <5> DEFINE u == (s \ {x}) \ {y}
        <5>1. s \ {x} \in Good
          BY <1>1
        <5>2. f[s \ {y}] = w[x] + f[(s \ {y}) \ {x}]
          BY <3>3, <4>2
        <5>3. f[s \ {x}] = w[y] + f[u]
          BY <3>1, <4>2, <5>1
        <5>4. (s \ {y}) \ {x} = u
          OBVIOUS
        <5>5. u \in SUBSET s /\ u # s
          BY <3>1
        <5>6. f[u] \in Nat /\ w[x] \in Nat
          BY <1>1, <5>5
        <5>7. f[s \ {y}] = w[x] + f[u]
          BY <5>2, <5>4
        <5> HIDE DEF u
        <5> DEFINE a == f[s \ {y}]
                   b == f[s \ {x}]
        <5>8. f[s] = w[y] + a /\ a = w[x] + f[u] /\ b = w[y] + f[u]
          BY <3>2, <5>3, <5>7
        <5> HIDE DEF a, b
        <5>9. f[s] = w[x] + b
          BY <3>1, <5>6, <5>8
        <5> QED
          BY <5>9 DEF b
      <4> QED
        BY <4>1, <4>2
    <3>5. f[s] \in Nat
      BY <3>1, <3>2, <3>3
    <3> QED
      BY <3>4, <3>5
  <2> QED
    BY <2>1, <2>2
<1> HIDE DEF Good
<1>2. SUBSET S \subseteq Good
  BY <1>1, SubsetInduction
<1> QED
  BY <1>2 DEF Good

\* It does not matter of what larger set it is a part.
LEMMA SumAlike ==
    ASSUME NEW T, IsFiniteSet(T), NEW S \in SUBSET T, NEW v, NEW w,
           \A x \in S : v[x] = w[x], NEW f, NEW g, IsSum(f, v, S), IsSum(g, w, T)
    PROVE  f[S] = g[S]
<1> DEFINE Good == {s \in SUBSET S : f[s] = g[s]}
<1>1. ASSUME NEW s \in SUBSET S, \A t \in SUBSET s : t # s => t \in Good
      PROVE  s \in Good
  <2>1. CASE s = {}
    BY <2>1 DEF IsSum
  <2>2. CASE s # {}
    <3> DEFINE y == CHOOSE x \in s : TRUE
    <3>1. f[s] = v[y] + f[s \ {y}] /\ g[s] = w[y] + g[s \ {y}]
      BY <2>2 DEF IsSum
    <3>2. y \in s
      BY <2>2
    <3> HIDE DEF y
    <3>3. s \ {y} \in Good
      BY <1>1, <3>2
    <3> QED
      BY <3>1, <3>2, <3>3
  <2> QED
    BY <2>1, <2>2
<1>2. IsFiniteSet(S)
  BY FS_Subset
<1> HIDE DEF Good
<1>3. SUBSET S \subseteq Good
  BY <1>1, <1>2, SubsetInduction
<1> QED
  BY <1>3 DEF Good

\* One summand more.
LEMMA SumGrows ==
    ASSUME NEW S, IsFiniteSet(S), NEW e, e \notin S, NEW T, T = S \union {e},
           NEW v, NEW w \in [T -> Nat], \A x \in S : v[x] = w[x],
           NEW f, NEW g, IsSum(f, v, S), IsSum(g, w, T)
    PROVE  f[S] \in Nat /\ g[T] = f[S] + w[e]
<1>1. IsFiniteSet(T) /\ S \in SUBSET T /\ T \ {e} = S /\ e \in T
  BY FS_AddElement
<1>2. f[S] = g[S]
  BY <1>1, SumAlike
<1>3. \A s \in SUBSET T : g[s] \in Nat /\ \A x \in s : g[s] = w[x] + g[s \ {x}]
  BY <1>1, SumWithout
<1>4. g[T] = w[e] + g[T \ {e}] /\ g[S] \in Nat
  BY <1>1, <1>3
<1>5. w[e] \in Nat
  BY <1>1
<1> DEFINE total == g[T]
           rest == g[S]
<1>6. total = w[e] + rest /\ rest \in Nat
  BY <1>1, <1>4
<1> HIDE DEF total, rest
<1>7. total = rest + w[e]
  BY <1>5, <1>6
<1> QED
  BY <1>2, <1>4, <1>7 DEF total, rest

\* More of something finite is a greater number.
LEMMA MoreIsGreater ==
    ASSUME NEW S, NEW T, IsFiniteSet(T), S \subseteq T
    PROVE  /\ Cardinality(S) \in Nat /\ Cardinality(T) \in Nat
           /\ Cardinality(T) > Cardinality(S) <=> T \ S # {}
<1>1. IsFiniteSet(S) /\ Cardinality(S) <= Cardinality(T) /\ (Cardinality(S) = Cardinality(T) => S = T)
  BY FS_Subset
<1>2. Cardinality(S) \in Nat /\ Cardinality(T) \in Nat
  BY <1>1, FS_CardinalityType
<1>3. T \ S = {} <=> S = T
  OBVIOUS
<1> QED
  BY <1>1, <1>2, <1>3
-----------------------------------------------------------------------------
(* The index. *)

Pair == Call \X Band
Value == UNION {Values(q) : q \in Row}

IndexState == [worked : SUBSET Pair, scored : SUBSET Pair, calls : SUBSET Call,
               values : SUBSET Value, points : SUBSET (Pair \X Nat), times : Seq(Times)]

\* An index of finitely many credits, each of a contact that counts.
WellFormed(x) ==
    /\ IsFiniteSet(x.calls) /\ IsFiniteSet(x.values) /\ IsFiniteSet(x.points)
    /\ \A p \in x.points : p[1] \in x.scored /\ p[1][1] \in x.calls

\* Of some contacts, those that may count and those that do.
Scoring(S) == {q \in S : ~q.unscored}
Credit(S) ==
    {q \in S : /\ ~q.unscored
               /\ ~\E p \in S : /\ ~p.unscored /\ Before(p, q)
                                /\ p.call = q.call /\ (scope = "call" \/ p.band = q.band)}

\* What an index that has met the contacts of S holds of them in any order.
Seen(S, x) ==
    /\ x.worked = {Key(q) : q \in S}
    /\ {x.times[i] : i \in DOMAIN x.times} = {q.time : q \in S}
    /\ IF scope = "call" THEN x.calls = {q.call : q \in Scoring(S)}
       ELSE x.scored = {Key(q) : q \in Scoring(S)}

\* What it holds of them when it has met them in the order of their times.
Counts(S, x, s) ==
    /\ x.scored = {Key(q) : q \in Credit(S)}
    /\ x.values = UNION {Values(q) : q \in Credit(S)}
    /\ x.points = {<<Key(q), Tier[s][q.exch]>> : q \in Credit(S)}

\* What a contact adds to the index, field by field.
LEMMA Recorded ==
    ASSUME NEW x \in IndexState, NEW q, NEW s
    PROVE  LET new == Record(x, q, s)
               counts == ~q.unscored /\ ~Duplicate(x, q)
           IN  /\ new.worked = x.worked \union {Key(q)}
               /\ new.times = Append(x.times, q.time)
               /\ counts => /\ new.scored = x.scored \union {Key(q)}
                            /\ new.calls = x.calls \union {q.call}
                            /\ new.values = x.values \union Values(q)
                            /\ new.points = x.points \union {<<Key(q), Tier[s][q.exch]>>}
               /\ ~counts => /\ new.scored = x.scored /\ new.calls = x.calls
                             /\ new.values = x.values /\ new.points = x.points
               /\ new = [worked |-> new.worked, scored |-> new.scored, calls |-> new.calls,
                         values |-> new.values, points |-> new.points, times |-> new.times]
<1> DEFINE seen == [worked |-> x.worked \union {Key(q)}, scored |-> x.scored,
                    calls |-> x.calls, values |-> x.values, points |-> x.points,
                    times |-> Append(x.times, q.time)]
<1>1. [x EXCEPT !.worked = @ \union {Key(q)}, !.times = Append(@, q.time)] = seen
  <2> DEFINE w == x.worked \union {Key(q)}
             t == Append(x.times, q.time)
             y == [x EXCEPT !.worked = w, !.times = t]
  <2>1. y \in [worked : {w}, scored : {x.scored}, calls : {x.calls}, values : {x.values},
               points : {x.points}, times : {t}]
    <3> HIDE DEF w, t
    <3> QED
      BY DEF IndexState
  <2>2. y = [worked |-> w, scored |-> x.scored, calls |-> x.calls, values |-> x.values,
             points |-> x.points, times |-> t]
    <3> HIDE DEF w, t, y
    <3> QED
      BY <2>1
  <2> QED
    BY <2>2
<1>2. CASE q.unscored \/ Duplicate(x, q)
  <2>1. Record(x, q, s) = seen
    BY <1>1, <1>2 DEF Record
  <2> QED
    BY <1>2, <2>1
<1>3. CASE ~q.unscored /\ ~Duplicate(x, q)
  <2>1. Record(x, q, s) = [worked |-> x.worked \union {Key(q)},
                           scored |-> x.scored \union {Key(q)},
                           calls |-> x.calls \union {q.call},
                           values |-> x.values \union Values(q),
                           points |-> x.points \union {<<Key(q), Tier[s][q.exch]>>},
                           times |-> Append(x.times, q.time)]
    BY <1>1, <1>3 DEF Record
  <2> QED
    BY <1>3, <2>1
<1> QED
  BY <1>2, <1>3

\* A contact is finitely many values.
LEMMA ValuesFinite ==
    ASSUME NEW q \in Row
    PROVE  IsFiniteSet(Values(q)) /\ Values(q) \subseteq Value
<1>1. IsFiniteSet({<<"prefix", q.band, Prefix[q.call]>>})
  BY FS_Singleton
<1>2. IsFiniteSet({<<"prefix", q.band, Prefix[q.call]>>} \union {<<"exchange", q.band, q.exch>>})
  BY <1>1, FS_AddElement
<1>3. Values(q) \in { {<<"prefix", q.band, Prefix[q.call]>>},
                     {<<"prefix", q.band, Prefix[q.call]>>} \union {<<"exchange", q.band, q.exch>>} }
  BY DEF Values
<1>4. Values(q) \subseteq Value
  BY DEF Value
<1> QED
  BY <1>1, <1>2, <1>3, <1>4

LEMMA RecordType ==
    ASSUME NEW x \in IndexState, NEW q \in Row, NEW s \in Station
    PROVE  Record(x, q, s) \in IndexState /\ (WellFormed(x) => WellFormed(Record(x, q, s)))
<1> DEFINE new == Record(x, q, s)
           point == <<Key(q), Tier[s][q.exch]>>
<1>1. Key(q) \in Pair /\ q.call \in Call /\ q.time \in Times
  BY DEF Key, Pair, Row
<1>2. point \in Pair \X Nat
  <2>1. Tier[s][q.exch] \in Nat
    BY IndexConstantsOK DEF Row
  <2> QED
    BY <1>1, <2>1
<1>3. Values(q) \subseteq Value
  BY ValuesFinite
<1> HIDE DEF new, point
<1>4. /\ x.worked \subseteq Pair /\ x.scored \subseteq Pair /\ x.calls \subseteq Call
      /\ x.values \subseteq Value /\ x.points \subseteq Pair \X Nat /\ x.times \in Seq(Times)
  BY DEF IndexState
<1>5. /\ new.worked = x.worked \union {Key(q)} /\ new.times = Append(x.times, q.time)
      /\ new.scored \in {x.scored, x.scored \union {Key(q)}}
      /\ new.calls \in {x.calls, x.calls \union {q.call}}
      /\ new.values \in {x.values, x.values \union Values(q)}
      /\ new.points \in {x.points, x.points \union {point}}
      /\ new = [worked |-> new.worked, scored |-> new.scored, calls |-> new.calls,
                values |-> new.values, points |-> new.points, times |-> new.times]
  BY Recorded DEF new, point
<1>6. new \in IndexState
  <2>1. /\ new.worked \subseteq Pair /\ new.scored \subseteq Pair /\ new.calls \subseteq Call
        /\ new.values \subseteq Value /\ new.points \subseteq Pair \X Nat
    BY <1>1, <1>2, <1>3, <1>4, <1>5
  <2>2. new.times \in Seq(Times)
    BY <1>1, <1>4, <1>5
  <2> QED
    BY <1>5, <2>1, <2>2 DEF IndexState
<1>7. ASSUME WellFormed(x)
      PROVE  WellFormed(new)
  <2>1. IsFiniteSet(new.calls)
    <3>1. IsFiniteSet(x.calls) /\ IsFiniteSet(x.calls \union {q.call})
      BY <1>7, FS_AddElement DEF WellFormed
    <3> QED
      BY <1>5, <3>1
  <2>2. IsFiniteSet(new.values)
    <3>1. IsFiniteSet(x.values) /\ IsFiniteSet(x.values \union Values(q))
      BY <1>7, ValuesFinite, FS_Union DEF WellFormed
    <3> QED
      BY <1>5, <3>1
  <2>3. IsFiniteSet(new.points)
    <3>1. IsFiniteSet(x.points) /\ IsFiniteSet(x.points \union {point})
      BY <1>7, FS_AddElement DEF WellFormed
    <3> QED
      BY <1>5, <3>1
  <2>4. ASSUME NEW p \in new.points
        PROVE  p[1] \in new.scored /\ p[1][1] \in new.calls
    <3>1. CASE ~q.unscored /\ ~Duplicate(x, q)
      <4>1. /\ new.scored = x.scored \union {Key(q)} /\ new.calls = x.calls \union {q.call}
            /\ new.points = x.points \union {point}
        BY <3>1, Recorded DEF new, point
      <4>2. point[1] = Key(q) /\ Key(q)[1] = q.call
        BY DEF point, Key
      <4> QED
        BY <1>7, <2>4, <4>1, <4>2 DEF WellFormed
    <3>2. CASE ~(~q.unscored /\ ~Duplicate(x, q))
      <4>1. new.scored = x.scored /\ new.calls = x.calls /\ new.points = x.points
        BY <3>2, Recorded DEF new
      <4> QED
        BY <1>7, <2>4, <4>1 DEF WellFormed
    <3> QED
      BY <3>1, <3>2
  <2> QED
    BY <2>1, <2>2, <2>3, <2>4 DEF WellFormed
<1> QED
  BY <1>6, <1>7 DEF new

\* Contacts with different numbers are in an order.
OwnNumbers(S) == \A p, q \in S : p.id = q.id => p = q

LEMMA BeforeOrders ==
    ASSUME NEW p \in Row, NEW q \in Row
    PROVE  /\ ~(Before(p, q) /\ Before(q, p))
           /\ p.id # q.id => Before(p, q) \/ Before(q, p)
<1>1. p.time \in Nat /\ q.time \in Nat /\ p.id \in Nat /\ q.id \in Nat
  BY IndexConstantsOK DEF Row, Times
<1> QED
  BY <1>1 DEF Before

\* So some of them have a latest.
LEMMA LatestOK ==
    ASSUME NEW S \in SUBSET Row, S # {}, OwnNumbers(S)
    PROVE  Latest(S) \in S /\ \A p \in S \ {Latest(S)} : Before(p, Latest(S))
<1>1. \A q \in Row : q.time \in 0..MaxEvents /\ q.id \in 1..MaxRows
  BY DEF Row, Times
<1>2. MaxEvents \in Nat /\ MaxRows \in Nat
  BY IndexConstantsOK
<1>3. PICK r \in S : \A q \in S : q.time <= r.time
  <2> DEFINE T == {MaxEvents - q.time : q \in S}
  <2>1. T \in SUBSET Nat /\ T # {}
    BY <1>1, <1>2
  <2>2. PICK n \in T : \A m \in T : m >= n
    <3> HIDE DEF T
    <3> QED
      BY <2>1, LeastOf
  <2>3. PICK r \in S : n = MaxEvents - r.time
    BY <2>2
  <2>4. ASSUME NEW q \in S PROVE q.time <= r.time
    <3>1. MaxEvents - q.time >= MaxEvents - r.time
      BY <2>2, <2>3
    <3>2. q.time \in Nat /\ r.time \in Nat
      BY <1>1
    <3> QED
      BY <1>2, <3>1, <3>2
  <2> QED
    BY <2>4
<1>4. PICK q \in {p \in S : p.time = r.time} :
         \A p \in {p \in S : p.time = r.time} : p.id <= q.id
  <2> DEFINE U == {p \in S : p.time = r.time}
             T == {MaxRows - p.id : p \in U}
  <2>1. T \in SUBSET Nat /\ T # {}
    BY <1>1, <1>2
  <2>2. PICK n \in T : \A m \in T : m >= n
    <3> HIDE DEF T
    <3> QED
      BY <2>1, LeastOf
  <2>3. PICK q \in U : n = MaxRows - q.id
    BY <2>2
  <2>4. ASSUME NEW p \in U PROVE p.id <= q.id
    <3>1. MaxRows - p.id >= MaxRows - q.id
      BY <2>2, <2>3
    <3>2. p.id \in Nat /\ q.id \in Nat
      BY <1>1
    <3> QED
      BY <1>2, <3>1, <3>2
  <2> QED
    BY <2>4
<1>5. \A p \in S \ {q} : Before(p, q)
  <2> SUFFICES ASSUME NEW p \in S \ {q} PROVE Before(p, q)
    OBVIOUS
  <2>1. /\ p.time \in Nat /\ q.time \in Nat /\ p.id \in Nat /\ q.id \in Nat
        /\ p.id # q.id /\ q.time = r.time /\ p.time <= r.time
    BY <1>1, <1>3, <1>4 DEF OwnNumbers
  <2>2. p.time = r.time => p.id <= q.id
    BY <1>4
  <2> QED
    BY <2>1, <2>2 DEF Before
<1>6. q \in S
  BY <1>4
<1> QED
  BY <1>5, <1>6, Zenon DEF Latest

\* A contact recorded has been seen.
LEMMA RecordSeen ==
    ASSUME NEW x \in IndexState, NEW S \in SUBSET Row, NEW m \in Row, NEW s, Seen(S, x)
    PROVE  Seen(S \union {m}, Record(x, m, s))
<1> DEFINE new == Record(x, m, s)
           T == S \union {m}
<1>1. new.worked = {Key(q) : q \in T}
  BY Recorded DEF Seen
<1>2. {new.times[i] : i \in DOMAIN new.times} = {q.time : q \in T}
  <2>1. x.times \in Seq(Times) /\ m.time \in Times /\ new.times = Append(x.times, m.time)
    BY Recorded DEF IndexState, Row
  <2> HIDE DEF new
  <2>2. /\ DOMAIN new.times = 1..Len(x.times) + 1 /\ DOMAIN x.times = 1..Len(x.times)
        /\ Len(x.times) \in Nat
        /\ new.times[Len(x.times) + 1] = m.time
        /\ \A i \in 1..Len(x.times) : new.times[i] = x.times[i]
    BY <2>1
  <2>3. {new.times[i] : i \in DOMAIN new.times} = {x.times[i] : i \in DOMAIN x.times} \union {m.time}
    BY <2>2
  <2>4. {q.time : q \in T} = {q.time : q \in S} \union {m.time}
    OBVIOUS
  <2> QED
    BY <2>3, <2>4 DEF Seen
<1>3. Scoring(T) = IF m.unscored THEN Scoring(S) ELSE Scoring(S) \union {m}
  BY DEF Scoring
<1>4. CASE scope = "call"
  <2>1. x.calls = {q.call : q \in Scoring(S)}
    BY <1>4 DEF Seen
  <2>2. Duplicate(x, m) <=> m.call \in x.calls
    BY <1>4 DEF Duplicate
  <2>3. new.calls = IF m.unscored THEN x.calls ELSE x.calls \union {m.call}
    <3>1. ~m.unscored /\ ~Duplicate(x, m) => new.calls = x.calls \union {m.call}
      BY Recorded
    <3>2. m.unscored \/ Duplicate(x, m) => new.calls = x.calls
      BY Recorded
    <3>3. Duplicate(x, m) => x.calls \union {m.call} = x.calls
      BY <2>2
    <3> QED
      BY <3>1, <3>2, <3>3
  <2> HIDE DEF new, T
  <2>4. new.calls = {q.call : q \in Scoring(T)}
    BY <1>3, <2>1, <2>3
  <2> QED
    BY <1>1, <1>2, <1>4, <2>4 DEF Seen, new, T
<1>5. CASE scope # "call"
  <2>1. x.scored = {Key(q) : q \in Scoring(S)}
    BY <1>5 DEF Seen
  <2>2. Duplicate(x, m) <=> Key(m) \in x.scored
    BY <1>5 DEF Duplicate
  <2>3. new.scored = IF m.unscored THEN x.scored ELSE x.scored \union {Key(m)}
    <3>1. ~m.unscored /\ ~Duplicate(x, m) => new.scored = x.scored \union {Key(m)}
      BY Recorded
    <3>2. m.unscored \/ Duplicate(x, m) => new.scored = x.scored
      BY Recorded
    <3>3. Duplicate(x, m) => x.scored \union {Key(m)} = x.scored
      BY <2>2
    <3> QED
      BY <3>1, <3>2, <3>3
  <2> HIDE DEF new, T
  <2>4. new.scored = {Key(q) : q \in Scoring(T)}
    BY <1>3, <2>1, <2>3
  <2> QED
    BY <1>1, <1>2, <1>5, <2>4 DEF Seen, new, T
<1> QED
  BY <1>4, <1>5

\* One that is recorded after all earlier ones counts when it has to.
LEMMA RecordCounts ==
    ASSUME NEW x \in IndexState, NEW S \in SUBSET Row, NEW m \in Row, NEW s,
           Seen(S, x), Counts(S, x, s), \A p \in S : Before(p, m)
    PROVE  Counts(S \union {m}, Record(x, m, s), s)
<1> DEFINE new == Record(x, m, s)
           T == S \union {m}
           Same(p, q) == p.call = q.call /\ (scope = "call" \/ p.band = q.band)
<1>1. Duplicate(x, m) <=> \E p \in Scoring(S) : Same(p, m)
  <2>1. CASE scope = "call"
    BY <2>1 DEF Duplicate, Seen
  <2>2. CASE scope # "call"
    <3>1. Duplicate(x, m) <=> Key(m) \in {Key(q) : q \in Scoring(S)}
      BY <2>2 DEF Duplicate, Seen
    <3>2. \A p : Key(m) = Key(p) <=> p.call = m.call /\ p.band = m.band
      BY DEF Key
    <3> QED
      BY <2>2, <3>1, <3>2
  <2> QED
    BY <2>1, <2>2
<1>2. ~Before(m, m) /\ \A p \in S : ~Before(m, p) /\ Before(p, m)
  BY BeforeOrders
<1>3. Credit(T) = Credit(S) \union (IF m.unscored \/ Duplicate(x, m) THEN {} ELSE {m})
  <2>1. ASSUME NEW q \in S
        PROVE  q \in Credit(T) <=> q \in Credit(S)
    BY <1>2 DEF Credit
  <2>2. m \in Credit(T) <=> ~m.unscored /\ ~\E p \in S : ~p.unscored /\ Same(p, m)
    BY <1>2 DEF Credit
  <2>3. m \in Credit(T) <=> ~(m.unscored \/ Duplicate(x, m))
    BY <1>1, <2>2 DEF Scoring
  <2>4. Credit(T) \subseteq T /\ Credit(S) \subseteq S /\ m \notin S
    BY <1>2 DEF Credit
  <2> HIDE DEF T
  <2>5. T = S \union {m}
    BY DEF T
  <2> QED
    BY <2>1, <2>3, <2>4, <2>5
<1>4. CASE m.unscored \/ Duplicate(x, m)
  <2>1. new.scored = x.scored /\ new.values = x.values /\ new.points = x.points
    BY <1>4, Recorded
  <2>2. Credit(T) = Credit(S)
    BY <1>3, <1>4
  <2> HIDE DEF new, T
  <2> QED
    BY <2>1, <2>2 DEF Counts, new, T
<1>5. CASE ~(m.unscored \/ Duplicate(x, m))
  <2>1. /\ new.scored = x.scored \union {Key(m)}
        /\ new.values = x.values \union Values(m)
        /\ new.points = x.points \union {<<Key(m), Tier[s][m.exch]>>}
    BY <1>5, Recorded
  <2>2. Credit(T) = Credit(S) \union {m}
    BY <1>3, <1>5
  <2> HIDE DEF new, T
  <2>3. new.scored = {Key(q) : q \in Credit(T)}
    BY <2>1, <2>2 DEF Counts
  <2>4. new.values = UNION {Values(q) : q \in Credit(T)}
    BY <2>1, <2>2 DEF Counts
  <2>5. new.points = {<<Key(q), Tier[s][q.exch]>> : q \in Credit(T)}
    BY <2>1, <2>2 DEF Counts
  <2> QED
    BY <2>3, <2>4, <2>5 DEF Counts, new, T
<1> QED
  BY <1>4, <1>5

\* What buildContestState makes of each part of the contacts.
IsIndex(iter, S, s) ==
    iter = [t \in SUBSET S |-> IF t = {} THEN Empty
                               ELSE Record(iter[t \ {Latest(t)}], Latest(t), s)]

LEMMA EmptyOK ==
    /\ Empty \in IndexState /\ WellFormed(Empty)
    /\ Seen({}, Empty) /\ \A s : Counts({}, Empty, s)
<1>1. Empty \in IndexState
  BY DEF Empty, IndexState
<1>2. WellFormed(Empty)
  BY FS_EmptySet DEF Empty, WellFormed
<1>3. Seen({}, Empty)
  BY DEF Empty, Seen, Scoring
<1>4. \A s : Counts({}, Empty, s)
  BY DEF Empty, Counts, Credit
<1> QED
  BY <1>1, <1>2, <1>3, <1>4

LEMMA IndexExists ==
    ASSUME NEW S \in SUBSET Row, IsFiniteSet(S), OwnNumbers(S), NEW s \in Station
    PROVE  \E f : IsIndex(f, S, s)
<1> DEFINE ch == [t \in SUBSET S |-> Latest(t)]
           step == [p \in S \X IndexState |-> Record(p[2], p[1], s)]
<1>1. \A t \in SUBSET S : t # {} => Latest(t) \in t /\ ch[t] = Latest(t)
  BY LatestOK DEF OwnNumbers
<1>2. Takes(ch, S)
  BY <1>1 DEF Takes
<1>3. PICK f : IsFold(f, S, Empty, ch, step)
  BY <1>2, FoldExists
<1>4. \A t \in SUBSET S : f[t] = IF t = {} THEN Empty ELSE step[<<ch[t], f[t \ {ch[t]}]>>]
  BY <1>3 DEF IsFold
<1>5. \A q \in S, x \in IndexState : step[<<q, x>>] = Record(x, q, s) /\ step[<<q, x>>] \in IndexState
  BY RecordType
<1> HIDE DEF ch, step
<1>6. \A t \in SUBSET S : f[t] \in IndexState
  <2> DEFINE Good == {t \in SUBSET S : f[t] \in IndexState}
  <2>1. {} \in Good
    <3>1. {} \in SUBSET S
      OBVIOUS
    <3>2. f[{}] = Empty
      BY <1>4, <3>1, Zenon
    <3> QED
      BY <3>1, <3>2, EmptyOK
  <2>2. ASSUME NEW t \in SUBSET S, t # {}, t \ {ch[t]} \in Good
        PROVE  t \in Good
    <3>1. f[t] = step[<<ch[t], f[t \ {ch[t]}]>>]
      BY <1>4, <2>2
    <3>2. ch[t] \in S /\ f[t \ {ch[t]}] \in IndexState
      BY <1>1, <2>2
    <3>3. f[t] \in IndexState
      BY <1>5, <3>1, <3>2
    <3> QED
      BY <3>3
  <2> HIDE DEF Good
  <2>3. SUBSET S \subseteq Good
    BY <1>2, <2>1, <2>2, TakeInduction
  <2> QED
    BY <2>3 DEF Good
<1> DEFINE At(t) == IF t = {} THEN Empty ELSE Record(f[t \ {Latest(t)}], Latest(t), s)
<1>7. ASSUME NEW t \in SUBSET S
      PROVE  f[t] = At(t)
  <2>1. CASE t = {}
    BY <1>4, <2>1
  <2>2. CASE t # {}
    <3>1. f[t] = step[<<Latest(t), f[t \ {Latest(t)}]>>] /\ Latest(t) \in S
      BY <1>1, <1>4, <2>2
    <3>2. t \ {Latest(t)} \in SUBSET S
      OBVIOUS
    <3>3. f[t \ {Latest(t)}] \in IndexState
      BY <1>6, <3>2
    <3> QED
      BY <1>5, <2>2, <3>1, <3>3
  <2> QED
    BY <2>1, <2>2
<1>8. f = [t \in SUBSET S |-> f[t]]
  BY <1>3 DEF IsFold
<1>9. f = [t \in SUBSET S |-> At(t)]
  <2> HIDE DEF At
  <2> QED
    BY <1>7, <1>8
<1> QED
  BY <1>9 DEF IsIndex

\* An index built from the log is that of its contacts.
LEMMA BuiltOK ==
    ASSUME NEW log \in SUBSET Row, IsFiniteSet(log), OwnNumbers(log), NEW c, NEW s \in Station
    PROVE  LET S == {q \in log : q.contest = c}
               x == Built(log, c, s)
           IN  x \in IndexState /\ WellFormed(x) /\ Seen(S, x) /\ Counts(S, x, s)
<1> DEFINE S == {q \in log : q.contest = c}
           ch == [t \in SUBSET S |-> Latest(t)]
<1>1. S \in SUBSET Row /\ IsFiniteSet(S) /\ OwnNumbers(S)
  BY FS_Subset DEF OwnNumbers
<1>2. PICK f : IsIndex(f, S, s) /\ Built(log, c, s) = f[S]
  <2>1. \E f : IsIndex(f, S, s)
    BY <1>1, IndexExists
  <2> QED
    BY <2>1, Zenon DEF Built, MapThenFoldSet, IsIndex
<1> HIDE DEF S
<1>3. \A t \in SUBSET S : f[t] = IF t = {} THEN Empty ELSE Record(f[t \ {Latest(t)}], Latest(t), s)
  BY <1>2 DEF IsIndex
<1>4. \A t \in SUBSET S : t # {} =>
         /\ Latest(t) \in t /\ ch[t] = Latest(t)
         /\ \A p \in t \ {Latest(t)} : Before(p, Latest(t))
  BY <1>1, LatestOK DEF OwnNumbers
<1>5. Takes(ch, S)
  BY <1>4 DEF Takes
<1> HIDE DEF ch
<1> DEFINE Fine(t) == f[t] \in IndexState /\ WellFormed(f[t]) /\ Seen(t, f[t]) /\ Counts(t, f[t], s)
           Good == {t \in SUBSET S : Fine(t)}
<1>6. {} \in Good
  <2>1. {} \in SUBSET S
    OBVIOUS
  <2>2. f[{}] = Empty
    BY <1>3, <2>1, Zenon
  <2> QED
    BY <2>1, <2>2, EmptyOK
<1>7. ASSUME NEW t \in SUBSET S, t # {}, t \ {ch[t]} \in Good
      PROVE  t \in Good
  <2> DEFINE m == Latest(t)
             u == t \ {m}
  <2>1. m \in t /\ m \in Row /\ u \in SUBSET Row /\ t = u \union {m} /\ \A p \in u : Before(p, m)
    BY <1>1, <1>4, <1>7
  <2>2. f[t] = Record(f[u], m, s)
    BY <1>3, <1>7
  <2>3. Fine(u)
    BY <1>4, <1>7
  <2> HIDE DEF m, u
  <2>4. f[t] \in IndexState /\ WellFormed(f[t])
    BY <2>1, <2>2, <2>3, RecordType
  <2>5. Seen(t, f[t])
    BY <2>1, <2>2, <2>3, RecordSeen
  <2>6. Counts(t, f[t], s)
    BY <2>1, <2>2, <2>3, RecordCounts
  <2> QED
    BY <2>4, <2>5, <2>6
<1> HIDE DEF Good, Fine
<1>8. SUBSET S \subseteq Good
  BY <1>1, <1>5, <1>6, <1>7, TakeInduction
<1>9. Fine(S)
  BY <1>8 DEF Good
<1> QED
  BY <1>2, <1>9 DEF Fine, S
-----------------------------------------------------------------------------
(* The log. *)

\* A log of finitely many contacts, numbered below next.
LogOK(log, next) ==
    /\ log \subseteq Row /\ IsFiniteSet(log) /\ OwnNumbers(log)
    /\ \A q \in log : q.id < next

\* Of a log: no two imported contacts are the same.
Once(log) ==
    \A p, q \in log :
        /\ p.from = "import" /\ q.from = "import"
        /\ p.call = q.call /\ p.band = q.band /\ p.time = q.time
        => p = q

LEMMA LogLoses ==
    ASSUME NEW log, NEW next, LogOK(log, next), Once(log), NEW less \in SUBSET log
    PROVE  LogOK(less, next) /\ Once(less)
<1>1. IsFiniteSet(less)
  BY FS_Subset DEF LogOK
<1>2. OwnNumbers(less) /\ less \subseteq Row /\ (\A q \in less : q.id < next) /\ Once(less)
  BY DEF LogOK, Once, OwnNumbers
<1> QED
  BY <1>1, <1>2 DEF LogOK

\* Contacts that are changed keep their numbers.
LEMMA LogChanges ==
    ASSUME NEW log, NEW next, LogOK(log, next), NEW f \in [log -> Row],
           \A q \in log : f[q].id = q.id
    PROVE  LogOK({f[q] : q \in log}, next)
<1> DEFINE new == {f[q] : q \in log}
<1>1. IsFiniteSet(new)
  <2>1. f \in Surjection(log, new)
    BY DEF Surjection
  <2> HIDE DEF new
  <2> QED
    BY <2>1, FS_Surjection DEF LogOK
<1>2. OwnNumbers(new)
  BY DEF LogOK, OwnNumbers
<1>3. new \subseteq Row /\ \A q \in new : q.id < next
  BY DEF LogOK
<1> HIDE DEF new
<1> QED
  BY <1>1, <1>2, <1>3 DEF LogOK, new

\* A contact more, with a number of its own.
LEMMA LogGains ==
    ASSUME NEW log, NEW next \in Nat, LogOK(log, next), NEW q \in Row, q.id = next
    PROVE  LogOK(log \union {q}, next + 1) /\ q \notin log
<1>1. \A p \in log : p.id < next /\ p.id \in Nat
  BY DEF LogOK, Row
<1>2. q \notin log /\ OwnNumbers(log \union {q})
  BY <1>1 DEF OwnNumbers, LogOK
<1>3. IsFiniteSet(log \union {q})
  BY FS_AddElement DEF LogOK
<1>4. \A p \in log \union {q} : p.id < next + 1
  BY <1>1
<1>5. log \union {q} \subseteq Row
  BY DEF LogOK
<1> QED
  BY <1>2, <1>3, <1>4, <1>5 DEF LogOK

\* The numbers that a chunk takes may be past those that there is room for.
AnyRow == [id : Nat, call : Call, band : Band, exch : Exch \union {NoExch},
           contest : Contest \union {NoContest}, time : Times, unscored : BOOLEAN,
           from : {"live", "import"}]

\* The log while a chunk is stored.
Grown(log) ==
    /\ log \subseteq AnyRow /\ IsFiniteSet(log) /\ OwnNumbers(log) /\ Once(log)
    /\ rows \subseteq log /\ \A q \in log \ rows : q.from = "import"
    /\ \A q \in log : q.id \in 1..nextId + Cardinality(log \ rows) - 1

LEMMA StoredKeeps ==
    ASSUME nextId \in Nat \ {0}, NEW log, Grown(log), NEW r \in ImportRecord
    PROVE  Grown(Stored(log, r))
<1> DEFINE n == Cardinality(log \ rows)
           new == [id |-> nextId + n, call |-> r.call, band |-> r.band, exch |-> r.exch,
                   contest |-> r.contest, time |-> r.time, unscored |-> r.unscored,
                   from |-> "import"]
<1>1. CASE ~Fresh(log, r)
  BY <1>1 DEF Stored
<1>2. CASE Fresh(log, r)
  <2>1. Stored(log, r) = log \union {new}
    BY <1>2 DEF Stored
  <2>2. IsFiniteSet(log \ rows) /\ n \in Nat
    BY FS_Subset, FS_CardinalityType DEF Grown
  <2> HIDE DEF n
  <2>3. new \in AnyRow /\ new.id = nextId + n
    BY <2>2 DEF AnyRow, ImportRecord
  <2>4. /\ new.from = "import" /\ new.call = r.call /\ new.band = r.band /\ new.time = r.time
    OBVIOUS
  <2> HIDE DEF new
  <2>5. \A q \in log : q.id \in 1..nextId + n - 1
    BY DEF Grown, n
  <2>6. \A q \in log : q.id # new.id
    BY <2>2, <2>3, <2>5
  <2>7. new \notin log /\ OwnNumbers(log \union {new})
    BY <2>6 DEF Grown, OwnNumbers
  <2>8. Cardinality((log \union {new}) \ rows) = n + 1
    <3>1. (log \union {new}) \ rows = (log \ rows) \union {new} /\ new \notin log \ rows
      BY <2>7 DEF Grown
    <3> QED
      BY <2>2, <3>1, FS_AddElement DEF n
  <2>9. \A q \in log \union {new} : q.id \in 1..nextId + (n + 1) - 1
    BY <2>2, <2>3, <2>5
  <2>10. Once(log \union {new})
    <3>1. \A q \in log : ~(q.call = new.call /\ q.band = new.band /\ q.time = new.time)
      BY <1>2, <2>4 DEF Fresh
    <3> QED
      BY <3>1 DEF Grown, Once
  <2>11. IsFiniteSet(log \union {new})
    BY FS_AddElement DEF Grown
  <2>12. /\ log \union {new} \subseteq AnyRow /\ rows \subseteq log \union {new}
         /\ \A q \in (log \union {new}) \ rows : q.from = "import"
    BY <2>3, <2>4 DEF Grown
  <2> DEFINE more == log \union {new}
  <2>13. Grown(more)
    <3> HIDE DEF more
    <3> QED
      BY <2>7, <2>8, <2>9, <2>10, <2>11, <2>12 DEF Grown, more
  <2> QED
    BY <2>1, <2>13
<1> QED
  BY <1>1, <1>2

\* What FoldLeft makes of the records of a chunk.
IsImport(iter, chunk) ==
    iter = [t \in SUBSET DOMAIN chunk |->
               IF t = {} THEN rows ELSE Stored(iter[t \ {Max(t)}], chunk[Max(t)])]

\* Some of the first numbers have a greatest.
LEMMA MaxOK ==
    ASSUME NEW n \in Nat, NEW t \in SUBSET (1..n), t # {}
    PROVE  Max(t) \in t
<1> DEFINE T == {n - x : x \in t}
<1>1. T \in SUBSET Nat /\ T # {}
  <2>1. \A x \in t : n - x \in Nat
    OBVIOUS
  <2> QED
    BY <2>1
<1>2. PICK k \in T : \A m \in T : m >= k
  <2> HIDE DEF T
  <2> QED
    BY <1>1, LeastOf
<1>3. PICK x \in t : k = n - x
  BY <1>2
<1>4. \A y \in t : x >= y
  <2> SUFFICES ASSUME NEW y \in t PROVE x >= y
    OBVIOUS
  <2>1. n - y >= n - x
    BY <1>2, <1>3
  <2> QED
    BY <2>1
<1> QED
  BY <1>3, <1>4 DEF Max

LEMMA ImportExists ==
    ASSUME nextId \in Nat \ {0}, Grown(rows), NEW chunk \in Seq(ImportRecord)
    PROVE  \E f : IsImport(f, chunk)
<1> DEFINE S == DOMAIN chunk
           ch == [t \in SUBSET S |-> Max(t)]
           step == [p \in S \X SUBSET AnyRow |-> Stored(p[2], chunk[p[1]])]
<1>1. S = 1..Len(chunk) /\ Len(chunk) \in Nat /\ \A i \in S : chunk[i] \in ImportRecord
  OBVIOUS
<1>2. IsFiniteSet(S)
  BY <1>1, FS_Interval
<1>3. \A t \in SUBSET S : t # {} => ch[t] = Max(t) /\ Max(t) \in t
  BY <1>1, MaxOK
<1>4. Takes(ch, S)
  BY <1>3 DEF Takes
<1>5. \A i \in S, log \in SUBSET AnyRow : step[<<i, log>>] = Stored(log, chunk[i])
  OBVIOUS
<1> HIDE DEF S, ch, step
<1>6. PICK f : IsFold(f, S, rows, ch, step)
  BY <1>2, <1>4, FoldExists
<1>7. \A t \in SUBSET S : f[t] = IF t = {} THEN rows ELSE step[<<ch[t], f[t \ {ch[t]}]>>]
  BY <1>6 DEF IsFold
<1>8. ASSUME NEW t \in SUBSET S, t # {}, Grown(f[t \ {ch[t]}])
      PROVE  f[t] = Stored(f[t \ {Max(t)}], chunk[Max(t)]) /\ Grown(f[t])
  <2>1. f[t] = step[<<Max(t), f[t \ {Max(t)}]>>] /\ Max(t) \in S
    BY <1>3, <1>7, <1>8
  <2>2. f[t \ {Max(t)}] \in SUBSET AnyRow /\ Grown(f[t \ {Max(t)}])
    BY <1>3, <1>8 DEF Grown
  <2>3. f[t] = Stored(f[t \ {Max(t)}], chunk[Max(t)])
    BY <1>5, <2>1, <2>2
  <2>4. chunk[Max(t)] \in ImportRecord
    BY <1>1, <2>1
  <2> QED
    BY <2>2, <2>3, <2>4, StoredKeeps
<1>9. \A t \in SUBSET S : Grown(f[t])
  <2> DEFINE Good == {t \in SUBSET S : Grown(f[t])}
  <2>1. {} \in Good
    <3>1. {} \in SUBSET S
      OBVIOUS
    <3>2. f[{}] = rows
      BY <1>7, <3>1, Zenon
    <3> QED
      BY <3>1, <3>2
  <2>2. ASSUME NEW t \in SUBSET S, t # {}, t \ {ch[t]} \in Good
        PROVE  t \in Good
    BY <1>8, <2>2
  <2> HIDE DEF Good
  <2>3. SUBSET S \subseteq Good
    BY <1>2, <1>4, <2>1, <2>2, TakeInduction
  <2> QED
    BY <2>3 DEF Good
<1> DEFINE At(t) == IF t = {} THEN rows ELSE Stored(f[t \ {Max(t)}], chunk[Max(t)])
<1>10. ASSUME NEW t \in SUBSET S
       PROVE  f[t] = At(t)
  <2>1. CASE t = {}
    BY <1>7, <2>1
  <2>2. CASE t # {}
    <3>1. t \ {ch[t]} \in SUBSET S
      OBVIOUS
    <3> QED
      BY <1>8, <1>9, <2>2, <3>1
  <2> QED
    BY <2>1, <2>2
<1>11. f = [t \in SUBSET S |-> f[t]]
  BY <1>6 DEF IsFold
<1>12. f = [t \in SUBSET S |-> At(t)]
  <2> HIDE DEF At
  <2> QED
    BY <1>10, <1>11
<1> QED
  BY <1>12 DEF IsImport, S

\* Whatever records a chunk holds, the log it leaves holds none twice.
LEMMA ImportKeeps ==
    ASSUME nextId \in Nat \ {0}, Grown(rows), NEW chunk \in Seq(ImportRecord)
    PROVE  Grown(FoldLeft(Stored, rows, chunk))
<1>1. \E f : IsImport(f, chunk)
  BY ImportExists
<1>2. PICK f : IsImport(f, chunk) /\ FoldLeft(Stored, rows, chunk) = f[DOMAIN chunk]
  BY <1>1, Zenon DEF FoldLeft, MapThenFoldSet, IsImport
<1> DEFINE S == DOMAIN chunk
           ch == [t \in SUBSET S |-> Max(t)]
           Good == {t \in SUBSET S : Grown(f[t])}
<1>3. S = 1..Len(chunk) /\ Len(chunk) \in Nat /\ \A i \in S : chunk[i] \in ImportRecord
  OBVIOUS
<1>4. IsFiniteSet(S)
  BY <1>3, FS_Interval
<1>5. \A t \in SUBSET S : t # {} => ch[t] = Max(t) /\ Max(t) \in t
  BY <1>3, MaxOK
<1>6. Takes(ch, S)
  BY <1>5 DEF Takes
<1>7. \A t \in SUBSET S :
         f[t] = IF t = {} THEN rows ELSE Stored(f[t \ {Max(t)}], chunk[Max(t)])
  BY <1>2 DEF IsImport
<1> HIDE DEF S, ch
<1>8. {} \in Good
  <2>1. {} \in SUBSET S
    OBVIOUS
  <2>2. f[{}] = rows
    BY <1>7, <2>1, Zenon
  <2> QED
    BY <2>1, <2>2
<1>9. ASSUME NEW t \in SUBSET S, t # {}, t \ {ch[t]} \in Good
      PROVE  t \in Good
  <2>1. Grown(f[t \ {Max(t)}]) /\ chunk[Max(t)] \in ImportRecord
    BY <1>3, <1>5, <1>9
  <2>2. f[t] = Stored(f[t \ {Max(t)}], chunk[Max(t)])
    BY <1>7, <1>9
  <2>3. Grown(f[t])
    BY <2>1, <2>2, StoredKeeps
  <2> QED
    BY <2>3
<1> HIDE DEF Good
<1>10. SUBSET S \subseteq Good
  BY <1>4, <1>6, <1>8, <1>9, TakeInduction
<1>11. Grown(f[S])
  BY <1>10 DEF Good
<1> QED
  BY <1>2, <1>11 DEF S

-----------------------------------------------------------------------------
(* Every step. *)

IndexTypes ==
    /\ nextId \in 1..MaxRows + 1 /\ LogOK(rows, nextId)
    /\ now \in Nat /\ station \in Station
    /\ contest \in Contest \union {NoContest}
    /\ index \in [of : Contest \union {NoContest}, there : BOOLEAN, fresh : BOOLEAN,
                  state : IndexState]
    /\ editing # NotEditing =>
          editing \in [id : Nat, row : Row, before : Contest \union {NoContest}]
    /\ importing \in [step : {"none", "running", "ended"}, left : Seq(ImportRecord)]

\* What is in an index that is there: it is of a contest, finite, and complete
\* when it is fresh and no import is under way.
Met == {q \in rows : q.contest = contest}
IndexTrue ==
    /\ index.of = contest
    /\ index.there => contest # NoContest
    /\ WellFormed(index.state)
    /\ Reliable => /\ Seen(Met, index.state)
                   /\ Chronological(index.state.times) => Counts(Met, index.state, station)

IndexInv == IndexTypes /\ Once(rows) /\ IndexTrue

\* What a rebuild of the index may leave.
TrueOf(x, log, c, s) ==
    /\ x \in [of : Contest \union {NoContest}, there : BOOLEAN, fresh : BOOLEAN,
             state : IndexState]
    /\ x.of = c /\ WellFormed(x.state)
    /\ x.there => c # NoContest
    /\ x.there /\ x.fresh =>
          /\ Seen({q \in log : q.contest = c}, x.state)
          /\ Counts({q \in log : q.contest = c}, x.state, s)

LEMMA RebuiltOK ==
    ASSUME NEW log, NEW next, LogOK(log, next), NEW c \in Contest \union {NoContest},
           NEW s \in Station, IndexTypes, WellFormed(index.state), NEW new \in Rebuilt(log, c, s)
    PROVE  TrueOf(new, log, c, s)
<1>1. CASE c = NoContest
  <2>1. new = NoIndex
    BY <1>1 DEF Rebuilt
  <2> QED
    BY <1>1, <2>1, EmptyOK DEF NoIndex, TrueOf
<1>2. CASE c # NoContest
  <2>1. CASE new = [of |-> c, there |-> TRUE, fresh |-> TRUE, state |-> Built(log, c, s)]
    <3> DEFINE x == Built(log, c, s)
    <3>1. LET S == {q \in log : q.contest = c}
          IN  x \in IndexState /\ WellFormed(x) /\ Seen(S, x) /\ Counts(S, x, s)
      BY BuiltOK DEF LogOK
    <3>2. new = [of |-> c, there |-> TRUE, fresh |-> TRUE, state |-> x]
      BY <2>1
    <3> HIDE DEF x
    <3> QED
      BY <1>2, <3>1, <3>2 DEF TrueOf
  <2>2. CASE index.of = c /\ new = [index EXCEPT !.fresh = FALSE]
    <3>1. /\ new.of = index.of /\ new.there = index.there /\ new.fresh = FALSE
          /\ new.state = index.state
          /\ new \in [of : Contest \union {NoContest}, there : BOOLEAN, fresh : BOOLEAN,
                      state : IndexState]
      BY <2>2 DEF IndexTypes
    <3> QED
      BY <1>2, <2>2, <3>1 DEF TrueOf
  <2>3. CASE new = [of |-> c, there |-> FALSE, fresh |-> FALSE, state |-> Empty]
    BY <1>2, <2>3, EmptyOK DEF TrueOf
  <2> QED
    BY <1>2, <2>1, <2>2, <2>3 DEF Rebuilt
<1> QED
  BY <1>1, <1>2

\* So a step that rebuilds the index keeps the invariant.
LEMMA RebuildKeeps ==
    ASSUME IndexInv, nextId' \in 1..MaxRows + 1, LogOK(rows', nextId'), Once(rows'),
           contest' \in Contest \union {NoContest}, station' \in Station, now' \in Nat,
           scope' = scope, index' \in Rebuilt(rows', contest', station'),
           editing' # NotEditing =>
              editing' \in [id : Nat, row : Row, before : Contest \union {NoContest}],
           importing' \in [step : {"none", "running", "ended"}, left : Seq(ImportRecord)]
    PROVE  IndexInv'
<1>1. IndexTypes /\ WellFormed(index.state)
  BY DEF IndexInv, IndexTrue
<1>2. TrueOf(index', rows', contest', station')
  BY <1>1, RebuiltOK
<1>3. IndexTypes'
  BY <1>2 DEF IndexTypes, LogOK, OwnNumbers, TrueOf
<1>4. Reliable' => Seen(Met, index.state)' /\ Counts(Met, index.state, station)'
  BY <1>2 DEF Reliable, Met, Seen, Counts, Scoring, Credit, TrueOf
<1>5. IndexTrue'
  BY <1>2, <1>4 DEF IndexTrue, WellFormed, TrueOf
<1> QED
  BY <1>3, <1>5 DEF IndexInv, Once

\* Times that are in order with one more were in order, and it is the last.
LEMMA InOrder ==
    ASSUME NEW t \in Seq(Times), NEW a \in Times, Chronological(Append(t, a))
    PROVE  Chronological(t) /\ \A i \in DOMAIN t : t[i] <= a
<1> DEFINE n == Len(t)
           u == Append(t, a)
           Bad == {i \in 1..n : ~(t[i] <= a)}
           T == {n - i : i \in Bad}
<1>1. /\ n \in Nat /\ Len(u) = n + 1 /\ u[n + 1] = a /\ DOMAIN t = 1..n
      /\ \A i \in 1..n : u[i] = t[i] /\ t[i] \in Int
      /\ a \in Int
  <2>1. /\ n \in Nat /\ Len(u) = n + 1 /\ u[n + 1] = a /\ DOMAIN t = 1..n
        /\ \A i \in 1..n : u[i] = t[i] /\ t[i] \in Times
    OBVIOUS
  <2>2. \A b \in Times : b \in Int
    BY DEF Times
  <2> QED
    BY <2>1, <2>2
<1>2. \A i \in 1..n : u[i] <= u[i + 1]
  BY <1>1 DEF Chronological
<1> HIDE DEF n, u
<1>3. \A i \in 1..n - 1 : t[i] <= t[i + 1]
  <2> SUFFICES ASSUME NEW i \in 1..n - 1 PROVE t[i] <= t[i + 1]
    OBVIOUS
  <2>1. i \in 1..n /\ i + 1 \in 1..n
    BY <1>1
  <2> QED
    BY <1>1, <1>2, <2>1
<1>4. Bad = {}
  <2> SUFFICES ASSUME Bad # {} PROVE FALSE
    OBVIOUS
  <2>1. T \in SUBSET Nat /\ T # {}
    BY <1>1
  <2>2. PICK k \in T : \A m \in T : m >= k
    <3> HIDE DEF T
    <3> QED
      BY <2>1, LeastOf
  <2>3. PICK i \in Bad : k = n - i
    BY <2>2
  <2>4. i \in 1..n /\ ~(t[i] <= a)
    BY <2>3
  <2>5. i # n
    BY <1>1, <1>2, <2>4
  <2>6. i + 1 \in 1..n /\ t[i] <= t[i + 1]
    BY <1>1, <1>3, <2>4, <2>5
  <2>7. i + 1 \in Bad
    BY <1>1, <2>4, <2>6
  <2>8. n - (i + 1) >= n - i
    BY <2>2, <2>3, <2>7
  <2> QED
    BY <1>1, <2>4, <2>8
<1> QED
  BY <1>1, <1>3, <1>4 DEF Chronological, n
-----------------------------------------------------------------------------
(* The invariant holds at first and after every step. *)

LEMMA IndexStarts == IndexInit => IndexInv
<1> SUFFICES ASSUME IndexInit PROVE IndexInv
  OBVIOUS
<1>1. LogOK(rows, nextId) /\ Once(rows) /\ rows = {}
  BY FS_EmptySet DEF IndexInit, LogOK, OwnNumbers, Once
<1>2. nextId \in 1..MaxRows + 1
  <2>1. MaxRows \in Nat
    BY IndexConstantsOK
  <2> QED
    BY <2>1 DEF IndexInit
<1>3. /\ index \in [of : Contest \union {NoContest}, there : BOOLEAN, fresh : BOOLEAN,
                    state : IndexState]
      /\ index.of = contest /\ (index.there => contest # NoContest) /\ index.state = Empty
  BY EmptyOK, IndexConstantsOK DEF IndexInit, NoIndex
<1>4. importing \in [step : {"none", "running", "ended"}, left : Seq(ImportRecord)]
  <2>1. <<>> \in Seq(ImportRecord)
    OBVIOUS
  <2> QED
    BY <2>1 DEF IndexInit, NoImport
<1>5. IndexTypes
  BY <1>1, <1>2, <1>3, <1>4 DEF IndexTypes, IndexInit
<1>6. Met = {}
  BY <1>1 DEF Met
<1>7. IndexTrue
  BY <1>3, <1>6, EmptyOK DEF IndexTrue
<1> QED
  BY <1>1, <1>5, <1>7 DEF IndexInv

\* The contact that the entry form hands over.
Logged(call, band, exch, at) ==
    [id |-> nextId, call |-> call, band |-> band, exch |-> exch, contest |-> contest,
     time |-> at, unscored |-> FALSE, from |-> "live"]

LEMMA LogContactKeeps ==
    ASSUME IndexInv, NEW call \in Call, NEW band \in Band, NEW exch \in Exch \union {NoExch},
           NEW at \in Times, LogContact(call, band, exch, at)
    PROVE  IndexInv'
<1> DEFINE q == Logged(call, band, exch, at)
<1>1. q \in Row /\ nextId + 1 \in 1..MaxRows + 1
  <2>1. MaxRows \in Nat
    BY IndexConstantsOK
  <2>2. nextId + 1 \in 1..MaxRows + 1 /\ nextId \in 1..MaxRows
    BY <2>1 DEF IndexInv, IndexTypes, LogContact, Room
  <2>3. contest \in Contest \union {NoContest}
    BY DEF IndexInv, IndexTypes
  <2> QED
    BY <2>2, <2>3 DEF Row, Logged
<1>2. /\ rows' = rows \union {q} /\ index' = InPlace(q) /\ nextId' = nextId + 1
      /\ contest' = contest /\ station' = station /\ scope' = scope
      /\ editing' = editing /\ importing' = importing
  BY DEF LogContact, Logged
<1>3. now' \in Nat
  BY IndexConstantsOK DEF IndexInv, IndexTypes, LogContact, Times
<1>4. q.id = nextId /\ q.time = at /\ q.from = "live" /\ q.contest = contest
  BY DEF Logged
<1> HIDE DEF q
<1>5. LogOK(rows', nextId')
  <2>1. nextId \in Nat /\ LogOK(rows, nextId)
    BY IndexConstantsOK DEF IndexInv, IndexTypes
  <2> QED
    BY <1>1, <1>2, <1>4, <2>1, LogGains
<1>6. Once(rows')
  BY <1>2, <1>4 DEF IndexInv, Once
<1> DEFINE x == index.state
           y == Record(x, q, station)
<1>7. x \in IndexState /\ WellFormed(x) /\ station \in Station /\ index.of = contest
  BY DEF IndexInv, IndexTypes, IndexTrue
<1>8. y \in IndexState /\ WellFormed(y)
  BY <1>1, <1>7, RecordType
<1>9. Met' = Met \union {q} /\ Met \in SUBSET Row
  BY <1>2, <1>4 DEF Met, IndexInv, IndexTypes, LogOK
<1>10. /\ index' \in [of : Contest \union {NoContest}, there : BOOLEAN, fresh : BOOLEAN,
                      state : IndexState]
       /\ index'.of = index.of /\ index'.there = index.there /\ index'.fresh = index.fresh
       /\ index'.state = IF index.there THEN y ELSE x
  <2>1. index' = IF index.there THEN [index EXCEPT !.state = y] ELSE index
    BY <1>2, <1>4, <1>7 DEF InPlace
  <2> HIDE DEF x, y
  <2> QED
    BY <1>8, <2>1 DEF IndexInv, IndexTypes, x
<1> HIDE DEF y
<1>11. IndexTypes'
  BY <1>1, <1>2, <1>3, <1>5, <1>10 DEF IndexInv, IndexTypes, LogOK, OwnNumbers
<1>12. ASSUME Reliable'
       PROVE  Seen(Met, x) /\ (Chronological(x.times) => Counts(Met, x, station)) /\ index.there
  BY <1>2, <1>10, <1>12 DEF Reliable, IndexInv, IndexTrue
<1>13. ASSUME Reliable'
       PROVE  Seen(Met \union {q}, y)
  BY <1>1, <1>7, <1>9, <1>12, <1>13, RecordSeen DEF y
<1>14. ASSUME Reliable', Chronological(y.times)
       PROVE  Counts(Met \union {q}, y, station)
  <2>1. y.times = Append(x.times, at)
    BY <1>4, <1>7, Recorded DEF y
  <2>2. x.times \in Seq(Times)
    BY <1>7 DEF IndexState
  <2>3. Chronological(x.times) /\ \A i \in DOMAIN x.times : x.times[i] <= at
    BY <1>14, <2>1, <2>2, InOrder
  <2>4. \A p \in Met : p.time <= at
    BY <1>12, <1>14, <2>3 DEF Seen
  <2>5. \A p \in Met : Before(p, q)
    <3>1. \A p \in Met : p.id < nextId /\ p.time \in Int
      BY DEF Met, IndexInv, IndexTypes, LogOK, Row, Times
    <3>2. at \in Int
      BY DEF Times
    <3> QED
      BY <1>4, <2>4, <3>1, <3>2 DEF Before
  <2> QED
    BY <1>1, <1>7, <1>9, <1>12, <1>14, <2>3, <2>5, RecordCounts DEF y
<1>15. IndexTrue'
  <2>1. WellFormed(index'.state)
    BY <1>7, <1>8, <1>10
  <2>2. Reliable' => index'.state = y
    BY <1>10 DEF Reliable
  <2>3. Reliable' => Seen(Met, index.state)'
    <3>1. Reliable' => Seen(Met', index'.state)
      BY <1>9, <1>13, <2>2
    <3> QED
      BY <1>2, <3>1 DEF Seen, Scoring
  <2>4. Reliable' /\ Chronological(index'.state.times) => Counts(Met, index.state, station)'
    <3>1. Reliable' /\ Chronological(index'.state.times) => Counts(Met', index'.state, station')
      BY <1>2, <1>9, <1>14, <2>2
    <3> QED
      BY <1>2, <3>1 DEF Counts, Credit
  <2>5. index'.of = contest' /\ (index'.there => contest' # NoContest)
    BY <1>2, <1>7, <1>10 DEF IndexInv, IndexTrue
  <2>6. WellFormed(index.state)'
    BY <2>1 DEF WellFormed
  <2> QED
    BY <2>3, <2>4, <2>5, <2>6 DEF IndexTrue, Chronological
<1> QED
  BY <1>6, <1>11, <1>15 DEF IndexInv, Once

\* A step that leaves the log and the index alone, or makes the index unreliable.
LEMMA QuietKeeps ==
    ASSUME IndexInv, rows' = rows, nextId' = nextId, scope' = scope, contest' = contest,
           station' = station, index' = index, now' \in Nat, editing' = editing,
           importing' \in [step : {"none", "running", "ended"}, left : Seq(ImportRecord)],
           importing' = importing \/ importing' # NoImport
    PROVE  IndexInv'
<1>1. IndexTypes'
  BY DEF IndexInv, IndexTypes, LogOK, OwnNumbers
<1>2. Once(rows)'
  BY DEF IndexInv, Once
<1>3. Reliable' => Reliable
  BY DEF Reliable
<1>4. IndexTrue'
  <2>1. Seen(Met, index.state)' <=> Seen(Met, index.state)
    BY DEF Seen, Met, Scoring
  <2>2. Counts(Met, index.state, station)' <=> Counts(Met, index.state, station)
    BY DEF Counts, Met, Credit
  <2>3. Chronological(index.state.times)' <=> Chronological(index.state.times)
    BY DEF Chronological
  <2>4. WellFormed(index.state)' <=> WellFormed(index.state)
    BY DEF WellFormed
  <2> QED
    BY <1>3, <2>1, <2>2, <2>3, <2>4 DEF IndexInv, IndexTrue
<1> QED
  BY <1>1, <1>2, <1>4 DEF IndexInv

LEMMA SelectKeeps ==
    ASSUME IndexInv, NEW c \in Contest \union {NoContest}, Select(c)
    PROVE  IndexInv'
<1>1. /\ contest' = c /\ index' \in Synced(rows, c, station)
      /\ rows' = rows /\ nextId' = nextId /\ now' = now /\ scope' = scope /\ station' = station
      /\ editing' = editing /\ importing' = importing
  BY DEF Select
<1>2. IndexTypes /\ Once(rows) /\ IndexTrue
  BY DEF IndexInv
<1>3. CASE c = index.of
  <2>1. contest' = contest /\ index' = index
    BY <1>1, <1>2, <1>3 DEF Synced, IndexTrue
  <2>2. now' \in Nat /\ importing' \in [step : {"none", "running", "ended"}, left : Seq(ImportRecord)]
    BY <1>1, <1>2 DEF IndexTypes
  <2> QED
    BY <1>1, <2>1, <2>2, QuietKeeps
<1>4. CASE c # index.of
  <2>1. index' \in Rebuilt(rows', contest', station')
    BY <1>1, <1>4 DEF Synced
  <2> QED
    BY <1>1, <1>2, <2>1, RebuildKeeps DEF IndexTypes
<1> QED
  BY <1>3, <1>4

LEMMA SetDupeKeeps ==
    ASSUME IndexInv, SetDupe
    PROVE  IndexInv'
<1>1. now' \in Nat /\ importing' \in [step : {"none", "running", "ended"}, left : Seq(ImportRecord)]
  BY DEF SetDupe, IndexInv, IndexTypes
<1> QED
  BY <1>1, QuietKeeps DEF SetDupe

LEMMA SaveStationKeeps ==
    ASSUME IndexInv, NEW s \in Station, SaveStation(s)
    PROVE  IndexInv'
<1>1. /\ index' \in Rebuilt(rows', contest', station') /\ station' \in Station
      /\ rows' = rows /\ nextId' = nextId /\ now' = now /\ scope' = scope /\ contest' = contest
      /\ editing' = editing /\ importing' = importing
  BY DEF SaveStation
<1> QED
  BY <1>1, RebuildKeeps DEF IndexInv, IndexTypes

LEMMA BeginEditKeeps ==
    ASSUME IndexInv, NEW q \in rows, BeginEdit(q)
    PROVE  IndexInv'
<1>1. q \in Row /\ q.contest \in Contest \union {NoContest} /\ q.id \in Nat
  BY DEF IndexInv, IndexTypes, LogOK, Row
<1>2. /\ index' \in Rebuilt(rows', contest', station') /\ contest' = q.contest
      /\ rows' = rows /\ nextId' = nextId /\ now' = now /\ scope' = scope /\ station' = station
      /\ editing' = [id |-> q.id, row |-> q,
                     before |-> IF editing = NotEditing THEN contest ELSE editing.before]
      /\ importing' = importing
  BY DEF BeginEdit
<1>3. IndexTypes /\ Once(rows)
  BY DEF IndexInv
<1>4. (IF editing = NotEditing THEN contest ELSE editing.before) \in Contest \union {NoContest}
  BY <1>3 DEF IndexTypes
<1>5. editing' \in [id : Nat, row : Row, before : Contest \union {NoContest}]
  BY <1>1, <1>2, <1>4
<1> QED
  BY <1>1, <1>2, <1>3, <1>5, RebuildKeeps DEF IndexTypes

\* The edit may end with any log that is in order.
LEMMA EndEditKeeps ==
    ASSUME IndexInv, editing # NotEditing, NEW log, LogOK(log, nextId), Once(log), EndEdit(log)
    PROVE  IndexInv'
<1>1. /\ index' \in Rebuilt(rows', contest', station') /\ contest' = editing.before
      /\ rows' = log /\ nextId' = nextId /\ now' = now /\ scope' = scope /\ station' = station
      /\ editing' = NotEditing /\ importing' = importing
  BY DEF EndEdit
<1>2. IndexTypes
  BY DEF IndexInv
<1>3. editing.before \in Contest \union {NoContest}
  BY <1>2 DEF IndexTypes
<1> QED
  BY <1>1, <1>2, <1>3, RebuildKeeps DEF IndexTypes

LEMMA SaveEditKeeps ==
    ASSUME IndexInv, NEW call \in Call, NEW band \in Band, NEW exch \in Exch \union {NoExch},
           SaveEdit(call, band, exch)
    PROVE  IndexInv'
<1> DEFINE saved(q) == [q EXCEPT !.call = call, !.band = band, !.exch = exch,
                                 !.contest = contest, !.from = "live"]
           f == [q \in rows |-> IF q.id # editing.id THEN q ELSE saved(q)]
           log == {f[q] : q \in rows}
<1>1. LogOK(rows, nextId) /\ Once(rows) /\ contest \in Contest \union {NoContest}
  BY DEF IndexInv, IndexTypes
<1>2. ASSUME NEW q \in Row
      PROVE  saved(q) \in Row /\ saved(q).id = q.id /\ saved(q).from = "live"
  <2>1. saved(q) \in [id : {q.id}, call : {call}, band : {band}, exch : {exch},
                      contest : {contest}, time : {q.time}, unscored : {q.unscored},
                      from : {"live"}]
    BY DEF Row
  <2>2. q.id \in 1..MaxRows /\ q.time \in Times /\ q.unscored \in BOOLEAN
    BY DEF Row
  <2> HIDE DEF saved
  <2>3. saved(q) \in [id : 1..MaxRows, call : Call, band : Band, exch : Exch \union {NoExch},
                      contest : Contest \union {NoContest}, time : Times, unscored : BOOLEAN,
                      from : {"live", "import"}]
    BY <1>1, <2>1, <2>2
  <2> QED
    BY <2>1, <2>3 DEF Row
<1> HIDE DEF saved
<1>3. f \in [rows -> Row] /\ \A q \in rows : f[q].id = q.id
  BY <1>1, <1>2 DEF LogOK
<1>4. \A q \in rows : f[q].from = "import" => f[q] = q
  BY <1>1, <1>2 DEF LogOK
<1>5. EndEdit(log)
  BY DEF SaveEdit, saved
<1> HIDE DEF f
<1>6. LogOK(log, nextId)
  BY <1>1, <1>3, LogChanges
<1>7. Once(log)
  BY <1>1, <1>4 DEF Once
<1>8. editing # NotEditing
  BY DEF SaveEdit
<1> HIDE DEF log
<1> QED
  BY <1>5, <1>6, <1>7, <1>8, EndEditKeeps

LEMMA ToggleUnscoredKeeps ==
    ASSUME IndexInv, ToggleUnscored
    PROVE  IndexInv'
<1> DEFINE flagged(q) == [q EXCEPT !.unscored = ~editing.row.unscored]
           f == [q \in rows |-> IF q.id # editing.id THEN q ELSE flagged(q)]
           log == {f[q] : q \in rows}
<1>1. LogOK(rows, nextId) /\ Once(rows) /\ editing # NotEditing
  BY DEF IndexInv, IndexTypes, ToggleUnscored
<1>2. ASSUME NEW q \in Row
      PROVE  /\ flagged(q) \in Row /\ flagged(q).id = q.id /\ flagged(q).from = q.from
             /\ flagged(q).call = q.call /\ flagged(q).band = q.band /\ flagged(q).time = q.time
  BY DEF Row
<1> HIDE DEF flagged
<1>3. f \in [rows -> Row]
  BY <1>1, <1>2 DEF LogOK
<1>4. \A q \in rows : /\ f[q].id = q.id /\ f[q].from = q.from
                      /\ f[q].call = q.call /\ f[q].band = q.band /\ f[q].time = q.time
  BY <1>1, <1>2 DEF LogOK
<1>5. EndEdit(log)
  BY DEF ToggleUnscored, flagged
<1> HIDE DEF f
<1>6. LogOK(log, nextId)
  BY <1>1, <1>3, <1>4, LogChanges
<1>7. Once(log)
  BY <1>1, <1>4 DEF Once
<1> HIDE DEF log
<1> QED
  BY <1>1, <1>5, <1>6, <1>7, EndEditKeeps

LEMMA DeleteEditedKeeps ==
    ASSUME IndexInv, DeleteEdited
    PROVE  IndexInv'
<1>1. LogOK(rows \ Held(editing.id), nextId) /\ Once(rows \ Held(editing.id))
  BY LogLoses DEF IndexInv, IndexTypes
<1> QED
  BY <1>1, EndEditKeeps DEF DeleteEdited

LEMMA CancelEditKeeps ==
    ASSUME IndexInv, CancelEdit
    PROVE  IndexInv'
BY EndEditKeeps DEF CancelEdit, IndexInv, IndexTypes

LEMMA DeleteRowKeeps ==
    ASSUME IndexInv, NEW q \in rows, DeleteRow(q)
    PROVE  IndexInv'
<1>1. /\ index' \in Rebuilt(rows', contest', station') /\ rows' = rows \ {q}
      /\ nextId' = nextId /\ now' = now /\ scope' = scope /\ contest' = contest
      /\ station' = station /\ editing' = editing /\ importing' = importing
  BY DEF DeleteRow
<1>2. LogOK(rows', nextId') /\ Once(rows')
  BY <1>1, LogLoses DEF IndexInv, IndexTypes
<1> QED
  BY <1>1, <1>2, RebuildKeeps DEF IndexInv, IndexTypes

LEMMA ImportStartsKeeps ==
    ASSUME IndexInv, ImportStarts
    PROVE  IndexInv'
<1>1. PICK file \in ImportFiles : importing' = [step |-> "running", left |-> file]
  BY DEF ImportStarts
<1>2. file \in Seq(ImportRecord)
  BY <1>1, IndexConstantsOK
<1>3. /\ importing' \in [step : {"none", "running", "ended"}, left : Seq(ImportRecord)]
      /\ importing' # NoImport /\ now' \in Nat
  BY <1>1, <1>2 DEF NoImport, ImportStarts, IndexInv, IndexTypes
<1> QED
  BY <1>3, QuietKeeps DEF ImportStarts

\* The log is in order as a chunk begins.
LEMMA GrownAtFirst ==
    ASSUME IndexInv
    PROVE  nextId \in Nat \ {0} /\ Grown(rows)
<1>1. nextId \in Nat \ {0} /\ LogOK(rows, nextId) /\ Once(rows)
  BY DEF IndexInv, IndexTypes
<1>2. Cardinality(rows \ rows) = 0
  <2>1. rows \ rows = {}
    OBVIOUS
  <2> QED
    BY <2>1, FS_EmptySet
<1>3. \A q \in rows : q.id \in 1..nextId + Cardinality(rows \ rows) - 1
  BY <1>1, <1>2 DEF LogOK, Row
<1>4. rows \subseteq AnyRow
  BY <1>1 DEF LogOK, Row, AnyRow
<1> QED
  BY <1>1, <1>3, <1>4 DEF Grown, LogOK

\* What a chunk leaves in the log came before or is imported.
LEMMA ChunkLog ==
    ASSUME IndexInv, NEW size \in Nat, size <= Len(importing.left)
    PROVE  Grown(FoldLeft(Stored, rows, SubSeq(importing.left, 1, size)))
<1>1. importing.left \in Seq(ImportRecord)
  BY DEF IndexInv, IndexTypes
<1> DEFINE chunk == SubSeq(importing.left, 1, size)
<1>2. chunk \in Seq(ImportRecord)
  <2>1. size \in 0..Len(importing.left) /\ Len(importing.left) \in Nat
    BY <1>1
  <2> QED
    BY <1>1, <2>1
<1> HIDE DEF chunk
<1>3. Grown(FoldLeft(Stored, rows, chunk))
  BY <1>2, GrownAtFirst, ImportKeeps
<1> QED
  BY <1>3 DEF chunk

LEMMA ChunkImports ==
    ASSUME IndexInv, ImportChunk
    PROVE  \A p \in rows' \ rows : p.from = "import"
<1> DEFINE size == IF Len(importing.left) < Chunk THEN Len(importing.left) ELSE Chunk
<1>1. size \in Nat /\ size <= Len(importing.left)
  BY IndexConstantsOK DEF IndexInv, IndexTypes
<1>2. rows' = FoldLeft(Stored, rows, SubSeq(importing.left, 1, size)) \/ rows' = rows
  BY DEF ImportChunk
<1> HIDE DEF size
<1>3. Grown(FoldLeft(Stored, rows, SubSeq(importing.left, 1, size)))
  BY <1>1, ChunkLog
<1> QED
  BY <1>2, <1>3 DEF Grown

LEMMA ImportChunkKeeps ==
    ASSUME IndexInv, ImportChunk
    PROVE  IndexInv'
<1> DEFINE size == IF Len(importing.left) < Chunk THEN Len(importing.left) ELSE Chunk
           log == FoldLeft(Stored, rows, SubSeq(importing.left, 1, size))
           rest == SubSeq(importing.left, size + 1, Len(importing.left))
           n == Cardinality(log \ rows)
<1>1. importing.left \in Seq(ImportRecord) /\ Chunk \in Nat /\ MaxRows \in Nat
  BY IndexConstantsOK DEF IndexInv, IndexTypes
<1>2. rest \in Seq(ImportRecord)
  <2>1. size \in 0..Len(importing.left) /\ Len(importing.left) \in Nat
    BY <1>1
  <2> HIDE DEF size
  <2> QED
    BY <1>1, <2>1
<1>3. nextId \in Nat \ {0}
  BY GrownAtFirst
<1>4. Grown(log)
  <2>1. size \in Nat /\ size <= Len(importing.left)
    BY <1>1
  <2> HIDE DEF size
  <2> QED
    BY <2>1, ChunkLog
<1>5. \/ /\ Room(n) /\ rows' = log /\ nextId' = nextId + n
         /\ importing' = [step |-> IF rest = <<>> THEN "ended" ELSE "running", left |-> rest]
      \/ /\ importing' = [step |-> "ended", left |-> <<>>]
         /\ UNCHANGED <<rows, nextId>>
  BY DEF ImportChunk
<1>6. /\ now' = now /\ scope' = scope /\ contest' = contest /\ station' = station
      /\ index' = index /\ editing' = editing
  BY DEF ImportChunk
<1> HIDE DEF log, rest
<1>7. /\ importing' \in [step : {"none", "running", "ended"}, left : Seq(ImportRecord)]
      /\ importing' # NoImport
  <2>1. <<>> \in Seq(ImportRecord)
    OBVIOUS
  <2>2. PICK step \in {"running", "ended"}, left \in Seq(ImportRecord) :
           importing' = [step |-> step, left |-> left]
    <3>1. CASE importing' = [step |-> "ended", left |-> <<>>]
      BY <2>1, <3>1
    <3>2. CASE importing' = [step |-> IF rest = <<>> THEN "ended" ELSE "running", left |-> rest]
      BY <1>2, <3>2
    <3> QED
      BY <1>5, <3>1, <3>2
  <2> QED
    BY <2>2 DEF NoImport
<1>8. CASE UNCHANGED <<rows, nextId>>
  <2>1. now' \in Nat
    BY <1>6 DEF IndexInv, IndexTypes
  <2> QED
    BY <1>6, <1>7, <1>8, <2>1, QuietKeeps
<1>9. CASE Room(n) /\ rows' = log /\ nextId' = nextId + n
  <2>1. IsFiniteSet(log \ rows) /\ n \in Nat
    BY <1>4, FS_Subset, FS_CardinalityType DEF Grown
  <2>2. \A q \in log : q.id \in 1..nextId + n - 1
    BY <1>4 DEF Grown
  <2>3. nextId + n \in 1..MaxRows + 1
    <3> HIDE DEF n
    <3> QED
      BY <1>1, <1>3, <1>9, <2>1 DEF Room
  <2> HIDE DEF n
  <2>4. \A q \in log : q.id \in 1..MaxRows /\ q.id < nextId + n
    BY <1>1, <1>3, <2>1, <2>2, <2>3
  <2>5. log \subseteq Row
    BY <1>4, <2>4 DEF Grown, AnyRow, Row
  <2>6. LogOK(log, nextId + n)
    BY <1>4, <2>4, <2>5 DEF Grown, LogOK
  <2>7. LogOK(rows', nextId') /\ Once(rows') /\ nextId' \in 1..MaxRows + 1
    BY <1>4, <1>9, <2>3, <2>6 DEF Grown
  <2>8. IndexTypes'
    BY <1>6, <1>7, <2>7 DEF IndexInv, IndexTypes, LogOK, OwnNumbers
  <2>9. ~Reliable'
    BY <1>7 DEF Reliable
  <2>10. IndexTrue'
    BY <1>6, <2>9 DEF IndexInv, IndexTrue, WellFormed
  <2> QED
    BY <2>7, <2>8, <2>10 DEF IndexInv, Once
<1> QED
  BY <1>5, <1>8, <1>9

LEMMA ImportReportedKeeps ==
    ASSUME IndexInv, ImportReported
    PROVE  IndexInv'
<1>1. NoImport \in [step : {"none", "running", "ended"}, left : Seq(ImportRecord)]
  <2>1. <<>> \in Seq(ImportRecord)
    OBVIOUS
  <2> QED
    BY <2>1 DEF NoImport
<1>2. /\ index' \in Rebuilt(rows', contest', station') /\ rows' = rows
      /\ nextId' = nextId /\ now' = now /\ scope' = scope /\ contest' = contest
      /\ station' = station /\ editing' = editing /\ importing' = NoImport
  BY DEF ImportReported
<1> QED
  BY <1>1, <1>2, RebuildKeeps DEF IndexInv, IndexTypes

LEMMA IndexKeeps ==
    IndexInv /\ [IndexNext]_indexVars => IndexInv'
<1> SUFFICES ASSUME IndexInv, [IndexNext]_indexVars PROVE IndexInv'
  OBVIOUS
<1>1. CASE \E call \in Call, band \in Band, exch \in Exch \union {NoExch} :
              \/ \E at \in Times : LogContact(call, band, exch, at)
              \/ SaveEdit(call, band, exch)
  BY <1>1, LogContactKeeps, SaveEditKeeps
<1>2. CASE \E c \in Contest \union {NoContest} : Select(c)
  BY <1>2, SelectKeeps
<1>3. CASE SetDupe
  BY <1>3, SetDupeKeeps
<1>4. CASE \E s \in Station : SaveStation(s)
  BY <1>4, SaveStationKeeps
<1>5. CASE \E q \in rows : BeginEdit(q) \/ DeleteRow(q)
  BY <1>5, BeginEditKeeps, DeleteRowKeeps
<1>6. CASE ToggleUnscored \/ DeleteEdited \/ CancelEdit
  BY <1>6, ToggleUnscoredKeeps, DeleteEditedKeeps, CancelEditKeeps
<1>7. CASE ImportStarts \/ ImportChunk \/ ImportReported
  BY <1>7, ImportStartsKeeps, ImportChunkKeeps, ImportReportedKeeps
<1>8. CASE UNCHANGED indexVars
  BY <1>8, QuietKeeps DEF indexVars, IndexInv, IndexTypes
<1> QED
  BY <1>1, <1>2, <1>3, <1>4, <1>5, <1>6, <1>7, <1>8 DEF IndexNext

\* The invariant that the proofs rest on: the log's numbers are its own, no
\* import is in it twice, and the index is what the log makes of it
\* (contestState, insertQSOChunk).
THEOREM IndexInvariant == IndexSpec => []IndexInv
BY IndexStarts, IndexKeeps, PTL DEF IndexSpec

\* However often a file is imported, none of its contacts is in the log twice
\* (ImportedOnce; insertQSOChunk).
THEOREM ImportedOnceHolds == IndexSpec => []ImportedOnce
<1>1. IndexInv => ImportedOnce
  BY DEF IndexInv, Once, ImportedOnce
<1> QED
  BY <1>1, IndexInvariant, PTL

\* An index that says it is fresh credits what the log has (IndexCredits;
\* recordQSO, rebuildContestIndex).
THEOREM IndexCreditsHolds == IndexSpec => []IndexCredits
<1>1. ASSUME IndexInv PROVE IndexCredits
  <2>1. ASSUME Reliable
        PROVE  /\ index.of = contest
               /\ index.state.worked = {Key(q) : q \in {p \in rows : p.contest = contest}}
               /\ Chronological(index.state.times) => Agrees
    <3>1. index.of = contest /\ Seen(Met, index.state)
      BY <1>1, <2>1 DEF IndexInv, IndexTrue
    <3>2. Credit(Met) = Credited
      BY <3>1 DEF Credit, Credited, Met
    <3>3. Chronological(index.state.times) => Counts(Met, index.state, station)
      BY <1>1, <2>1 DEF IndexInv, IndexTrue
    <3>4. Chronological(index.state.times) => Agrees
      BY <3>2, <3>3 DEF Counts, Agrees
    <3> QED
      BY <3>1, <3>4 DEF Seen, Met
  <2> QED
    BY <2>1 DEF IndexCredits
<1> QED
  BY <1>1, IndexInvariant, PTL
-----------------------------------------------------------------------------
(* The flag of the panel. *)

\* The sums of the score are sums.
LEMMA PointsSum ==
    ASSUME NEW T \in SUBSET (Pair \X Nat), IsFiniteSet(T),
           NEW x, x.points = T, NEW w, w = [p \in T |-> p[2]]
    PROVE  \E f : IsSum(f, w, T) /\ PointsTotal(x) = f[T]
<1> DEFINE Sum(f) == f = [s \in SUBSET T |->
                            IF s = {} THEN 0
                            ELSE (CHOOSE p \in s : TRUE)[2] + f[s \ {CHOOSE p \in s : TRUE}]]
           AtSum(f, s) == IF s = {} THEN 0
                          ELSE (CHOOSE p \in s : TRUE)[2] + f[s \ {CHOOSE p \in s : TRUE}]
           AtW(f, s) == IF s = {} THEN 0
                        ELSE w[CHOOSE p \in s : TRUE] + f[s \ {CHOOSE p \in s : TRUE}]
<1>1. \A f : \A s \in SUBSET T : AtSum(f, s) = AtW(f, s)
  OBVIOUS
<1>2. ASSUME NEW f
      PROVE  /\ Sum(f) <=> f = [s \in SUBSET T |-> AtSum(f, s)]
             /\ IsSum(f, w, T) <=> f = [s \in SUBSET T |-> AtW(f, s)]
  BY Zenon DEF IsSum
<1>3. ASSUME NEW f
      PROVE  [s \in SUBSET T |-> AtSum(f, s)] = [s \in SUBSET T |-> AtW(f, s)]
  <2> HIDE DEF AtSum, AtW
  <2> QED
    BY <1>1
<1> HIDE DEF AtSum, AtW
<1>4. \A f : Sum(f) <=> IsSum(f, w, T)
  <2> SUFFICES ASSUME NEW f PROVE Sum(f) <=> IsSum(f, w, T)
    OBVIOUS
  <2> HIDE DEF Sum
  <2> QED
    BY <1>2, <1>3
<1>5. \E f : Sum(f)
  <2>1. w \in [T -> Nat]
    OBVIOUS
  <2>2. \E f : IsSum(f, w, T)
    BY <2>1, SumExists
  <2> HIDE DEF Sum
  <2> QED
    BY <1>4, <2>2
<1>6. PointsTotal(x) = (CHOOSE f : Sum(f))[T]
  <2>1. PointsTotal(x) =
          (CHOOSE iter : iter = [s \in SUBSET x.points |->
                           IF s = {} THEN 0
                           ELSE (CHOOSE p \in s : TRUE)[2] + iter[s \ {CHOOSE p \in s : TRUE}]])[x.points]
    BY Zenon DEF PointsTotal, MapThenSumSet, MapThenFoldSet
  <2> QED
    BY <2>1, Zenon
<1> HIDE DEF Sum
<1>7. PICK f : Sum(f) /\ PointsTotal(x) = f[T]
  BY <1>5, <1>6
<1> QED
  BY <1>4, <1>7

Weighted(T) == MapThenSumSet(LAMBDA v : Weight[v[2]], T)

\* A value is a kind, a band and what was worked there.
LEMMA ValueOK ==
    ASSUME NEW v \in Value
    PROVE  /\ v = <<v[1], v[2], v[3]>> /\ v[1] \in {"prefix", "exchange"} /\ v[2] \in Band
           /\ Weight[v[2]] \in Nat /\ Weight[v[2]] > 0
<1>1. PICK q \in Row : v \in Values(q)
  BY DEF Value
<1>2. v = <<"prefix", q.band, Prefix[q.call]>> \/ v = <<"exchange", q.band, q.exch>>
  BY <1>1 DEF Values
<1>3. q.band \in Band
  BY <1>1 DEF Row
<1>4. Weight[q.band] \in Nat \ {0}
  BY <1>3, IndexConstantsOK
<1> QED
  BY <1>2, <1>3, <1>4

LEMMA WeightedSum ==
    ASSUME NEW T \in SUBSET Value, IsFiniteSet(T), NEW w, w = [v \in T |-> Weight[v[2]]]
    PROVE  \E f : IsSum(f, w, T) /\ Weighted(T) = f[T]
<1> DEFINE Sum(f) == f = [s \in SUBSET T |->
                            IF s = {} THEN 0
                            ELSE Weight[(CHOOSE v \in s : TRUE)[2]]
                                 + f[s \ {CHOOSE v \in s : TRUE}]]
           AtSum(f, s) == IF s = {} THEN 0
                          ELSE Weight[(CHOOSE v \in s : TRUE)[2]]
                               + f[s \ {CHOOSE v \in s : TRUE}]
           AtW(f, s) == IF s = {} THEN 0
                        ELSE w[CHOOSE v \in s : TRUE] + f[s \ {CHOOSE v \in s : TRUE}]
<1>1. \A f : \A s \in SUBSET T : AtSum(f, s) = AtW(f, s)
  OBVIOUS
<1>2. ASSUME NEW f
      PROVE  /\ Sum(f) <=> f = [s \in SUBSET T |-> AtSum(f, s)]
             /\ IsSum(f, w, T) <=> f = [s \in SUBSET T |-> AtW(f, s)]
  BY Zenon DEF IsSum
<1>3. ASSUME NEW f
      PROVE  [s \in SUBSET T |-> AtSum(f, s)] = [s \in SUBSET T |-> AtW(f, s)]
  <2> HIDE DEF AtSum, AtW
  <2> QED
    BY <1>1
<1> HIDE DEF AtSum, AtW
<1>4. \A f : Sum(f) <=> IsSum(f, w, T)
  <2> SUFFICES ASSUME NEW f PROVE Sum(f) <=> IsSum(f, w, T)
    OBVIOUS
  <2> HIDE DEF Sum
  <2> QED
    BY <1>2, <1>3
<1>5. \E f : Sum(f)
  <2>1. w \in [T -> Nat]
    BY ValueOK
  <2>2. \E f : IsSum(f, w, T)
    BY <2>1, SumExists
  <2> HIDE DEF Sum
  <2> QED
    BY <1>4, <2>2
<1>6. Weighted(T) = (CHOOSE f : Sum(f))[T]
  BY Zenon DEF Weighted, MapThenSumSet, MapThenFoldSet
<1> HIDE DEF Sum
<1>7. PICK f : Sum(f) /\ Weighted(T) = f[T]
  BY <1>5, <1>6
<1> QED
  BY <1>4, <1>7

\* A contact that counts adds its points.
LEMMA PointsGrow ==
    ASSUME NEW x \in IndexState, WellFormed(x), NEW q \in Row, NEW s \in Station,
           ~q.unscored, ~Duplicate(x, q)
    PROVE  PointsTotal(Record(x, q, s)) = PointsTotal(x) + Tier[s][q.exch]
<1> DEFINE y == Record(x, q, s)
           e == <<Key(q), Tier[s][q.exch]>>
           S == x.points
           T == y.points
           v == [p \in S |-> p[2]]
           w == [p \in T |-> p[2]]
<1>1. y \in IndexState /\ WellFormed(y)
  BY RecordType
<1>2. T = S \union {e}
  BY Recorded
<1>3. e \notin S
  <2>1. Key(q) \notin x.scored \/ q.call \notin x.calls
    BY DEF Duplicate
  <2>2. e[1] = Key(q) /\ e[1][1] = q.call
    BY DEF Key
  <2> QED
    BY <2>1, <2>2 DEF WellFormed
<1>4. S \in SUBSET (Pair \X Nat) /\ T \in SUBSET (Pair \X Nat) /\ IsFiniteSet(S) /\ IsFiniteSet(T)
  BY <1>1 DEF IndexState, WellFormed
<1> HIDE DEF y, e, S, T
<1>5. PICK f : IsSum(f, v, S) /\ PointsTotal(x) = f[S]
  BY <1>4, PointsSum DEF S
<1>6. PICK g : IsSum(g, w, T) /\ PointsTotal(y) = g[T]
  BY <1>4, PointsSum DEF T
<1>7. w \in [T -> Nat] /\ \A p \in S : v[p] = w[p]
  BY <1>2, <1>4
<1> HIDE DEF v, w
<1>8. g[T] = f[S] + w[e]
  BY <1>2, <1>3, <1>4, <1>5, <1>6, <1>7, SumGrows
<1>9. w[e] = Tier[s][q.exch]
  BY <1>2 DEF w, e
<1> QED
  BY <1>5, <1>6, <1>8, <1>9 DEF y

\* The count of a rule rises exactly when wouldBeNewMultiplier says so.
LEMMA CountGrows ==
    ASSUME NEW x \in IndexState, WellFormed(x), NEW q \in Row, NEW s \in Station,
           ~q.unscored, ~Duplicate(x, q), NEW rule \in Rule
    PROVE  (MultiplierCount(Record(x, q, s), rule) > MultiplierCount(x, rule))
              <=> WouldBeNew(x, rule, q)
<1> DEFINE y == Record(x, q, s)
           got == {v \in x.values : v[1] = rule.kind}
           more == {v \in y.values : v[1] = rule.kind}
           mine == {v \in Values(q) : v[1] = rule.kind}
<1>1. y \in IndexState /\ WellFormed(y)
  BY RecordType
<1>2. y.calls = x.calls \union {q.call} /\ y.values = x.values \union Values(q)
  BY Recorded
<1>3. more = got \union mine /\ mine \subseteq Value /\ got \subseteq Value
  BY <1>2, ValuesFinite DEF IndexState
<1>4. IsFiniteSet(more) /\ IsFiniteSet(got) /\ IsFiniteSet(y.calls)
  BY <1>1, FS_Subset DEF WellFormed
<1>5. rule.kind \in {"unique_call", "prefix", "exchange"}
      /\ rule.per \in {"band", "contest", "band_weighted"}
  BY DEF Rule
<1>6. CASE rule.kind = "unique_call"
  <2>1. /\ MultiplierCount(y, rule) = Cardinality(y.calls)
        /\ MultiplierCount(x, rule) = Cardinality(x.calls)
    BY <1>6 DEF MultiplierCount
  <2>2. Cardinality(y.calls) > Cardinality(x.calls) <=> y.calls \ x.calls # {}
    <3> HIDE DEF y
    <3> QED
      BY <1>2, <1>4, MoreIsGreater
  <2>3. y.calls \ x.calls # {} <=> q.call \notin x.calls
    BY <1>2
  <2> QED
    BY <1>6, <2>1, <2>2, <2>3 DEF WouldBeNew, y
<1>7. CASE rule.kind # "unique_call" /\ rule.per = "contest"
  <2> DEFINE A == {v[3] : v \in got}
             B == {v[3] : v \in more}
  <2>1. MultiplierCount(y, rule) = Cardinality(B) /\ MultiplierCount(x, rule) = Cardinality(A)
    BY <1>7 DEF MultiplierCount
  <2> HIDE DEF y, got, more, mine
  <2>2. IsFiniteSet(B) /\ A \subseteq B
    <3> DEFINE h == [v \in more |-> v[3]]
    <3>1. h \in Surjection(more, B)
      BY DEF Surjection
    <3>2. A \subseteq B
      BY <1>3
    <3> HIDE DEF h, A, B
    <3> QED
      BY <1>4, <3>1, <3>2, FS_Surjection
  <2>3. Cardinality(B) > Cardinality(A) <=> B \ A # {}
    <3> HIDE DEF A, B
    <3> QED
      BY <2>2, MoreIsGreater
  <2>4. B \ A # {} <=> \E v \in mine : ~\E u \in got : u[3] = v[3]
    BY <1>3
  <2>5. WouldBeNew(x, rule, q) <=> \E v \in mine : ~\E u \in got : u[3] = v[3]
    BY <1>7 DEF WouldBeNew, mine, got
  <2> QED
    BY <2>1, <2>3, <2>4, <2>5 DEF y
<1>8. ASSUME rule.kind # "unique_call", rule.per # "contest"
      PROVE  WouldBeNew(x, rule, q) <=> more \ got # {}
  <2>1. WouldBeNew(x, rule, q) <=>
          \E v \in mine : ~\E u \in x.values : u[1] = v[1] /\ u[3] = v[3] /\ u[2] = v[2]
    BY <1>8 DEF WouldBeNew
  <2>2. \A u, v \in Value : u[1] = v[1] /\ u[3] = v[3] /\ u[2] = v[2] => u = v
    BY ValueOK
  <2>3. x.values \subseteq Value
    BY DEF IndexState
  <2>4. \A v \in mine : v \in got <=> \E u \in x.values : u[1] = v[1] /\ u[3] = v[3] /\ u[2] = v[2]
    BY <1>3, <2>2, <2>3
  <2> HIDE DEF got, mine, more
  <2> QED
    BY <1>3, <2>1, <2>4
<1>9. CASE rule.kind # "unique_call" /\ rule.per = "band"
  <2>1. MultiplierCount(y, rule) = Cardinality(more) /\ MultiplierCount(x, rule) = Cardinality(got)
    BY <1>9 DEF MultiplierCount
  <2> HIDE DEF y, got, more, mine
  <2>2. Cardinality(more) > Cardinality(got) <=> more \ got # {}
    BY <1>3, <1>4, MoreIsGreater
  <2> QED
    BY <1>8, <1>9, <2>1, <2>2 DEF y
<1>10. CASE rule.kind # "unique_call" /\ rule.per = "band_weighted"
  <2>1. MultiplierCount(y, rule) = Weighted(more) /\ MultiplierCount(x, rule) = Weighted(got)
    BY <1>10 DEF MultiplierCount, Weighted
  <2>2. \A u, v \in mine : u = v
    BY DEF Values
  <2> DEFINE v == [u \in got |-> Weight[u[2]]]
             w == [u \in more |-> Weight[u[2]]]
  <2> HIDE DEF y, got, more, mine
  <2>3. PICK f : IsSum(f, v, got) /\ Weighted(got) = f[got]
    BY <1>3, <1>4, WeightedSum
  <2>4. PICK g : IsSum(g, w, more) /\ Weighted(more) = g[more]
    BY <1>3, <1>4, WeightedSum
  <2>5. w \in [more -> Nat] /\ \A u \in got : v[u] = w[u]
    BY <1>3, ValueOK
  <2>6. CASE more = got
    <3>1. Weighted(got) \in Nat
      <4>1. w \in [got -> Nat]
        BY <2>5, <2>6
      <4>2. IsSum(g, w, got)
        BY <2>4, <2>6
      <4> HIDE DEF v, w
      <4>3. g[got] \in Nat
        BY <1>4, <4>1, <4>2, SumWithout
      <4> QED
        BY <2>4, <2>6, <4>3
    <3> QED
      BY <1>8, <1>10, <2>1, <2>6, <3>1 DEF y
  <2>7. CASE more # got
    <3>1. PICK e \in more : e \notin got /\ e \in mine
      BY <1>3, <2>7
    <3>2. more = got \union {e}
      BY <1>3, <2>2, <3>1
    <3>3. w[e] \in Nat /\ w[e] > 0
      BY <1>3, <3>1, ValueOK
    <3> HIDE DEF v, w
    <3>4. f[got] \in Nat /\ g[more] = f[got] + w[e]
      BY <1>4, <2>3, <2>4, <2>5, <3>1, <3>2, SumGrows
    <3>5. Weighted(more) > Weighted(got)
      BY <2>3, <2>4, <3>3, <3>4
    <3> QED
      BY <1>8, <1>10, <2>1, <3>1, <3>5 DEF y
  <2> QED
    BY <2>6, <2>7
<1> HIDE DEF y, got, more, mine
<1> QED
  BY <1>5, <1>6, <1>7, <1>9, <1>10 DEF y

ComesTrue(q) ==
    /\ PointsTotal(index'.state) = PointsTotal(index.state) + Tier[station][q.exch]
    /\ \A rule \in Rule :
       (MultiplierCount(index'.state, rule) > MultiplierCount(index.state, rule))
          <=> WouldBeNew(index.state, rule, q)

\* What the panel announces comes true: the contact logged adds its points, and
\* raises a count exactly when the rule flagged it (FlagComesTrue;
\* wouldBeNewMultiplier, multiplierCount, pointsTotal).
THEOREM FlagHolds == IndexSpec => FlagComesTrue
<1>1. ASSUME IndexInv, [IndexNext]_indexVars
      PROVE  \A q \in rows' \ rows :
               q.from = "live" /\ q.id = nextId /\ index.there
                  /\ q.contest = index.of /\ ~Duplicate(index.state, q) =>
               /\ PointsTotal(index'.state) = PointsTotal(index.state) + Tier[station][q.exch]
               /\ \A rule \in Rule :
                  (MultiplierCount(index'.state, rule) > MultiplierCount(index.state, rule))
                     <=> WouldBeNew(index.state, rule, q)
  <2> SUFFICES ASSUME NEW q \in rows' \ rows, q.from = "live", q.id = nextId, index.there,
                      q.contest = index.of, ~Duplicate(index.state, q)
               PROVE  ComesTrue(q)
    BY DEF ComesTrue
  <2>1. LogOK(rows, nextId) /\ nextId \in Nat /\ rows \subseteq Row
    BY <1>1 DEF IndexInv, IndexTypes, LogOK
  <2>2. \A p \in rows : p.id # q.id
    BY <2>1 DEF LogOK, Row
  <2>3. CASE \E call \in Call, band \in Band, exch \in Exch \union {NoExch}, at \in Times :
               LogContact(call, band, exch, at)
    <3>1. PICK call \in Call, band \in Band, exch \in Exch \union {NoExch}, at \in Times :
             LogContact(call, band, exch, at)
      BY <2>3
    <3>2. rows' = rows \union {q} /\ index' = InPlace(q) /\ q = Logged(call, band, exch, at)
      BY <3>1 DEF LogContact, Logged
    <3>3. q \in Row /\ ~q.unscored
      <4>1. IndexInv'
        BY <1>1, <3>1, LogContactKeeps
      <4>2. ~q.unscored
        BY <3>2 DEF Logged
      <4> QED
        BY <4>1, <4>2 DEF IndexInv, IndexTypes, LogOK
    <3>4. index.state \in IndexState /\ WellFormed(index.state) /\ station \in Station
      BY <1>1 DEF IndexInv, IndexTypes, IndexTrue
    <3>5. index'.state = Record(index.state, q, station)
      BY <1>1, <3>2 DEF InPlace, IndexInv, IndexTypes
    <3> QED
      BY <3>3, <3>4, <3>5, PointsGrow, CountGrows DEF ComesTrue
  <2>4. CASE \E call \in Call, band \in Band, exch \in Exch \union {NoExch} :
               SaveEdit(call, band, exch)
    <3>1. PICK call \in Call, band \in Band, exch \in Exch \union {NoExch} :
             SaveEdit(call, band, exch)
      BY <2>4
    <3>2. PICK p \in rows :
             q = IF p.id # editing.id THEN p
                 ELSE [p EXCEPT !.call = call, !.band = band, !.exch = exch,
                                !.contest = contest, !.from = "live"]
      BY <3>1 DEF SaveEdit, EndEdit
    <3>3. q.id = p.id
      BY <2>1, <3>2 DEF Row
    <3> QED
      BY <2>2, <3>2, <3>3
  <2>5. CASE ToggleUnscored
    <3>1. PICK p \in rows :
             q = IF p.id # editing.id THEN p
                 ELSE [p EXCEPT !.unscored = ~editing.row.unscored]
      BY <2>5 DEF ToggleUnscored, EndEdit
    <3>2. q.id = p.id
      BY <2>1, <3>1 DEF Row
    <3> QED
      BY <2>2, <3>1, <3>2
  <2>6. CASE ImportChunk
    <3>1. \A p \in rows' \ rows : p.from = "import"
      BY <1>1, <2>6, ChunkImports
    <3> QED
      BY <3>1
  <2>7. CASE \E p \in rows : BeginEdit(p) \/ DeleteRow(p)
    BY <2>7 DEF BeginEdit, DeleteRow
  <2>8. CASE DeleteEdited \/ CancelEdit
    BY <2>8 DEF DeleteEdited, CancelEdit, EndEdit
  <2>9. CASE \/ \E c \in Contest \union {NoContest} : Select(c)
              \/ SetDupe
              \/ \E s \in Station : SaveStation(s)
    BY <2>9 DEF Select, SetDupe, SaveStation
  <2>10. CASE ImportStarts \/ ImportReported \/ UNCHANGED indexVars
    BY <2>10 DEF ImportStarts, ImportReported, indexVars
  <2> QED
    BY <1>1, <2>3, <2>4, <2>5, <2>6, <2>7, <2>8, <2>9, <2>10 DEF IndexNext
<1> QED
  BY <1>1, IndexInvariant, PTL DEF IndexSpec, FlagComesTrue
=============================================================================
