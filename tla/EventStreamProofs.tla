-------------------------- MODULE EventStreamProofs -------------------------
(***************************************************************************)
(* Proofs about EventStream, for any messages, subscribers and bounds.     *)
(* What a consumer shows is a fold over what is on its way to it; what the *)
(* fold computes is proved from the least-number principle, by induction   *)
(* on the length of the way.                                               *)
(***************************************************************************)
EXTENDS EventStream, FiniteSetTheorems, SequenceTheorems, WellFoundedInduction, TLAPS

-----------------------------------------------------------------------------
(* Induction on sets of numbers, and what a fold computes. *)

LEMMA NatMin ==
    ASSUME NEW T \in SUBSET Nat, T # {}
    PROVE  \E n \in T : \A k \in T : n <= k
<1>1. PICK n \in T : \A k \in T : ~(<<k, n>> \in OpToRel(<, Nat))
  BY NatLessThanWellFounded, WFMin
<1>2. \A k \in T : ~(k < n)
  BY <1>1 DEF OpToRel
<1> QED BY <1>2

LEMMA Induction ==
    ASSUME NEW T \in SUBSET Nat, 0 \in T, \A n \in T : n + 1 \in T
    PROVE  T = Nat
<1> SUFFICES ASSUME Nat \ T # {} PROVE FALSE
  OBVIOUS
<1>1. PICK n \in Nat \ T : \A k \in Nat \ T : n <= k
  BY NatMin
<1>2. n # 0 /\ n - 1 \in Nat
  BY <1>1
<1>3. n - 1 \in T
  BY <1>1, <1>2
<1> QED BY <1>1, <1>2, <1>3

Picks(pick, S) == \A s \in SUBSET S : s # {} => pick[s] \in s
FoldsSubsets(h, S, base, step, pick) ==
    \A s \in SUBSET S : h[s] = IF s = {} THEN base ELSE step[pick[s]][h[s \ {pick[s]}]]

\* Whatever the order in which the elements of a finite set are picked, there is a function
\* that folds its subsets.
LEMMA FoldExists ==
    ASSUME NEW S, NEW V, NEW base \in V, NEW step \in [S -> [V -> V]], NEW pick,
           IsFiniteSet(S), Picks(pick, S)
    PROVE  \E h \in [SUBSET S -> V] : FoldsSubsets(h, S, base, step, pick)
<1> DEFINE Upto(n) == {s \in SUBSET S : Cardinality(s) <= n}
           Folds(h, n) == h \in [Upto(n) -> V] /\ \A s \in Upto(n) :
               h[s] = IF s = {} THEN base ELSE step[pick[s]][h[s \ {pick[s]}]]
           T == {n \in Nat : \E h : Folds(h, n)}
<1>1. \A s \in SUBSET S : IsFiniteSet(s) /\ Cardinality(s) \in Nat
  BY FS_Subset, FS_CardinalityType
<1>2. \A s \in SUBSET S : s # {} =>
          /\ s \ {pick[s]} \in SUBSET S /\ Cardinality(s \ {pick[s]}) = Cardinality(s) - 1
  BY <1>1, FS_RemoveElement DEF Picks
<1>3. 0 \in T
  <2>1. Upto(0) = {{}}
    BY <1>1, FS_EmptySet
  <2>2. Folds([s \in Upto(0) |-> base], 0)
    BY <2>1
  <2> QED BY <2>2
<1>4. ASSUME NEW n \in T PROVE n + 1 \in T
  <2>1. n \in Nat /\ n + 1 \in Nat
    OBVIOUS
  <2>2. PICK h : Folds(h, n)
    OBVIOUS
  <2> DEFINE g == [s \in Upto(n + 1) |-> IF s = {} THEN base ELSE step[pick[s]][h[s \ {pick[s]}]]]
  <2>3. \A s \in Upto(n + 1) : s # {} => pick[s] \in S /\ s \ {pick[s]} \in Upto(n)
    BY <1>1, <1>2, <2>1 DEF Picks
  <2>4. Upto(n) \subseteq Upto(n + 1)
    BY <1>1, <2>1
  <2>5. \A s \in Upto(n) : g[s] = h[s]
    BY <2>2, <2>4
  <2>6. g \in [Upto(n + 1) -> V]
    <3>1. \A s \in Upto(n + 1) : s # {} => h[s \ {pick[s]}] \in V
      BY <2>2, <2>3
    <3>2. \A s \in Upto(n + 1) : s # {} => step[pick[s]][h[s \ {pick[s]}]] \in V
      <4>1. \A x \in S, y \in V : step[x][y] \in V
        OBVIOUS
      <4> HIDE DEF Upto
      <4> QED BY <2>3, <3>1, <4>1
    <3>3. \A s \in Upto(n + 1) :
              (IF s = {} THEN base ELSE step[pick[s]][h[s \ {pick[s]}]]) \in V
      BY <3>2
    <3> HIDE DEF Upto
    <3> QED BY <3>3
  <2>7. \A s \in Upto(n + 1) : g[s] = IF s = {} THEN base ELSE step[pick[s]][g[s \ {pick[s]}]]
    BY <2>3, <2>5
  <2> HIDE DEF g
  <2>8. Folds(g, n + 1)
    BY <2>6, <2>7
  <2> QED BY <2>1, <2>8
<1>5. T = Nat
  <2> HIDE DEF T
  <2>1. T \in SUBSET Nat
    BY DEF T
  <2> QED BY <1>3, <1>4, <2>1, Induction
<1>6. Cardinality(S) \in Nat /\ Upto(Cardinality(S)) = SUBSET S
  <2>1. \A s \in SUBSET S : Cardinality(s) <= Cardinality(S)
    BY FS_Subset
  <2> QED BY <1>1, <2>1
<1>7. PICK h : Folds(h, Cardinality(S))
  <2>1. Cardinality(S) \in T
    <3> HIDE DEF T
    <3> QED BY <1>5, <1>6
  <2> HIDE DEF Folds
  <2> QED BY <2>1
<1>8. /\ h \in [Upto(Cardinality(S)) -> V]
      /\ \A s \in Upto(Cardinality(S)) :
            h[s] = IF s = {} THEN base ELSE step[pick[s]][h[s \ {pick[s]}]]
  BY <1>7
<1> HIDE DEF Upto
<1> QED BY <1>6, <1>8 DEF FoldsSubsets

-----------------------------------------------------------------------------
\* No summand exceeds the sum.
LEMMA SumBounds ==
    ASSUME NEW f \in [Messages -> Nat], NEW m \in Messages
    PROVE  FoldFunction(+, 0, f) \in Nat /\ f[m] <= FoldFunction(+, 0, f)
<1> DEFINE pick == [s \in SUBSET Messages |-> CHOOSE x \in s : TRUE]
           step == [x \in Messages |-> [n \in Nat |-> f[x] + n]]
           Sums(h) == h = [s \in SUBSET Messages |->
               IF s = {} THEN 0 ELSE f[CHOOSE x \in s : TRUE] + h[s \ {CHOOSE x \in s : TRUE}]]
           sum == CHOOSE h : Sums(h)
<1>0. \A s \in SUBSET Messages : s # {} => pick[s] \in s /\ pick[s] \in Messages
  OBVIOUS
<1>1. PICK g \in [SUBSET Messages -> Nat] : FoldsSubsets(g, Messages, 0, step, pick)
  <2>1. step \in [Messages -> [Nat -> Nat]] /\ 0 \in Nat
    OBVIOUS
  <2>2. Picks(pick, Messages)
    BY <1>0 DEF Picks
  <2>3. IsFiniteSet(Messages)
    BY StreamAssumption
  <2> HIDE DEF step, pick
  <2> QED BY <2>1, <2>2, <2>3, FoldExists
<1>2. Sums(g)
  <2>1. \A s \in SUBSET Messages : s # {} =>
            g[s] = f[CHOOSE x \in s : TRUE] + g[s \ {CHOOSE x \in s : TRUE}]
    <3> SUFFICES ASSUME NEW s \in SUBSET Messages, s # {}
                 PROVE  g[s] = f[pick[s]] + g[s \ {pick[s]}]
      OBVIOUS
    <3>1. pick[s] \in Messages /\ g[s \ {pick[s]}] \in Nat
      BY <1>0
    <3>2. g[s] = step[pick[s]][g[s \ {pick[s]}]]
      BY <1>1 DEF FoldsSubsets
    <3> QED BY <3>1, <3>2
  <2>2. g[{}] = 0
    BY <1>1 DEF FoldsSubsets
  <2> QED BY <2>1, <2>2
<1>3. Sums(sum)
  <2> HIDE DEF Sums
  <2> QED BY <1>2
<1>4. FoldFunction(+, 0, f) = sum[Messages]
  <2>1. DOMAIN f = Messages
    OBVIOUS
  <2> QED BY <2>1 DEF FoldFunction, FoldFunctionOnSet, MapThenFoldSet
<1>5. /\ sum[{}] = 0
      /\ \A s \in SUBSET Messages : s # {} => sum[s] = f[pick[s]] + sum[s \ {pick[s]}]
  <2> HIDE DEF sum
  <2> QED BY <1>3
<1> HIDE DEF sum, pick, step
<1>6. \A s \in SUBSET Messages : IsFiniteSet(s) /\ Cardinality(s) \in Nat
  BY StreamAssumption, FS_Subset, FS_CardinalityType
<1> DEFINE Bounded(s) == sum[s] \in Nat /\ \A x \in s : f[x] <= sum[s]
           T == {n \in Nat : \A s \in SUBSET Messages : Cardinality(s) = n => Bounded(s)}
<1>7. 0 \in T
  BY <1>5, <1>6, FS_EmptySet
<1>8. ASSUME NEW n \in T PROVE n + 1 \in T
  <2> SUFFICES ASSUME NEW s \in SUBSET Messages, Cardinality(s) = n + 1 PROVE Bounded(s)
    OBVIOUS
  <2>1. s # {}
    BY FS_EmptySet
  <2> DEFINE x == pick[s]
             rest == s \ {x}
  <2>2. x \in s /\ x \in Messages
    BY <1>0, <2>1
  <2>3. rest \in SUBSET Messages /\ Cardinality(rest) = n
    <3>1. Cardinality(rest) = Cardinality(s) - 1
      BY <1>6, <2>2, FS_RemoveElement
    <3> QED BY <3>1
  <2>4. Bounded(rest)
    BY <2>3
  <2>5. sum[s] = f[x] + sum[rest] /\ f[x] \in Nat
    BY <1>5, <2>1, <2>2
  <2>6. ASSUME NEW y \in s PROVE f[y] <= sum[s]
    <3>1. CASE y = x
      BY <2>4, <2>5, <3>1
    <3>2. CASE y \in rest
      <4>1. f[y] \in Nat /\ f[y] <= sum[rest] /\ sum[rest] \in Nat
        BY <2>4, <3>2
      <4> HIDE DEF rest, x
      <4> QED BY <2>5, <4>1
    <3> QED BY <3>1, <3>2
  <2>7. sum[s] \in Nat
    <3>1. sum[rest] \in Nat
      BY <2>4
    <3> HIDE DEF rest, x
    <3> QED BY <2>5, <3>1
  <2> QED BY <2>6, <2>7
<1>9. T = Nat
  <2> HIDE DEF T
  <2>1. T \in SUBSET Nat
    BY DEF T
  <2> QED BY <1>7, <1>8, <2>1, Induction
<1>10. Bounded(Messages)
  <2>1. Cardinality(Messages) \in T
    <3> HIDE DEF T
    <3> QED BY <1>6, <1>9
  <2> QED BY <2>1
<1> QED BY <1>4, <1>10

-----------------------------------------------------------------------------
(* What a consumer shows after a sequence of events. *)

Views == [Messages -> Shown]
Shows(v, way) == FoldLeft(Applied, v, way)

LEMMA AppliedFacts ==
    ASSUME NEW v \in Views, NEW e \in StreamEvents
    PROVE  /\ Applied(v, e) \in Views
           /\ \A m \in Messages : Applied(v, e)[m] = IF m = e.message THEN Read(v[m], e) ELSE v[m]
<1>1. e.message \in Messages /\ e.to \in Shown /\ v[e.message] \in Shown /\ Garbled \in Shown
  BY DEF Views, StreamEvents, Shown
<1>2. Read(v[e.message], e) \in Shown
  BY <1>1 DEF Read
<1> QED BY <1>1, <1>2 DEF Views, Applied

\* The texts a consumer shows on the way, one after the other.
Traces(g, v, way) ==
    /\ g \in [0 .. Len(way) -> Views] /\ g[0] = v
    /\ \A k \in 1 .. Len(way) : g[k] = Applied(g[k - 1], way[k])

LEMMA MaxOfInterval == \A n \in Nat \ {0} : Max(1 .. n) = n /\ (1 .. n) \ {n} = 1 .. n - 1
<1> SUFFICES ASSUME NEW n \in Nat \ {0} PROVE Max(1 .. n) = n /\ (1 .. n) \ {n} = 1 .. n - 1
  OBVIOUS
<1>1. n \in 1 .. n /\ \A y \in 1 .. n : n >= y
  OBVIOUS
<1>2. \A x \in 1 .. n : (\A y \in 1 .. n : x >= y) => x = n
  BY <1>1
<1> QED BY <1>1, <1>2 DEF Max

\* Every set of positions has a last one.
LEMMA MaxOfSome ==
    ASSUME NEW n \in Nat, NEW s \in SUBSET (1 .. n), s # {}
    PROVE  Max(s) \in s
<1> DEFINE Above == {d \in Nat : \E x \in s : d = n - x}
<1>1. Above \in SUBSET Nat /\ Above # {}
  <2>1. PICK x \in s : TRUE
    OBVIOUS
  <2>2. n - x \in Nat
    BY <2>1
  <2>3. n - x \in Above
    BY <2>1, <2>2
  <2> QED BY <2>3
<1>2. PICK d \in Above : \A k \in Above : d <= k
  <2> HIDE DEF Above
  <2> QED BY <1>1, NatMin
<1>3. PICK x \in s : d = n - x
  BY <1>2
<1>4. \A y \in s : x >= y
  <2> SUFFICES ASSUME NEW y \in s PROVE x >= y
    OBVIOUS
  <2>1. x \in Nat /\ y \in Nat /\ n - y \in Nat
    OBVIOUS
  <2>2. n - y \in Above
    BY <2>1
  <2>3. d <= n - y
    BY <1>2, <2>2
  <2> HIDE DEF Above
  <2> QED BY <1>3, <2>1, <2>3
<1> QED BY <1>3, <1>4 DEF Max

LEMMA TraceOfFold ==
    ASSUME NEW v \in Views, NEW way \in Seq(StreamEvents)
    PROVE  \E g : Traces(g, v, way) /\ g[Len(way)] = Shows(v, way)
<1> DEFINE S == 1 .. Len(way)
           pick == [s \in SUBSET S |-> Max(s)]
           step == [i \in S |-> [w \in Views |-> Applied(w, way[i])]]
           Folds(h) == h = [s \in SUBSET S |->
               IF s = {} THEN v ELSE Applied(h[s \ {Max(s)}], way[Max(s)])]
           fold == CHOOSE h : Folds(h)
<1>0. Len(way) \in Nat /\ DOMAIN way = S /\ \A i \in S : way[i] \in StreamEvents
  OBVIOUS
<1>1. \A s \in SUBSET S : s # {} => pick[s] \in s
  BY <1>0, MaxOfSome
<1>2. PICK h \in [SUBSET S -> Views] : FoldsSubsets(h, S, v, step, pick)
  <2>1. step \in [S -> [Views -> Views]]
    BY <1>0, AppliedFacts
  <2>2. IsFiniteSet(S)
    BY <1>0, FS_Interval
  <2>3. Picks(pick, S)
    BY <1>1 DEF Picks
  <2> HIDE DEF step, pick, S
  <2> QED BY <2>1, <2>2, <2>3, FoldExists
<1>3. Folds(h)
  <2>1. \A s \in SUBSET S : s # {} => h[s] = Applied(h[s \ {Max(s)}], way[Max(s)])
    <3> SUFFICES ASSUME NEW s \in SUBSET S, s # {}
                 PROVE  h[s] = Applied(h[s \ {pick[s]}], way[pick[s]])
      OBVIOUS
    <3>1. pick[s] \in S /\ s \ {pick[s]} \in SUBSET S
      BY <1>1
    <3>2. h[s \ {pick[s]}] \in Views
      BY <3>1
    <3>3. h[s] = step[pick[s]][h[s \ {pick[s]}]]
      BY <1>2 DEF FoldsSubsets
    <3> HIDE DEF pick
    <3> QED BY <3>1, <3>2, <3>3
  <2>2. h[{}] = v
    BY <1>2 DEF FoldsSubsets
  <2> QED BY <2>1, <2>2
<1>4. Folds(fold)
  <2> HIDE DEF Folds
  <2> QED BY <1>3
<1>5. Shows(v, way) = fold[S]
  BY <1>0 DEF Shows, FoldLeft, MapThenFoldSet
<1>6. /\ fold[{}] = v
      /\ \A s \in SUBSET S : s # {} => fold[s] = Applied(fold[s \ {Max(s)}], way[Max(s)])
  <2> HIDE DEF fold
  <2> QED BY <1>4
<1> HIDE DEF fold
<1> DEFINE g == [k \in 0 .. Len(way) |-> fold[1 .. k]]
<1>7. g[0] = v /\ g[Len(way)] = Shows(v, way)
  <2>1. 1 .. 0 = {}
    OBVIOUS
  <2> QED BY <1>0, <1>5, <1>6, <2>1
<1>8. \A k \in 1 .. Len(way) : g[k] = Applied(g[k - 1], way[k])
  <2> SUFFICES ASSUME NEW k \in 1 .. Len(way) PROVE fold[1 .. k] = Applied(fold[1 .. k - 1], way[k])
    BY <1>0
  <2>1. 1 .. k \in SUBSET S /\ k \in 1 .. k /\ k \in Nat \ {0}
    <3>1. k \in Nat /\ 1 <= k /\ k <= Len(way)
      BY <1>0
    <3> QED BY <1>0, <3>1
  <2> QED BY <1>6, <2>1, MaxOfInterval
<1>9. g \in [0 .. Len(way) -> Views]
  <2> DEFINE T == {k \in Nat : k <= Len(way) => g[k] \in Views}
  <2>1. 0 \in T
    BY <1>7
  <2>2. ASSUME NEW k \in T PROVE k + 1 \in T
    <3> SUFFICES ASSUME k + 1 <= Len(way) PROVE g[k + 1] \in Views
      OBVIOUS
    <3>1. k + 1 \in 1 .. Len(way) /\ (k + 1) - 1 = k /\ g[k] \in Views
      BY <1>0
    <3>2. g[k + 1] = Applied(g[k], way[k + 1])
      BY <1>8, <3>1
    <3> QED BY <1>0, <3>1, <3>2, AppliedFacts
  <2>3. T = Nat
    <3>1. T \in SUBSET Nat
      OBVIOUS
    <3> HIDE DEF T
    <3> QED BY <2>1, <2>2, <3>1, Induction
  <2>4. \A k \in 0 .. Len(way) : g[k] \in Views
    <3>1. \A k \in Nat : k <= Len(way) => g[k] \in Views
      BY <2>3
    <3> HIDE DEF g
    <3> QED BY <1>0, <3>1
  <2> QED BY <2>4
<1> HIDE DEF g
<1> QED BY <1>7, <1>8, <1>9 DEF Traces

LEMMA TraceUnique ==
    ASSUME NEW v \in Views, NEW way \in Seq(StreamEvents), NEW g, Traces(g, v, way)
    PROVE  g[Len(way)] = Shows(v, way)
<1>1. PICK h : Traces(h, v, way) /\ h[Len(way)] = Shows(v, way)
  BY TraceOfFold
<1> DEFINE T == {k \in Nat : k <= Len(way) => g[k] = h[k]}
<1>2. 0 \in T
  BY <1>1 DEF Traces
<1>3. ASSUME NEW k \in T PROVE k + 1 \in T
  <2> SUFFICES ASSUME k + 1 <= Len(way) PROVE g[k + 1] = h[k + 1]
    OBVIOUS
  <2>1. k + 1 \in 1 .. Len(way) /\ (k + 1) - 1 = k /\ g[k] = h[k]
    OBVIOUS
  <2>2. g[k + 1] = Applied(g[k], way[k + 1]) /\ h[k + 1] = Applied(h[k], way[k + 1])
    BY <1>1, <2>1 DEF Traces
  <2> QED BY <2>1, <2>2
<1>4. T = Nat
  <2>1. T \in SUBSET Nat
    OBVIOUS
  <2> HIDE DEF T
  <2> QED BY <1>2, <1>3, <2>1, Induction
<1> QED BY <1>1, <1>4

-----------------------------------------------------------------------------
LEMMA ShowsNone == \A v \in Views : Shows(v, << >>) = v
<1> SUFFICES ASSUME NEW v \in Views PROVE Shows(v, << >>) = v
  OBVIOUS
<1>0. << >> \in Seq(StreamEvents)
  OBVIOUS
<1>1. PICK g : Traces(g, v, << >>) /\ g[Len(<< >>)] = Shows(v, << >>)
  BY <1>0, TraceOfFold
<1>2. Len(<< >>) = 0
  OBVIOUS
<1> QED BY <1>1, <1>2 DEF Traces

LEMMA ShowsLast ==
    ASSUME NEW v \in Views, NEW way \in Seq(StreamEvents), NEW e \in StreamEvents
    PROVE  /\ Shows(v, way) \in Views
           /\ Shows(v, Append(way, e)) = Applied(Shows(v, way), e)
<1> DEFINE n == Len(way)
           new == Append(way, e)
<1>1. PICK g : Traces(g, v, way) /\ g[n] = Shows(v, way)
  BY TraceOfFold
<1>2. /\ n \in Nat /\ new \in Seq(StreamEvents) /\ Len(new) = n + 1 /\ new[n + 1] = e
      /\ \A k \in 1 .. n : new[k] = way[k]
  OBVIOUS
<1>3. g[n] \in Views /\ g[0] = v /\ \A k \in 0 .. n : g[k] \in Views
  BY <1>1, <1>2 DEF Traces
<1> DEFINE h == [k \in 0 .. n + 1 |-> IF k = n + 1 THEN Applied(g[n], e) ELSE g[k]]
<1>4. Traces(h, v, new)
  <2>1. Applied(g[n], e) \in Views
    BY <1>3, AppliedFacts
  <2>2. h \in [0 .. n + 1 -> Views] /\ h[0] = v
    BY <1>2, <1>3, <2>1
  <2>3. ASSUME NEW k \in 1 .. n + 1 PROVE h[k] = Applied(h[k - 1], new[k])
    <3>1. CASE k = n + 1
      BY <1>2, <3>1
    <3>2. CASE k # n + 1
      <4>1. k \in 1 .. n /\ k - 1 \in 0 .. n /\ h[k] = g[k] /\ h[k - 1] = g[k - 1]
        BY <1>2, <3>2
      <4>2. g[k] = Applied(g[k - 1], way[k])
        BY <1>1, <4>1 DEF Traces
      <4> QED BY <1>2, <4>1, <4>2
    <3> QED BY <3>1, <3>2
  <2> HIDE DEF h, new
  <2> QED BY <1>2, <2>2, <2>3 DEF Traces
<1>5. h[n + 1] = Applied(g[n], e)
  BY <1>2
<1> HIDE DEF h
<1>6. h[Len(new)] = Shows(v, new)
  BY <1>2, <1>4, TraceUnique
<1> QED BY <1>1, <1>2, <1>3, <1>5, <1>6

LEMMA ShowsFirst ==
    ASSUME NEW v \in Views, NEW way \in Seq(StreamEvents), NEW e \in StreamEvents
    PROVE  Shows(v, <<e>> \o way) = Shows(Applied(v, e), way)
<1> DEFINE n == Len(way)
           new == <<e>> \o way
           w == Applied(v, e)
<1>1. w \in Views
  BY AppliedFacts
<1>2. PICK g : Traces(g, w, way) /\ g[n] = Shows(w, way)
  BY <1>1, TraceOfFold
<1>3. /\ n \in Nat /\ new \in Seq(StreamEvents) /\ Len(new) = n + 1 /\ new[1] = e
      /\ \A k \in 1 .. n : new[k + 1] = way[k]
  OBVIOUS
<1>4. g[0] = w /\ \A k \in 0 .. n : g[k] \in Views
  BY <1>2, <1>3 DEF Traces
<1> DEFINE h == [k \in 0 .. n + 1 |-> IF k = 0 THEN v ELSE g[k - 1]]
<1>5. Traces(h, v, new)
  <2>1. h[0] = v /\ h \in [0 .. n + 1 -> Views]
    <3>1. \A k \in 0 .. n + 1 : k # 0 => k - 1 \in 0 .. n
      BY <1>3
    <3> QED BY <1>3, <1>4, <3>1
  <2>2. ASSUME NEW k \in 1 .. n + 1 PROVE h[k] = Applied(h[k - 1], new[k])
    <3>1. CASE k = 1
      BY <1>3, <1>4, <3>1
    <3>2. CASE k # 1
      <4>1. k - 1 \in 1 .. n /\ (k - 1) - 1 \in 0 .. n /\ k - 1 # 0 /\ k # 0
            /\ k \in 0 .. n + 1 /\ k - 1 \in 0 .. n + 1 /\ (k - 1) + 1 = k
        BY <1>3, <3>2
      <4>2. g[k - 1] = Applied(g[(k - 1) - 1], way[k - 1])
        BY <1>2, <4>1 DEF Traces
      <4>3. new[k] = way[k - 1] /\ h[k] = g[k - 1] /\ h[k - 1] = g[(k - 1) - 1]
        BY <1>3, <4>1
      <4> QED BY <4>2, <4>3
    <3> QED BY <3>1, <3>2
  <2> HIDE DEF h, new, w
  <2> QED BY <1>3, <2>1, <2>2 DEF Traces
<1>6. h[n + 1] = g[n]
  BY <1>3
<1> HIDE DEF h
<1>7. h[Len(new)] = Shows(v, new)
  BY <1>3, <1>5, TraceUnique
<1> QED BY <1>2, <1>3, <1>6, <1>7

-----------------------------------------------------------------------------
(* Texts, and what merging makes of two events. *)

LEMMA Apart ==
    /\ Unseen \notin Texts /\ Garbled \notin Texts /\ Unseen # Garbled
    /\ NoText \in Texts /\ Texts \subseteq Shown /\ {Unseen, Garbled} \subseteq Shown
<1>1. MaxRewrites \in Nat /\ MaxLength \in Nat
  BY StreamAssumption
<1>2. Unseen.version # Garbled.version /\ Unseen.version \notin 0 .. MaxRewrites
      /\ Garbled.version \notin 0 .. MaxRewrites
  BY <1>1 DEF Unseen, Garbled
<1> QED BY <1>1, <1>2 DEF Texts, Unseen, Garbled, NoText, Shown

LEMMA MergedFacts ==
    ASSUME NEW a \in StreamEvents, NEW e \in StreamEvents, Merges(a, e),
           e.from \in Texts, a.to # Unseen, e.to # Unseen, NEW v \in Views
    PROVE  /\ Merged(a, e) \in StreamEvents /\ Merged(a, e).to # Unseen
           /\ Applied(v, Merged(a, e)) = Applied(Applied(v, a), e)
<1> DEFINE b == Merged(a, e)
           m == e.message
<1>1. /\ b \in StreamEvents /\ b.message = a.message /\ b.kind = a.kind /\ b.reset = a.reset
      /\ b.from = a.from /\ b.to = IF Same(a.to, e.from) THEN e.to ELSE Garbled
  BY Apart DEF Merged, Merges, StreamEvents
<1>2. b.to # Unseen
  BY <1>1, Apart
<1>3. a.message = m /\ m \in Messages /\ e.kind = "delta" /\ a.kind = "delta" /\ ~e.reset
  BY DEF Merges, StreamEvents
<1>4. Read(v[m], b) = Read(Read(v[m], a), e)
  <2>1. CASE a.to = Garbled
    <3>1. ~Same(a.to, e.from)
      BY <2>1, Apart DEF Same
    <3> QED BY <1>1, <1>3, <2>1, <3>1 DEF Read, Replaces
  <2>2. CASE a.to # Garbled
    BY <1>1, <1>3, <2>2 DEF Read, Replaces
  <2> QED BY <2>1, <2>2
<1> HIDE DEF b
<1>5. Applied(v, a) \in Views /\ Applied(v, b) \in Views /\ Applied(Applied(v, a), e) \in Views
  BY <1>1, AppliedFacts
<1>6. \A k \in Messages : Applied(v, b)[k] = Applied(Applied(v, a), e)[k]
  <2> SUFFICES ASSUME NEW k \in Messages
               PROVE  Applied(v, b)[k] = Applied(Applied(v, a), e)[k]
    OBVIOUS
  <2>1. Applied(v, a)[k] = IF k = m THEN Read(v[k], a) ELSE v[k]
    BY <1>3, AppliedFacts
  <2>2. Applied(v, b)[k] = IF k = m THEN Read(v[k], b) ELSE v[k]
    BY <1>1, <1>3, AppliedFacts
  <2>3. Applied(Applied(v, a), e)[k] = IF k = m THEN Read(Applied(v, a)[k], e) ELSE Applied(v, a)[k]
    BY <1>5, AppliedFacts
  <2> QED BY <1>4, <2>1, <2>2, <2>3
<1>7. Applied(v, b) = Applied(Applied(v, a), e)
  BY <1>5, <1>6 DEF Views
<1> QED BY <1>1, <1>2, <1>7 DEF b

-----------------------------------------------------------------------------
(* Sequences. *)

LEMMA Appending ==
    ASSUME NEW S, NEW q \in Seq(S), NEW e \in S
    PROVE  q \o <<e>> = Append(q, e) /\ Append(q, e) \in Seq(S)
BY SeqEqual, ConcatProperties

LEMMA Splitting ==
    ASSUME NEW S, NEW q \in Seq(S), q # << >>
    PROVE  /\ Head(q) \in S /\ Tail(q) \in Seq(S) /\ q = <<Head(q)>> \o Tail(q)
           /\ Front(q) \in Seq(S) /\ Last(q) \in S /\ q = Append(Front(q), Last(q))
           /\ Len(Front(q)) = Len(q) - 1 /\ \A i \in 1 .. Len(q) - 1 : Front(q)[i] = q[i]
<1>1. Len(q) \in Nat \ {0} /\ \A i \in 1 .. Len(q) : q[i] \in S
  OBVIOUS
<1>2. /\ Head(q) \in S /\ Tail(q) \in Seq(S) /\ Len(Tail(q)) = Len(q) - 1
      /\ \A i \in 1 .. Len(Tail(q)) : Tail(q)[i] = q[i + 1]
  BY HeadTailProperties
<1>3. q = <<Head(q)>> \o Tail(q)
  <2>1. <<Head(q)>> \in Seq(S) /\ Len(<<Head(q)>>) = 1 /\ <<Head(q)>>[1] = q[1]
    BY <1>1, <1>2
  <2>2. /\ <<Head(q)>> \o Tail(q) \in Seq(S) /\ Len(<<Head(q)>> \o Tail(q)) = Len(q)
        /\ \A i \in 1 .. Len(q) : (<<Head(q)>> \o Tail(q))[i] =
               IF i <= 1 THEN <<Head(q)>>[i] ELSE Tail(q)[i - 1]
    BY <1>1, <1>2, <2>1, ConcatProperties
  <2>3. \A i \in 1 .. Len(q) : q[i] = (<<Head(q)>> \o Tail(q))[i]
    BY <1>1, <1>2, <2>1, <2>2
  <2> QED BY <2>2, <2>3, SeqEqual
<1>4. /\ Front(q) \in Seq(S) /\ Len(Front(q)) = Len(q) - 1
      /\ \A i \in 1 .. Len(q) - 1 : Front(q)[i] = q[i]
  BY <1>1, SubSeqProperties DEF Front
<1>5. Last(q) \in S /\ Last(q) = q[Len(q)]
  BY <1>1 DEF Last
<1>6. q = Append(Front(q), Last(q))
  <2>1. Append(Front(q), Last(q)) \in Seq(S) /\ Len(Append(Front(q), Last(q))) = Len(q)
    BY <1>1, <1>4, <1>5
  <2>2. \A i \in 1 .. Len(q) : Append(Front(q), Last(q))[i] = q[i]
    BY <1>1, <1>4, <1>5
  <2> QED BY <2>1, <2>2, SeqEqual
<1> QED BY <1>2, <1>3, <1>4, <1>5, <1>6

-----------------------------------------------------------------------------
(* Types. *)

LEMMA StreamTypedInit == StreamInit => StreamTypeOK
<1> SUFFICES ASSUME StreamInit PROVE StreamTypeOK
  OBVIOUS
<1>1. NoText \in Texts /\ Unseen \in Shown /\ Len(<< >>) = 0
  BY Apart
<1>2. {queue, carried, channel} \subseteq [Subscribers -> Seq(StreamEvents)]
  BY DEF StreamInit
<1>3. event \in [Publishers -> Seq(StreamEvents)]
  BY DEF StreamInit
<1>4. emitted \in [Messages -> 0 .. MaxEvents] /\ OutLimit \in Nat
  BY StreamAssumption DEF StreamInit
<1> QED BY <1>1, <1>2, <1>3, <1>4 DEF StreamInit, StreamTypeOK

LEMMA Pairs ==
    /\ \A p \in Publishers :
         /\ p[1] \in Messages /\ Other(p) \in Publishers /\ Other(p)[1] = p[1]
         /\ Other(p) # p /\ Other(Other(p)) = p
    /\ \A p, q \in Publishers : p[1] = q[1] => p = q \/ p = Other(q)
    /\ \A m \in Messages : /\ <<m, "run">> \in Publishers /\ <<m, "relay">> \in Publishers
                           /\ Other(<<m, "run">>) = <<m, "relay">>
                           /\ Other(<<m, "relay">>) = <<m, "run">>
BY DEF Publishers, Other

\* An event that a publisher makes, and the text that is published with it.
Makes(p, e, t) ==
    /\ e \in StreamEvents /\ t \in Texts
    /\ e.message = p[1] /\ e.from = baseline[p[1]] /\ e.to = t
    /\ event' = [event EXCEPT ![p] = <<e>>] /\ baseline' = [baseline EXCEPT ![p[1]] = t]
    /\ stage[p] = "idle" /\ stage' = [stage EXCEPT ![p] = "made"]
    /\ emitted[p[1]] < MaxEvents /\ emitted' = [emitted EXCEPT ![p[1]] = @ + 1]
    /\ locked' \subseteq Publishers
    /\ overlapped' = IF stage[Other(p)] # "idle" THEN overlapped \cup {p[1]}
                     ELSE IF Replaces(e) THEN overlapped \ {p[1]} ELSE overlapped
    /\ UNCHANGED <<receivers, streamDelivery>>

LEMMA Publishing ==
    ASSUME StreamTypeOK, NEW m \in Messages,
           PublishDelta(m) \/ PublishUpdate(m) \/ PublishProjection(m)
    PROVE  \E p \in Publishers : \E e, t : Makes(p, e, t)
<1>1. baseline[m] \in Texts /\ Texts \subseteq Shown
  BY Apart DEF StreamTypeOK
<1>2. emitted[m] <= FoldFunction(+, 0, emitted) /\ FoldFunction(+, 0, emitted) \in Nat /\ emitted[m] \in Nat
  <2>1. emitted \in [Messages -> Nat]
    BY StreamAssumption DEF StreamTypeOK
  <2> QED BY <2>1, SumBounds
<1>3. ASSUME NEW p \in Publishers, p[1] = m, NEW kind \in {"delta", "whole"}, NEW t \in Texts,
             NEW reset \in BOOLEAN, NEW lock \in BOOLEAN, Emit(p, kind, t, reset, lock)
      PROVE  \E e, u : Makes(p, e, u)
  <2> DEFINE e == [message |-> m, kind |-> kind, reset |-> reset, from |-> baseline[m], to |-> t]
  <2>1. e \in StreamEvents
    BY <1>1 DEF StreamEvents
  <2>2. emitted[m] < MaxEvents
    <3> DEFINE total == FoldFunction(+, 0, emitted)
    <3>1. total < MaxEvents
      BY <1>3 DEF Emit, EmitAnyway
    <3>2. emitted[m] <= total /\ total \in Nat /\ emitted[m] \in Nat /\ MaxEvents \in Nat
      BY <1>2, StreamAssumption
    <3> HIDE DEF total
    <3> QED BY <3>1, <3>2
  <2>3. locked' \subseteq Publishers
    BY <1>3 DEF Emit, EmitAnyway, StreamTypeOK
  <2>4. overlapped' = IF stage[Other(p)] # "idle" THEN overlapped \cup {m}
                      ELSE IF Replaces(e) THEN overlapped \ {m} ELSE overlapped
    BY <1>3 DEF Emit, EmitAnyway
  <2>5. Makes(p, e, t)
    BY <1>3, <2>1, <2>2, <2>3, <2>4 DEF Makes, Emit, EmitAnyway
  <2> QED BY <2>5
<1>4. CASE PublishDelta(m)
  <2>1. PICK t \in Texts : Emit(<<m, "run">>, "delta", t, ~Continues(t, baseline[m]), FALSE)
    BY <1>4 DEF PublishDelta
  <2>2. (~Continues(t, baseline[m])) \in BOOLEAN
    BY DEF Continues
  <2> QED BY <1>3, <2>1, <2>2, Pairs
<1>5. CASE PublishUpdate(m)
  <2>1. PICK t \in Texts, lock \in BOOLEAN : Emit(<<m, "run">>, "whole", t, FALSE, lock)
    BY <1>5 DEF PublishUpdate
  <2>2. <<m, "run">> \in Publishers /\ <<m, "run">>[1] = m /\ "whole" \in {"delta", "whole"}
        /\ FALSE \in BOOLEAN
    BY DEF Publishers
  <2>3. \E e, u : Makes(<<m, "run">>, e, u)
    BY <1>3, <2>1, <2>2
  <2> QED BY <2>2, <2>3
<1>6. CASE PublishProjection(m)
  <2>1. PICK t \in Texts : Emit(<<m, "relay">>, "whole", t, FALSE, TRUE)
    BY <1>6 DEF PublishProjection
  <2> QED BY <1>3, <2>1, Pairs
<1> QED BY <1>4, <1>5, <1>6

-----------------------------------------------------------------------------
LEMMA MergedTyped == \A a, e \in StreamEvents : Merged(a, e) \in StreamEvents
BY Apart DEF Merged, StreamEvents

Queues == [Subscribers -> Seq(StreamEvents)]

\* What enqueue does to a queue.
Put(q, e) ==
    IF q # << >> /\ Merges(Last(q), e) THEN Front(q) \o <<Merged(Last(q), e)>>
    ELSE Append(q, e)

LEMMA PutTyped ==
    ASSUME NEW q \in Seq(StreamEvents), NEW e \in StreamEvents
    PROVE  Put(q, e) \in Seq(StreamEvents)
<1>1. CASE q # << >> /\ Merges(Last(q), e)
  <2>1. Front(q) \in Seq(StreamEvents) /\ Merged(Last(q), e) \in StreamEvents
    BY <1>1, Splitting, MergedTyped
  <2>2. Front(q) \o <<Merged(Last(q), e)>> \in Seq(StreamEvents)
    BY <2>1, Appending
  <2> QED BY <1>1, <2>2 DEF Put
<1>2. CASE ~(q # << >> /\ Merges(Last(q), e))
  BY <1>2, Appending DEF Put
<1> QED BY <1>1, <1>2

\* The event of a publication that is not over.
LEMMA EventTyped ==
    ASSUME StreamTypeOK, NEW p \in Publishers, event[p] # << >>
    PROVE  event[p][1] \in StreamEvents /\ Len(event[p]) = 1 /\ event[p] = <<event[p][1]>>
<1>1. event[p] \in Seq(StreamEvents) /\ Len(event[p]) <= 1
  BY DEF StreamTypeOK
<1>2. Len(event[p]) = 1
  <2> DEFINE q == event[p]
  <2>1. q \in Seq(StreamEvents) /\ Len(q) \in Nat /\ Len(q) <= 1 /\ q # << >>
    BY <1>1
  <2> HIDE DEF q
  <2>2. Len(q) # 0
    <3>1. Len(q) \in Nat \ {0}
      BY <2>1, EmptySeq
    <3> DEFINE n == Len(q)
    <3> HIDE DEF n
    <3>2. n \in Nat \ {0}
      BY <3>1 DEF n
    <3>3. n # 0
      BY <3>2
    <3> QED BY <3>3 DEF n
  <2>3. Len(q) = 1
    <3> DEFINE n == Len(q)
    <3>1. n \in Nat /\ n <= 1 /\ n # 0
      BY <2>1, <2>2
    <3> HIDE DEF n
    <3>2. n = 1
      BY <3>1
    <3> QED BY <3>2 DEF n
  <2> QED BY <2>3 DEF q
<1>3. event[p][1] \in StreamEvents
  BY <1>1, <1>2
<1>4. <<event[p][1]>> \in Seq(StreamEvents) /\ Len(<<event[p][1]>>) = 1
  BY <1>3
<1>5. event[p] = <<event[p][1]>>
  BY <1>1, <1>2, <1>4, SeqEqual
<1> QED BY <1>2, <1>3, <1>5

LEMMA StreamTypedStep ==
    StreamTypeOK /\ (\A p \in Publishers : stage[p] = "send" => event[p] # << >>)
        /\ [StreamNext]_streamVars => StreamTypeOK'
<1> SUFFICES ASSUME StreamTypeOK, [StreamNext]_streamVars,
                    \A p \in Publishers : stage[p] = "send" => event[p] # << >>
             PROVE  StreamTypeOK'
  OBVIOUS
<1> USE DEF streamSource, streamPublish, streamDelivery
<1>0. /\ queue \in Queues /\ carried \in Queues /\ channel \in Queues
      /\ \A s \in Subscribers : /\ queue[s] \in Seq(StreamEvents) /\ carried[s] \in Seq(StreamEvents)
                                /\ channel[s] \in Seq(StreamEvents)
                                /\ Len(carried[s]) <= 1 /\ Len(channel[s]) <= OutLimit
      /\ screen \in [Subscribers -> Views]
      /\ MaxEvents \in Nat /\ OutLimit \in Nat
  BY StreamAssumption DEF StreamTypeOK, Queues, Views
<1>1. ASSUME NEW m \in Messages, PublishDelta(m) \/ PublishUpdate(m) \/ PublishProjection(m)
      PROVE  StreamTypeOK'
  <2>0. PICK p \in Publishers : \E e, t : Makes(p, e, t)
    BY <1>1, Publishing
  <2>1. PICK e, t : Makes(p, e, t)
    BY <2>0
  <2>2. <<e>> \in Seq(StreamEvents) /\ Len(<<e>>) = 1
    BY <2>1 DEF Makes
  <2>3. emitted' \in [Messages -> 0 .. MaxEvents]
    BY <1>0, <2>1, Pairs DEF Makes, StreamTypeOK
  <2>4. overlapped' \subseteq Messages
    BY <2>1, Pairs DEF Makes, StreamTypeOK
  <2> QED BY <2>1, <2>2, <2>3, <2>4 DEF Makes, StreamTypeOK
<1>2. ASSUME NEW p \in Publishers, Snapshot(p) \/ Published(p)
      PROVE  StreamTypeOK'
  <2>1. /\ event' \in [Publishers -> Seq(StreamEvents)] /\ \A k \in Publishers : Len(event'[k]) <= 1
        /\ stage' \in [Publishers -> {"idle", "made", "send"}]
        /\ receivers' \in [Publishers -> SUBSET Subscribers]
    <3>1. << >> \in Seq(StreamEvents) /\ Len(<< >>) = 0
      OBVIOUS
    <3>2. event' = event \/ event' = [event EXCEPT ![p] = << >>]
      BY <1>2 DEF Snapshot, Published
    <3>3. event' \in [Publishers -> Seq(StreamEvents)]
      BY <3>1, <3>2 DEF StreamTypeOK
    <3>4. \A k \in Publishers : event'[k] = << >> \/ event'[k] = event[k]
      BY <3>2 DEF StreamTypeOK
    <3>5. \A k \in Publishers : Len(event'[k]) <= 1
      <4> SUFFICES ASSUME NEW k \in Publishers PROVE Len(event'[k]) <= 1
        OBVIOUS
      <4>1. Len(event[k]) <= 1
        BY DEF StreamTypeOK
      <4>2. CASE event'[k] = << >>
        BY <3>1, <4>2
      <4>3. CASE event'[k] = event[k]
        BY <4>1, <4>3
      <4> QED BY <3>4, <4>2, <4>3
    <3>6. /\ stage' \in [Publishers -> {"idle", "made", "send"}]
          /\ receivers' \in [Publishers -> SUBSET Subscribers]
      BY <1>2 DEF Snapshot, Published, StreamTypeOK
    <3> QED BY <3>3, <3>5, <3>6
  <2>2. UNCHANGED <<overlapped, streamSource, streamDelivery>> /\ locked' \subseteq Publishers
    BY <1>2 DEF Snapshot, Published, StreamTypeOK
  <2>3. {queue', carried', channel'} \subseteq [Subscribers -> Seq(StreamEvents)]
    BY <1>0, <2>2 DEF Queues
  <2>4. \A s \in Subscribers : Len(carried'[s]) <= 1 /\ Len(channel'[s]) <= OutLimit
    BY <1>0, <2>2
  <2> QED BY <2>1, <2>2, <2>3, <2>4 DEF StreamTypeOK
<1>3. ASSUME NEW p \in Publishers, NEW s \in Subscribers, Enqueue(p, s)
      PROVE  StreamTypeOK'
  <2>1. event[p][1] \in StreamEvents
    BY <1>3, EventTyped DEF Enqueue
  <2>2. queue' = [queue EXCEPT ![s] = IF s \notin subscribed THEN queue[s] ELSE Put(queue[s], event[p][1])]
    BY <1>3 DEF Enqueue, Put
  <2>3. queue' \in Queues
    BY <1>0, <2>1, <2>2, PutTyped DEF Queues
  <2>4. receivers' \in [Publishers -> SUBSET Subscribers]
    BY <1>3 DEF Enqueue, StreamTypeOK
  <2>5. UNCHANGED <<event, stage, locked, overlapped, streamSource, subscribed, carried, channel, screen>>
    BY <1>3 DEF Enqueue
  <2>6. \A r \in Subscribers : Len(carried'[r]) <= 1 /\ Len(channel'[r]) <= OutLimit
    BY <1>0, <2>5
  <2>7. {queue', carried', channel'} \subseteq [Subscribers -> Seq(StreamEvents)]
    BY <1>0, <2>3, <2>5 DEF Queues
  <2> QED BY <2>4, <2>5, <2>6, <2>7 DEF StreamTypeOK
<1>4. ASSUME NEW s \in Subscribers,
             UNCHANGED <<streamSource, event, stage, locked, overlapped>>, receivers' \in [Publishers -> SUBSET Subscribers],
             subscribed' \subseteq Subscribers,
             queue' \in Queues, carried' \in Queues, channel' \in Queues,
             screen' \in [Subscribers -> Views],
             \A r \in Subscribers \ {s} : carried'[r] = carried[r] /\ channel'[r] = channel[r],
             Len(carried'[s]) <= 1, Len(channel'[s]) <= OutLimit
      PROVE  StreamTypeOK'
  <2>1. \A r \in Subscribers : Len(carried'[r]) <= 1 /\ Len(channel'[r]) <= OutLimit
    BY <1>0, <1>4
  <2> QED BY <1>4, <2>1 DEF StreamTypeOK, Queues, Views
<1>5. receivers \in [Publishers -> SUBSET Subscribers] /\ subscribed \subseteq Subscribers
  BY DEF StreamTypeOK
<1>6. ASSUME NEW s \in Subscribers, Carry(s) PROVE StreamTypeOK'
  <2>1. Head(queue[s]) \in StreamEvents /\ Tail(queue[s]) \in Seq(StreamEvents)
    BY <1>0, <1>6, Splitting DEF Carry
  <2>2. <<Head(queue[s])>> \in Seq(StreamEvents) /\ Len(<<Head(queue[s])>>) = 1
    BY <2>1
  <2>3. queue' \in Queues
    BY <1>0, <1>6, <2>1 DEF Carry, Queues
  <2>4. /\ carried' \in Queues /\ Len(carried'[s]) <= 1
        /\ \A r \in Subscribers \ {s} : carried'[r] = carried[r]
    BY <1>0, <1>6, <2>2 DEF Carry, Queues
  <2>5. UNCHANGED <<streamSource, streamPublish, subscribed, channel, screen>>
    BY <1>6 DEF Carry
  <2> QED BY <1>0, <1>4, <1>5, <2>3, <2>4, <2>5
<1>7. ASSUME NEW s \in Subscribers, Deliver(s) PROVE StreamTypeOK'
  <2>1. /\ channel[s] \o carried[s] \in Seq(StreamEvents)
        /\ Len(channel[s] \o carried[s]) = Len(channel[s]) + Len(carried[s])
    BY <1>0, ConcatProperties
  <2>2. Len(channel[s] \o carried[s]) <= OutLimit
    <3>1. Len(channel[s]) \in Nat /\ Len(carried[s]) \in Nat /\ Len(carried[s]) <= 1
      BY <1>0
    <3>2. Len(channel[s]) < OutLimit
      BY <1>7 DEF Deliver
    <3> DEFINE c == Len(channel[s])  k == Len(carried[s])
    <3>3. c \in Nat /\ k \in Nat /\ k <= 1 /\ c < OutLimit /\ OutLimit \in Nat
      BY <1>0, <3>1, <3>2
    <3> HIDE DEF c, k
    <3>4. c + k <= OutLimit
      BY <3>3
    <3> QED BY <2>1, <3>4 DEF c, k
  <2>3. << >> \in Seq(StreamEvents) /\ Len(<< >>) = 0
    OBVIOUS
  <2>4. /\ carried' \in Queues /\ Len(carried'[s]) <= 1
        /\ \A r \in Subscribers \ {s} : carried'[r] = carried[r]
    BY <1>0, <1>7, <2>3 DEF Deliver, Queues
  <2>5. /\ channel' \in Queues /\ Len(channel'[s]) <= OutLimit
        /\ \A r \in Subscribers \ {s} : channel'[r] = channel[r]
    <3>1. channel' = [channel EXCEPT ![s] = channel[s] \o carried[s]]
      BY <1>7 DEF Deliver
    <3> QED BY <1>0, <2>1, <2>2, <3>1 DEF Queues
  <2>6. UNCHANGED <<streamSource, streamPublish, subscribed, queue, screen>>
    BY <1>7 DEF Deliver
  <2> QED BY <1>0, <1>4, <1>5, <2>4, <2>5, <2>6
<1>8. ASSUME NEW s \in Subscribers, Consume(s) PROVE StreamTypeOK'
  <2>1. Head(channel[s]) \in StreamEvents /\ Tail(channel[s]) \in Seq(StreamEvents)
    BY <1>0, <1>8, Splitting DEF Consume
  <2>2. Len(Tail(channel[s])) <= OutLimit
    <3>1. channel[s] # << >>
      BY <1>8 DEF Consume
    <3>2. Len(Tail(channel[s])) = Len(channel[s]) - 1 /\ Len(channel[s]) \in Nat
      BY <1>0, <3>1, HeadTailProperties
    <3>3. Len(channel[s]) <= OutLimit
      BY <1>0
    <3> QED BY <1>0, <3>2, <3>3
  <2>3. /\ channel' \in Queues /\ Len(channel'[s]) <= OutLimit
        /\ \A r \in Subscribers \ {s} : channel'[r] = channel[r]
    BY <1>0, <1>8, <2>1, <2>2 DEF Consume, Queues
  <2>4. screen' \in [Subscribers -> Views]
    <3>1. Applied(screen[s], Head(channel[s])) \in Views
      BY <1>0, <2>1, AppliedFacts
    <3> QED BY <1>0, <1>8, <3>1 DEF Consume
  <2>5. UNCHANGED <<streamSource, streamPublish, subscribed, queue, carried>>
    BY <1>8 DEF Consume
  <2> QED BY <1>0, <1>4, <1>5, <2>3, <2>4, <2>5
<1>9. ASSUME NEW s \in Subscribers, Subscribe(s) PROVE StreamTypeOK'
  <2>1. screen' \in [Subscribers -> Views]
    BY <1>0, <1>9, Apart DEF Subscribe, Views
  <2>2. subscribed' \subseteq Subscribers
    BY <1>5, <1>9 DEF Subscribe
  <2>3. UNCHANGED <<streamSource, streamPublish, queue, carried, channel>>
    BY <1>9 DEF Subscribe
  <2> QED BY <1>0, <1>4, <1>5, <2>1, <2>2, <2>3
<1>10. ASSUME NEW s \in Subscribers, Unsubscribe(s) PROVE StreamTypeOK'
  <2>1. << >> \in Seq(StreamEvents) /\ Len(<< >>) = 0
    OBVIOUS
  <2>2. queue' \in Queues
    BY <1>0, <1>10, <2>1 DEF Unsubscribe, Queues
  <2>3. /\ carried' \in Queues /\ Len(carried'[s]) <= 1
        /\ \A r \in Subscribers \ {s} : carried'[r] = carried[r]
    BY <1>0, <1>10, <2>1 DEF Unsubscribe, Queues
  <2>4. /\ channel' \in Queues /\ Len(channel'[s]) <= OutLimit
        /\ \A r \in Subscribers \ {s} : channel'[r] = channel[r]
    BY <1>0, <1>10, <2>1 DEF Unsubscribe, Queues
  <2>5. screen' \in [Subscribers -> Views]
    BY <1>0, <1>10, Apart DEF Unsubscribe, Views
  <2>6. receivers' \in [Publishers -> SUBSET Subscribers] /\ subscribed' \subseteq Subscribers
    BY <1>5, <1>10 DEF Unsubscribe
  <2>7. UNCHANGED <<streamSource, event, stage, locked, overlapped>>
    BY <1>10 DEF Unsubscribe
  <2> QED BY <1>4, <2>2, <2>3, <2>4, <2>5, <2>6, <2>7
<1>11. CASE UNCHANGED streamVars
  BY <1>11 DEF streamVars, StreamTypeOK
<1> QED BY <1>1, <1>2, <1>3, <1>6, <1>7, <1>8, <1>9, <1>10, <1>11 DEF StreamNext

-----------------------------------------------------------------------------
(* The invariant of the events on their way. *)

\* A publication goes on with the event it began with, and only to subscribers.
EmitOK ==
    /\ \A p \in Publishers :
        /\ stage[p] = "idle" => event[p] = << >>
        /\ stage[p] # "send" => receivers[p] = {}
        /\ stage[p] # "idle" =>
             /\ event[p] # << >> /\ event[p][1].message = p[1]
             /\ event[p][1].from \in Texts /\ event[p][1].to \in Texts
        /\ receivers[p] \subseteq subscribed
        /\ emitted[p[1]] = 0 => stage[p] = "idle"
    /\ \A m \in Messages : emitted[m] = 0 => baseline[m] = NoText

\* Where no publications have overlapped, one publisher is at work at most, and its event
\* ends in the text published last.
AloneOK ==
    \A p \in Publishers : stage[p] # "idle" /\ p[1] \notin overlapped =>
        stage[Other(p)] = "idle" /\ event[p][1].to = baseline[p[1]]

\* Nothing is on the way to who does not subscribe.
QuietOK ==
    \A s \in Subscribers \ subscribed :
        queue[s] = << >> /\ carried[s] = << >> /\ channel[s] = << >>

\* A waiting event ends in a text.
Known(q) == \A i \in 1 .. Len(q) : q[i].to # Unseen
KnownOK == \A s \in Subscribers : Known(queue[s])

\* What is on the way to a subscriber, what it shows after that, and after the event that
\* is being published as well.
Waiting(s) == channel[s] \o carried[s] \o queue[s]
After(s) == Shows(screen[s], Waiting(s))
Reached(p, s) == IF Coming(p, s) = << >> THEN After(s)[p[1]] ELSE Read(After(s)[p[1]], event[p][1])

Right(text, base) == text = Unseen \/ Same(text, base)
\* The other publisher of the message is at rest, and no overlap is left to put right.
Alone(p) == p[1] \notin overlapped /\ stage[Other(p)] = "idle"
ReachedOK ==
    \A s \in subscribed, p \in Publishers : Alone(p) => Right(Reached(p, s), baseline[p[1]])

FlowInv == StreamTypeOK /\ EmitOK /\ AloneOK /\ QuietOK /\ KnownOK /\ ReachedOK

-----------------------------------------------------------------------------
LEMMA EmitInit == StreamInit => EmitOK /\ AloneOK /\ QuietOK /\ KnownOK /\ ReachedOK
<1> SUFFICES ASSUME StreamInit PROVE EmitOK /\ AloneOK /\ QuietOK /\ KnownOK /\ ReachedOK
  OBVIOUS
<1>1. EmitOK
  BY Pairs DEF StreamInit, EmitOK
<1>5. AloneOK
  BY DEF StreamInit, AloneOK
<1>2. QuietOK
  BY DEF StreamInit, QuietOK
<1>3. KnownOK
  BY DEF StreamInit, KnownOK, Known
<1>4. ReachedOK
  BY DEF StreamInit, ReachedOK
<1> QED BY <1>1, <1>2, <1>3, <1>4, <1>5

LEMMA FlowTypes ==
    ASSUME StreamTypeOK
    PROVE  /\ queue \in Queues /\ carried \in Queues /\ channel \in Queues
           /\ screen \in [Subscribers -> Views] /\ baseline \in [Messages -> Texts]
           /\ stage \in [Publishers -> {"idle", "made", "send"}]
           /\ receivers \in [Publishers -> SUBSET Subscribers] /\ subscribed \subseteq Subscribers
           /\ event \in [Publishers -> Seq(StreamEvents)]
           /\ emitted \in [Messages -> Nat]
           /\ \A s \in Subscribers : /\ queue[s] \in Seq(StreamEvents) /\ carried[s] \in Seq(StreamEvents)
                                     /\ channel[s] \in Seq(StreamEvents) /\ screen[s] \in Views
BY StreamAssumption DEF StreamTypeOK, Queues, Views

LEMMA EmitStep == StreamTypeOK /\ EmitOK /\ [StreamNext]_streamVars => EmitOK'
<1> SUFFICES ASSUME StreamTypeOK, EmitOK, [StreamNext]_streamVars PROVE EmitOK'
  OBVIOUS
<1> USE DEF streamSource, streamPublish, streamDelivery
<1>0. /\ baseline \in [Messages -> Texts] /\ event \in [Publishers -> Seq(StreamEvents)]
      /\ stage \in [Publishers -> {"idle", "made", "send"}] /\ emitted \in [Messages -> Nat]
      /\ receivers \in [Publishers -> SUBSET Subscribers]
  BY FlowTypes
<1>1. ASSUME NEW m \in Messages, PublishDelta(m) \/ PublishUpdate(m) \/ PublishProjection(m)
      PROVE  EmitOK'
  <2>0. PICK p \in Publishers : \E e, t : Makes(p, e, t)
    BY <1>1, Publishing
  <2>1. PICK e, t : Makes(p, e, t)
    BY <2>0
  <2>2. <<e>> # << >> /\ <<e>>[1] = e
    OBVIOUS
  <2>3. event'[p] = <<e>> /\ baseline'[p[1]] = t /\ stage'[p] = "made" /\ emitted'[p[1]] # 0
    BY <1>0, <2>1, Pairs DEF Makes
  <2>4. /\ \A q \in Publishers \ {p} : event'[q] = event[q] /\ stage'[q] = stage[q]
        /\ \A k \in Messages \ {p[1]} : baseline'[k] = baseline[k] /\ emitted'[k] = emitted[k]
    BY <1>0, <2>1 DEF Makes
  <2>5. receivers' = receivers /\ subscribed' = subscribed /\ stage[p] = "idle"
        /\ e.from = baseline[p[1]] /\ e.message = p[1] /\ e.to = t /\ t \in Texts
    BY <2>1 DEF Makes
  <2>6. event'[p] # << >> /\ event'[p][1] = e
    BY <2>2, <2>3
  <2>7. receivers[p] = {} /\ baseline[p[1]] \in Texts
    BY <1>0, <2>5, Pairs DEF EmitOK
  <2> HIDE DEF Makes
  <2>8. ASSUME NEW q \in Publishers
        PROVE  /\ stage'[q] = "idle" => event'[q] = << >>
               /\ stage'[q] # "send" => receivers'[q] = {}
               /\ stage'[q] # "idle" =>
                    /\ event'[q] # << >> /\ event'[q][1].message = q[1]
                    /\ event'[q][1].from \in Texts /\ event'[q][1].to \in Texts
               /\ receivers'[q] \subseteq subscribed'
               /\ emitted'[q[1]] = 0 => stage'[q] = "idle"
    <3>1. CASE q = p
      BY <2>3, <2>5, <2>6, <2>7, <3>1 DEF EmitOK
    <3>2. CASE q # p
      BY <2>3, <2>4, <2>5, <3>2, Pairs DEF EmitOK
    <3> QED BY <3>1, <3>2
  <2>9. \A k \in Messages : emitted'[k] = 0 => baseline'[k] = NoText
    BY <2>3, <2>4 DEF EmitOK
  <2> QED BY <2>8, <2>9 DEF EmitOK
<1>2. ASSUME NEW p \in Publishers, Snapshot(p)
      PROVE  EmitOK'
  BY <1>0, <1>2 DEF Snapshot, EmitOK
<1>3. ASSUME NEW p \in Publishers, Published(p)
      PROVE  EmitOK'
  BY <1>0, <1>3 DEF Published, EmitOK
<1>4. ASSUME NEW p \in Publishers, NEW s \in Subscribers, Enqueue(p, s)
      PROVE  EmitOK'
  <2>1. UNCHANGED <<event, stage, baseline, emitted, subscribed>>
    BY <1>4 DEF Enqueue
  <2>2. /\ \A q \in Publishers : receivers'[q] \subseteq receivers[q]
        /\ stage[p] = "send" /\ \A q \in Publishers \ {p} : receivers'[q] = receivers[q]
    BY <1>0, <1>4 DEF Enqueue
  <2> QED BY <2>1, <2>2 DEF EmitOK
<1>5. ASSUME NEW s \in Subscribers, Carry(s) \/ Deliver(s) \/ Consume(s)
      PROVE  EmitOK'
  BY <1>5 DEF Carry, Deliver, Consume, EmitOK
<1>6. ASSUME NEW s \in Subscribers, Subscribe(s) PROVE EmitOK'
  BY <1>6 DEF Subscribe, EmitOK
<1>7. ASSUME NEW s \in Subscribers, Unsubscribe(s) PROVE EmitOK'
  BY <1>7 DEF Unsubscribe, EmitOK
<1>8. CASE UNCHANGED streamVars
  BY <1>8 DEF streamVars, EmitOK
<1> QED BY <1>1, <1>2, <1>3, <1>4, <1>5, <1>6, <1>7, <1>8 DEF StreamNext

LEMMA AloneStep == StreamTypeOK /\ EmitOK /\ AloneOK /\ [StreamNext]_streamVars => AloneOK'
<1> SUFFICES ASSUME StreamTypeOK, EmitOK, AloneOK, [StreamNext]_streamVars PROVE AloneOK'
  OBVIOUS
<1> USE DEF streamSource, streamPublish, streamDelivery
<1>0. /\ baseline \in [Messages -> Texts] /\ event \in [Publishers -> Seq(StreamEvents)]
      /\ stage \in [Publishers -> {"idle", "made", "send"}]
  BY FlowTypes
<1>1. ASSUME NEW m \in Messages, PublishDelta(m) \/ PublishUpdate(m) \/ PublishProjection(m)
      PROVE  AloneOK'
  <2>0. PICK p \in Publishers : \E e, t : Makes(p, e, t)
    BY <1>1, Publishing
  <2>1. PICK e, t : Makes(p, e, t)
    BY <2>0
  <2>2. event'[p] = <<e>> /\ <<e>>[1] = e /\ baseline'[p[1]] = t /\ e.to = t
    BY <1>0, <2>1, Pairs DEF Makes
  <2>3. /\ \A q \in Publishers \ {p} : event'[q] = event[q] /\ stage'[q] = stage[q]
        /\ \A k \in Messages \ {p[1]} : baseline'[k] = baseline[k] /\ (k \in overlapped' <=> k \in overlapped)
    BY <1>0, <2>1 DEF Makes
  <2>4. stage[Other(p)] # "idle" => p[1] \in overlapped'
    BY <2>1 DEF Makes
  <2> SUFFICES ASSUME NEW q \in Publishers, stage'[q] # "idle", q[1] \notin overlapped'
               PROVE  stage'[Other(q)] = "idle" /\ event'[q][1].to = baseline'[q[1]]
    BY DEF AloneOK
  <2>5. CASE q = p
    BY <2>2, <2>3, <2>4, <2>5, Pairs
  <2>6. CASE q = Other(p)
    BY <2>3, <2>4, <2>6, Pairs
  <2>7. CASE q[1] # p[1]
    <3>1. q # p /\ Other(q) # p /\ q[1] \in Messages
      BY <2>7, Pairs
    <3> QED BY <2>3, <2>7, <3>1, Pairs DEF AloneOK
  <2> QED BY <2>5, <2>6, <2>7, Pairs
<1>2. ASSUME NEW p \in Publishers, Snapshot(p) \/ Published(p)
      PROVE  AloneOK'
  <2>1. /\ overlapped' = overlapped /\ baseline' = baseline /\ stage[p] # "idle"
        /\ \A q \in Publishers \ {p} : event'[q] = event[q] /\ stage'[q] = stage[q]
        /\ stage'[p] = "idle" \/ event'[p] = event[p]
    BY <1>0, <1>2 DEF Snapshot, Published
  <2> QED BY <2>1, Pairs DEF AloneOK
<1>3. ASSUME UNCHANGED <<event, stage, baseline, overlapped>>
      PROVE  AloneOK'
  BY <1>3 DEF AloneOK, Other
<1>4. ASSUME NEW s \in Subscribers,
             \/ Subscribe(s) \/ Carry(s) \/ Deliver(s) \/ Consume(s) \/ Unsubscribe(s)
             \/ \E p \in Publishers : Enqueue(p, s)
      PROVE  AloneOK'
  BY <1>3, <1>4 DEF Subscribe, Carry, Deliver, Consume, Unsubscribe, Enqueue
<1>5. CASE UNCHANGED streamVars
  BY <1>3, <1>5 DEF streamVars
<1> QED BY <1>1, <1>2, <1>4, <1>5 DEF StreamNext

LEMMA QuietStep == StreamTypeOK /\ EmitOK /\ QuietOK /\ [StreamNext]_streamVars => QuietOK'
<1> SUFFICES ASSUME StreamTypeOK, EmitOK, QuietOK, [StreamNext]_streamVars PROVE QuietOK'
  OBVIOUS
<1> USE DEF streamSource, streamPublish, streamDelivery
<1>0. queue \in Queues /\ carried \in Queues /\ channel \in Queues
  BY FlowTypes
<1>1. ASSUME \/ \E m \in Messages : PublishDelta(m) \/ PublishUpdate(m) \/ PublishProjection(m)
             \/ \E p \in Publishers : Snapshot(p) \/ Published(p)
      PROVE  QuietOK'
  <2>1. UNCHANGED streamDelivery
    BY <1>1 DEF PublishDelta, PublishUpdate, PublishProjection, Emit, EmitAnyway, Snapshot, Published
  <2> QED BY <2>1 DEF QuietOK
<1>2. ASSUME NEW p \in Publishers, NEW s \in Subscribers, Enqueue(p, s)
      PROVE  QuietOK'
  <2>1. s \in subscribed
    BY <1>2 DEF Enqueue, EmitOK
  <2>2. \A r \in Subscribers \ {s} : queue'[r] = queue[r]
    BY <1>0, <1>2 DEF Enqueue, Queues
  <2> QED BY <1>2, <2>1, <2>2 DEF Enqueue, QuietOK
<1>3. ASSUME NEW s \in Subscribers, Carry(s) PROVE QuietOK'
  BY <1>0, <1>3 DEF Carry, QuietOK, Queues
<1>4. ASSUME NEW s \in Subscribers, Deliver(s) PROVE QuietOK'
  BY <1>0, <1>4 DEF Deliver, QuietOK, Queues
<1>5. ASSUME NEW s \in Subscribers, Consume(s) PROVE QuietOK'
  BY <1>0, <1>5 DEF Consume, QuietOK, Queues
<1>6. ASSUME NEW s \in Subscribers, Subscribe(s) PROVE QuietOK'
  BY <1>6 DEF Subscribe, QuietOK
<1>7. ASSUME NEW s \in Subscribers, Unsubscribe(s) PROVE QuietOK'
  BY <1>0, <1>7 DEF Unsubscribe, QuietOK, Queues
<1>8. CASE UNCHANGED streamVars
  BY <1>8 DEF streamVars, QuietOK
<1> QED BY <1>1, <1>2, <1>3, <1>4, <1>5, <1>6, <1>7, <1>8 DEF StreamNext

\* Merging and taking away leave events that end in a text.
LEMMA PutKnown ==
    ASSUME NEW q \in Seq(StreamEvents), NEW e \in StreamEvents, Known(q), e.to # Unseen
    PROVE  Known(Put(q, e))
<1>1. ASSUME NEW p \in Seq(StreamEvents), NEW d \in StreamEvents, Known(p), d.to # Unseen
      PROVE  Known(Append(p, d))
  <2>1. /\ Len(p) \in Nat /\ Len(Append(p, d)) = Len(p) + 1 /\ Append(p, d)[Len(p) + 1] = d
        /\ \A i \in 1 .. Len(p) : Append(p, d)[i] = p[i]
    OBVIOUS
  <2>2. \A i \in 1 .. Len(p) + 1 : i \in 1 .. Len(p) \/ i = Len(p) + 1
    BY <2>1
  <2> HIDE DEF Known
  <2>3. \A i \in 1 .. Len(p) + 1 : Append(p, d)[i].to # Unseen
    BY <1>1, <2>1, <2>2 DEF Known
  <2> QED BY <2>1, <2>3 DEF Known
<1>2. CASE q # << >> /\ Merges(Last(q), e)
  <2>1. Front(q) \in Seq(StreamEvents) /\ Last(q) \in StreamEvents /\ q = Append(Front(q), Last(q))
    BY <1>2, Splitting
  <2>2. Merged(Last(q), e) \in StreamEvents /\ Merged(Last(q), e).to # Unseen
    BY <2>1, Apart, MergedTyped DEF Merged, StreamEvents
  <2>3. Known(Front(q))
    <3>1. Len(q) \in Nat \ {0}
      BY <1>2
    <3>2. Len(Front(q)) = Len(q) - 1 /\ \A i \in 1 .. Len(q) - 1 : Front(q)[i] = q[i]
      BY <1>2, Splitting
    <3> QED BY <3>1, <3>2 DEF Known
  <2>4. Put(q, e) = Append(Front(q), Merged(Last(q), e))
    BY <1>2, <2>1, <2>2, Appending DEF Put
  <2> QED BY <1>1, <2>1, <2>2, <2>3, <2>4
<1>3. CASE ~(q # << >> /\ Merges(Last(q), e))
  BY <1>1, <1>3 DEF Put
<1> QED BY <1>2, <1>3

LEMMA KnownStep == StreamTypeOK /\ EmitOK /\ KnownOK /\ [StreamNext]_streamVars => KnownOK'
<1> SUFFICES ASSUME StreamTypeOK, EmitOK, KnownOK, [StreamNext]_streamVars PROVE KnownOK'
  OBVIOUS
<1> USE DEF streamSource, streamPublish, streamDelivery
<1>0. /\ queue \in Queues /\ \A s \in Subscribers : queue[s] \in Seq(StreamEvents)
      /\ baseline \in [Messages -> Texts] /\ stage \in [Publishers -> {"idle", "made", "send"}]
  BY FlowTypes
<1>1. ASSUME NEW s \in Subscribers, Known(queue'[s]), \A r \in Subscribers \ {s} : queue'[r] = queue[r]
      PROVE  KnownOK'
  BY <1>1 DEF KnownOK
<1>2. ASSUME queue' = queue PROVE KnownOK'
  BY <1>2 DEF KnownOK
<1>3. ASSUME \/ \E m \in Messages : PublishDelta(m) \/ PublishUpdate(m) \/ PublishProjection(m)
             \/ \E p \in Publishers : Snapshot(p) \/ Published(p)
      PROVE  KnownOK'
  <2>1. UNCHANGED streamDelivery
    BY <1>3 DEF PublishDelta, PublishUpdate, PublishProjection, Emit, EmitAnyway, Snapshot, Published
  <2> QED BY <1>2, <2>1
<1>4. ASSUME NEW p \in Publishers, NEW s \in Subscribers, Enqueue(p, s)
      PROVE  KnownOK'
  <2>1. event[p] # << >> /\ event[p][1].to \in Texts
    BY <1>4 DEF Enqueue, EmitOK
  <2>2. event[p][1] \in StreamEvents /\ event[p][1].to # Unseen
    BY <1>0, <2>1, EventTyped, Apart
  <2>3. Known(Put(queue[s], event[p][1]))
    BY <1>0, <2>2, PutKnown DEF KnownOK
  <2>4. queue' = [queue EXCEPT ![s] = IF s \notin subscribed THEN queue[s] ELSE Put(queue[s], event[p][1])]
    BY <1>4 DEF Enqueue, Put
  <2>5. Known(queue'[s]) /\ \A r \in Subscribers \ {s} : queue'[r] = queue[r]
    BY <1>0, <2>3, <2>4 DEF Queues, KnownOK
  <2> QED BY <1>1, <2>5
<1>5. ASSUME NEW s \in Subscribers, Carry(s) PROVE KnownOK'
  <2> DEFINE q == queue[s]
  <2>1. q \in Seq(StreamEvents) /\ q # << >> /\ Known(q)
    BY <1>0, <1>5 DEF Carry, KnownOK
  <2>2. /\ Len(q) \in Nat /\ Len(Tail(q)) = Len(q) - 1
        /\ \A i \in 1 .. Len(Tail(q)) : Tail(q)[i] = q[i + 1]
    BY <2>1, HeadTailProperties
  <2>3. Known(Tail(q))
    <3> HIDE DEF q
    <3> QED BY <2>1, <2>2 DEF Known
  <2>4. queue'[s] = Tail(q) /\ \A r \in Subscribers \ {s} : queue'[r] = queue[r]
    BY <1>0, <1>5 DEF Carry, Queues
  <2> QED BY <1>1, <2>3, <2>4
<1>6. ASSUME NEW s \in Subscribers, Deliver(s) \/ Consume(s) \/ Subscribe(s) PROVE KnownOK'
  BY <1>2, <1>6 DEF Deliver, Consume, Subscribe
<1>7. ASSUME NEW s \in Subscribers, Unsubscribe(s) PROVE KnownOK'
  <2>1. Known(<< >>)
    BY DEF Known
  <2> QED BY <1>0, <1>1, <1>7, <2>1 DEF Unsubscribe, Queues
<1>8. CASE UNCHANGED streamVars
  BY <1>2, <1>8 DEF streamVars
<1> QED BY <1>3, <1>4, <1>5, <1>6, <1>7, <1>8 DEF StreamNext

-----------------------------------------------------------------------------
(* What a subscriber shows after all that is on its way. *)

LEMMA ShowsTyped == \A v \in Views, way \in Seq(StreamEvents) : Shows(v, way) \in Views
<1> SUFFICES ASSUME NEW v \in Views, NEW way \in Seq(StreamEvents) PROVE Shows(v, way) \in Views
  OBVIOUS
<1>1. PICK g : Traces(g, v, way) /\ g[Len(way)] = Shows(v, way)
  BY TraceOfFold
<1>2. Len(way) \in 0 .. Len(way)
  <2> DEFINE n == Len(way)
  <2>1. n \in Nat
    OBVIOUS
  <2> HIDE DEF n
  <2>2. n \in 0 .. n
    BY <2>1
  <2> QED BY <2>2 DEF n
<1> QED BY <1>1, <1>2 DEF Traces

LEMMA WaitingTyped ==
    ASSUME StreamTypeOK, NEW s \in Subscribers
    PROVE  Waiting(s) \in Seq(StreamEvents) /\ After(s) \in Views
<1>1. /\ queue[s] \in Seq(StreamEvents) /\ carried[s] \in Seq(StreamEvents)
      /\ channel[s] \in Seq(StreamEvents) /\ screen[s] \in Views
  BY FlowTypes
<1>2. Waiting(s) \in Seq(StreamEvents)
  BY <1>1, ConcatProperties DEF Waiting
<1> QED BY <1>1, <1>2, ShowsTyped DEF After

LEMMA AppendAfter ==
    ASSUME NEW S, NEW w \in Seq(S), NEW q \in Seq(S), NEW e \in S
    PROVE  w \o q \in Seq(S) /\ w \o Append(q, e) = Append(w \o q, e)
<1>1. w \o q \in Seq(S) /\ <<e>> \in Seq(S)
  BY ConcatProperties
<1>2. q \o <<e>> = Append(q, e) /\ (w \o q) \o <<e>> = Append(w \o q, e)
  BY <1>1, Appending
<1>3. (w \o q) \o <<e>> = w \o (q \o <<e>>)
  BY <1>1, ConcatAssociative
<1> QED BY <1>1, <1>2, <1>3

\* To put an event into a queue, merged or not, is to apply it after the events there.
LEMMA PutShows ==
    ASSUME NEW v \in Views, NEW w \in Seq(StreamEvents), NEW q \in Seq(StreamEvents),
           NEW e \in StreamEvents, Known(q), e.from \in Texts, e.to # Unseen
    PROVE  Shows(v, w \o Put(q, e)) = Applied(Shows(v, w \o q), e)
<1>1. CASE q # << >> /\ Merges(Last(q), e)
  <2> DEFINE f == Front(q)
             a == Last(q)
             b == Merged(a, e)
  <2>1. f \in Seq(StreamEvents) /\ a \in StreamEvents /\ q = Append(f, a)
    BY <1>1, Splitting
  <2>2. a.to # Unseen
    <3>1. Len(q) \in Nat \ {0} /\ a = q[Len(q)]
      BY <1>1 DEF Last
    <3>2. Len(q) \in 1 .. Len(q)
      BY <3>1
    <3> HIDE DEF a
    <3> QED BY <3>1, <3>2 DEF Known
  <2>3. Merges(a, e)
    BY <1>1
  <2>4. Put(q, e) = Append(f, b)
    <3>1. b \in StreamEvents
      BY <2>1, MergedTyped
    <3>2. Put(q, e) = f \o <<b>>
      BY <1>1 DEF Put
    <3> HIDE DEF f, b
    <3> QED BY <2>1, <3>1, <3>2, Appending
  <2> DEFINE x == Shows(v, w \o f)
  <2> HIDE DEF f, a, x
  <2>5. w \o f \in Seq(StreamEvents) /\ x \in Views
    BY <2>1, ConcatProperties, ShowsTyped DEF x
  <2>6. b \in StreamEvents /\ Applied(x, b) = Applied(Applied(x, a), e)
    BY <2>1, <2>2, <2>3, <2>5, MergedFacts
  <2> HIDE DEF b
  <2>7. ASSUME NEW d \in StreamEvents PROVE Shows(v, w \o Append(f, d)) = Applied(x, d)
    <3>1. w \o Append(f, d) = Append(w \o f, d)
      BY <2>1, AppendAfter
    <3>2. Shows(v, Append(w \o f, d)) = Applied(x, d)
      BY <2>5, ShowsLast DEF x
    <3> QED BY <3>1, <3>2
  <2>8. Shows(v, w \o q) = Applied(x, a)
    BY <2>1, <2>7
  <2>9. Shows(v, w \o Put(q, e)) = Applied(x, b)
    BY <2>4, <2>6, <2>7
  <2> QED BY <2>6, <2>8, <2>9
<1>2. CASE ~(q # << >> /\ Merges(Last(q), e))
  <2>1. Put(q, e) = Append(q, e)
    BY <1>2 DEF Put
  <2>2. w \o q \in Seq(StreamEvents) /\ w \o Append(q, e) = Append(w \o q, e)
    BY AppendAfter
  <2>3. Shows(v, Append(w \o q, e)) = Applied(Shows(v, w \o q), e)
    BY <2>2, ShowsLast
  <2> QED BY <2>1, <2>2, <2>3
<1> QED BY <1>1, <1>2

\* An event leads from the text published before it to the one published with it.
LEMMA ReadRight ==
    ASSUME NEW x, NEW old \in Texts, NEW e \in StreamEvents, Right(x, old), e.from = old,
           e.to \in Texts
    PROVE  Right(Read(x, e), e.to)
<1>1. Same(e.to, e.to) /\ Unseen # Garbled /\ x # Garbled
  BY Apart DEF Same, Right
<1> QED BY <1>1 DEF Right, Read, Replaces

\* Where neither what is on the way nor the published text changes, it stays right.
LEMMA Unmoved ==
    ASSUME ReachedOK, NEW s \in subscribed, NEW p \in Publishers, Alone(p), After(s)' = After(s),
           Coming(p, s)' = Coming(p, s), event[p]' = event[p] \/ Coming(p, s)' = << >>,
           baseline'[p[1]] = baseline[p[1]]
    PROVE  Right(Reached(p, s), baseline[p[1]])'
BY DEF ReachedOK, Reached

-----------------------------------------------------------------------------
LEMMA Regroup ==
    /\ \A a, b, c \in Seq(StreamEvents) : (a \o b) \o c = a \o (b \o c)
    /\ \A a \in Seq(StreamEvents) : a \o << >> = a /\ << >> \o a = a
BY ConcatAssociative, ConcatEmptySeq

LEMMA ReachedPublish ==
    ASSUME StreamTypeOK, EmitOK, ReachedOK, NEW m \in Messages,
           PublishDelta(m) \/ PublishUpdate(m) \/ PublishProjection(m)
    PROVE  ReachedOK'
<1> USE DEF streamSource, streamPublish, streamDelivery
<1>0. /\ baseline \in [Messages -> Texts] /\ event \in [Publishers -> Seq(StreamEvents)]
      /\ stage \in [Publishers -> {"idle", "made", "send"}] /\ subscribed \subseteq Subscribers
  BY FlowTypes
<1>p. PICK p \in Publishers : \E e, t : Makes(p, e, t)
  BY Publishing
<1>1. PICK e, t : Makes(p, e, t)
  BY <1>p
<1>2. /\ event'[p] = <<e>> /\ baseline'[p[1]] = t /\ stage'[p] = "made" /\ stage[p] = "idle"
      /\ \A q \in Publishers \ {p} : event'[q] = event[q] /\ stage'[q] = stage[q]
      /\ \A k \in Messages \ {p[1]} : baseline'[k] = baseline[k] /\ (k \in overlapped' <=> k \in overlapped)
      /\ UNCHANGED <<receivers, subscribed, queue, carried, channel, screen>>
  BY <1>0, <1>1, Pairs DEF Makes
<1>3. /\ e.from = baseline[p[1]] /\ e.to = t
      /\ t \in Texts /\ baseline[p[1]] \in Texts
  BY <1>0, <1>1, Pairs DEF Makes
<1>4. event[p] = << >> /\ receivers[p] = {}
  BY <1>2 DEF EmitOK
<1>5. stage[Other(p)] = "idle" => p[1] \notin overlapped \/ Replaces(e) \/ p[1] \in overlapped'
  BY <1>1 DEF Makes
<1> SUFFICES ASSUME NEW s \in subscribed, NEW q \in Publishers, Alone(q)'
             PROVE  Right(Reached(q, s), baseline[q[1]])'
  BY <1>2 DEF ReachedOK
<1>6. After(s)' = After(s)
  BY <1>2 DEF After, Waiting, Shows
<1>7. q[1] \notin overlapped' /\ stage'[Other(q)] = "idle"
  BY DEF Alone, Other
<1>8. CASE q[1] # p[1]
  <2>1. q[1] \in Messages /\ q # p /\ Other(q) # p /\ Other(q) \in Publishers
    BY <1>8, Pairs
  <2>2. Coming(q, s)' = Coming(q, s) /\ event'[q] = event[q] /\ baseline'[q[1]] = baseline[q[1]]
    BY <1>2, <1>8, <2>1 DEF Coming
  <2>3. Alone(q)
    BY <1>2, <1>7, <1>8, <2>1 DEF Alone
  <2> QED BY <1>6, <2>2, <2>3, Unmoved
<1>9. CASE q = p
  <2>1. Coming(p, s) = << >>
    BY <1>2, <1>4 DEF Coming
  <2>2. Coming(p, s)' = <<e>> /\ <<e>> # << >> /\ <<e>>[1] = e
    BY <1>2 DEF Coming
  <2>3. Reached(p, s)' = Read(After(s)[p[1]], e)
    <3>1. Reached(p, s)' = Read(After(s)'[p[1]], event'[p][1])
      BY <2>2 DEF Reached, Read, Replaces
    <3> QED BY <1>2, <1>6, <2>2, <3>1
  <2>4. stage[Other(p)] = "idle"
    BY <1>2, <1>7, <1>9, Pairs
  <2>5. Right(Read(After(s)[p[1]], e), t)
    <3>1. CASE Replaces(e)
      BY <1>3, <3>1 DEF Read, Right, Same
    <3>2. CASE ~Replaces(e)
      <4>1. Alone(p)
        BY <1>5, <1>7, <1>9, <2>4, <3>2 DEF Alone
      <4>2. Right(After(s)[p[1]], baseline[p[1]])
        BY <2>1, <4>1 DEF ReachedOK, Reached
      <4> QED BY <1>1, <1>3, <4>2, ReadRight DEF Makes
    <3> QED BY <3>1, <3>2
  <2>6. Right(Reached(p, s), baseline[p[1]])' <=> Right(Reached(p, s)', baseline'[p[1]])
    BY DEF Right, Same
  <2> QED BY <1>2, <1>9, <2>3, <2>5, <2>6
<1>10. CASE q = Other(p)
  BY <1>2, <1>7, <1>10, Pairs
<1> QED BY <1>8, <1>9, <1>10, Pairs

\* When a publication is over, the other publisher of the message finds what was on its way.
LEMMA ReachedMove ==
    ASSUME StreamTypeOK, EmitOK, AloneOK, ReachedOK, NEW p \in Publishers, Snapshot(p) \/ Published(p)
    PROVE  ReachedOK'
<1> USE DEF streamSource, streamPublish, streamDelivery
<1>0. /\ event \in [Publishers -> Seq(StreamEvents)]
      /\ stage \in [Publishers -> {"idle", "made", "send"}]
      /\ receivers \in [Publishers -> SUBSET Subscribers]
  BY FlowTypes
<1>1. UNCHANGED <<baseline, emitted, overlapped, subscribed, queue, carried, channel, screen>>
  BY DEF Snapshot, Published
<1> SUFFICES ASSUME NEW s \in subscribed, NEW q \in Publishers, Alone(q)'
             PROVE  Right(Reached(q, s), baseline[q[1]])'
  BY <1>1 DEF ReachedOK
<1>2. After(s)' = After(s)
  BY <1>1 DEF After, Waiting, Shows
<1>3. q[1] \notin overlapped /\ stage'[Other(q)] = "idle"
  BY <1>1 DEF Alone, Other
<1>4. CASE Alone(q)
  <2>1. Coming(q, s)' = Coming(q, s) /\ (event'[q] = event[q] \/ Coming(q, s)' = << >>)
    <3>1. CASE Snapshot(p)
      <4>1. event' = event /\ receivers' = [receivers EXCEPT ![p] = subscribed]
            /\ stage' = [stage EXCEPT ![p] = "send"] /\ stage[p] = "made"
        BY <3>1 DEF Snapshot
      <4>2. CASE q = p
        BY <1>0, <4>1, <4>2 DEF Coming
      <4>3. CASE q # p
        BY <1>0, <4>1, <4>3 DEF Coming
      <4> QED BY <4>2, <4>3
    <3>2. CASE Published(p)
      <4>1. /\ receivers' = receivers /\ receivers[p] = {} /\ stage[p] = "send"
            /\ stage' = [stage EXCEPT ![p] = "idle"] /\ event' = [event EXCEPT ![p] = << >>]
        BY <3>2 DEF Published
      <4>2. CASE q = p
        BY <1>0, <4>1, <4>2 DEF Coming
      <4>3. CASE q # p
        BY <1>0, <4>1, <4>3 DEF Coming
      <4> QED BY <4>2, <4>3
    <3> QED BY <3>1, <3>2
  <2> QED BY <1>1, <1>2, <1>4, <2>1, Unmoved
<1>5. CASE ~Alone(q)
  <2>1. stage[Other(q)] # "idle" /\ Other(q) \in Publishers
    BY <1>3, <1>5, Pairs DEF Alone
  <2>2. Other(q) = p /\ stage[p] = "send" /\ receivers[p] = {} /\ receivers' = receivers
    BY <1>0, <1>3, <2>1 DEF Snapshot, Published
  <2>3. stage[q] = "idle" /\ q = Other(p) /\ q # p /\ q[1] = p[1]
    BY <1>3, <2>1, <2>2, Pairs DEF AloneOK
  <2>4. Coming(p, s) = << >> /\ Alone(p)
    BY <1>3, <2>2, <2>3 DEF Coming, Alone
  <2>5. Right(After(s)[q[1]], baseline[q[1]])
    BY <2>3, <2>4 DEF ReachedOK, Reached
  <2>6. stage'[q] = "idle" /\ receivers[q] = {}
    BY <1>0, <2>3 DEF Snapshot, Published, EmitOK
  <2>7. Coming(q, s)' = << >>
    BY <2>2, <2>6 DEF Coming
  <2>8. Reached(q, s)' = After(s)[q[1]]
    BY <1>2, <2>7 DEF Reached
  <2>9. Right(Reached(q, s), baseline[q[1]])' <=> Right(Reached(q, s)', baseline'[q[1]])
    BY DEF Right, Same
  <2> QED BY <1>1, <2>5, <2>8, <2>9
<1> QED BY <1>4, <1>5

LEMMA ReachedEnqueue ==
    ASSUME StreamTypeOK, EmitOK, KnownOK, ReachedOK,
           NEW p \in Publishers, NEW s \in Subscribers, Enqueue(p, s)
    PROVE  ReachedOK'
<1> USE DEF streamSource, streamPublish, streamDelivery
<1> DEFINE e == event[p][1]
<1>0. /\ receivers \in [Publishers -> SUBSET Subscribers] /\ queue \in Queues
      /\ queue[s] \in Seq(StreamEvents) /\ carried[s] \in Seq(StreamEvents)
      /\ channel[s] \in Seq(StreamEvents) /\ screen[s] \in Views
  BY FlowTypes
<1>1. /\ UNCHANGED <<event, stage, baseline, overlapped, subscribed, carried, channel, screen>>
      /\ stage[p] = "send" /\ s \in receivers[p]
      /\ receivers' = [receivers EXCEPT ![p] = @ \ {s}]
  BY DEF Enqueue
<1>2. s \in subscribed /\ event[p] # << >> /\ e.message = p[1] /\ e.from \in Texts /\ e.to \in Texts
  BY <1>1 DEF EmitOK
<1>3. e \in StreamEvents
  BY <1>2, EventTyped
<1>4. queue'[s] = Put(queue[s], e) /\ \A r \in Subscribers \ {s} : queue'[r] = queue[r]
  <2>1. queue' = [queue EXCEPT ![s] = Put(queue[s], e)]
    BY <1>2 DEF Enqueue, Put
  <2> QED BY <1>0, <2>1 DEF Queues
<1>5. /\ receivers'[p] = receivers[p] \ {s}
      /\ \A q \in Publishers \ {p} : receivers'[q] = receivers[q]
  BY <1>0, <1>1
<1>6. After(s)' = Applied(After(s), e)
  <2> DEFINE w == channel[s] \o carried[s]
  <2>1. w \in Seq(StreamEvents) /\ Known(queue[s]) /\ e.to # Unseen
    BY <1>0, <1>2, ConcatProperties, Apart DEF KnownOK
  <2>2. After(s)' = Shows(screen[s], w \o Put(queue[s], e))
    BY <1>1, <1>4 DEF After, Waiting, Shows
  <2>3. After(s) = Shows(screen[s], w \o queue[s])
    BY DEF After, Waiting
  <2> HIDE DEF w, e
  <2> QED BY <1>0, <1>2, <1>3, <2>1, <2>2, <2>3, PutShows
<1> HIDE DEF e
<1> SUFFICES ASSUME NEW r \in subscribed, NEW q \in Publishers, Alone(q)'
             PROVE  Right(Reached(q, r), baseline[q[1]])'
  BY <1>1 DEF ReachedOK
<1>7. r \in Subscribers
  BY FlowTypes
<1>8. Alone(q)
  BY <1>1 DEF Alone, Other
<1>9. CASE r # s
  <2>1. After(r)' = After(r)
    BY <1>1, <1>4, <1>7, <1>9 DEF After, Waiting, Shows
  <2>2. Coming(q, r)' = Coming(q, r)
    BY <1>1, <1>5, <1>9 DEF Coming
  <2> QED BY <1>1, <1>8, <2>1, <2>2, Unmoved
<1>10. CASE r = s
  <2>1. After(s) \in Views
    BY WaitingTyped
  <2>2. q[1] \in Messages
    BY Pairs
  <2>3. After(s)'[q[1]] = IF q[1] = p[1] THEN Read(After(s)[q[1]], e) ELSE After(s)[q[1]]
    BY <1>2, <1>3, <1>6, <2>1, <2>2, AppliedFacts
  <2>4. Reached(q, s)' = Reached(q, s)
    <3>1. CASE q = p
      <4>1. Coming(p, s) = event[p] /\ Coming(p, s)' = << >>
        BY <1>1, <1>5 DEF Coming
      <4>2. Reached(p, s)' = After(s)'[p[1]]
        BY <4>1 DEF Reached
      <4>3. Reached(p, s) = Read(After(s)[p[1]], e)
        BY <1>2, <4>1 DEF Reached, e
      <4> QED BY <2>3, <3>1, <4>2, <4>3
    <3>2. CASE q = Other(p)
      BY <1>1, <1>8, <3>2, Pairs DEF Alone
    <3>3. CASE q[1] # p[1]
      <4>1. Coming(q, s)' = Coming(q, s) /\ event' = event
        BY <1>1, <1>5, <3>3 DEF Coming
      <4>2. After(s)'[q[1]] = After(s)[q[1]]
        BY <2>3, <3>3
      <4> QED BY <4>1, <4>2 DEF Reached, Read, Replaces
    <3> QED BY <3>1, <3>2, <3>3, Pairs
  <2>5. Right(Reached(q, s), baseline[q[1]])
    BY <1>2, <1>8 DEF ReachedOK
  <2>6. Right(Reached(q, s), baseline[q[1]])' <=> Right(Reached(q, s)', baseline'[q[1]])
    BY DEF Right, Same
  <2> QED BY <1>1, <1>10, <2>4, <2>5, <2>6
<1> QED BY <1>9, <1>10

\* The goroutine and the consumer only move what waits.
LEMMA ReachedDeliver ==
    ASSUME StreamTypeOK, ReachedOK, NEW s \in Subscribers,
           Carry(s) \/ Deliver(s) \/ Consume(s)
    PROVE  ReachedOK'
<1> USE DEF streamSource, streamPublish, streamDelivery
<1>0. /\ queue \in Queues /\ carried \in Queues /\ channel \in Queues /\ screen \in [Subscribers -> Views]
      /\ queue[s] \in Seq(StreamEvents) /\ carried[s] \in Seq(StreamEvents)
      /\ channel[s] \in Seq(StreamEvents) /\ screen[s] \in Views
  BY FlowTypes
<1>1. UNCHANGED <<baseline, event, stage, overlapped, receivers, subscribed>>
  BY DEF Carry, Deliver, Consume
<1>2. \A r \in Subscribers \ {s} : /\ queue'[r] = queue[r] /\ carried'[r] = carried[r]
                                   /\ channel'[r] = channel[r] /\ screen'[r] = screen[r]
  BY <1>0 DEF Carry, Deliver, Consume, Queues
<1>3. After(s)' = After(s)
  <2>1. CASE Carry(s)
    <3> DEFINE h == Head(queue[s])  t == Tail(queue[s])
    <3>1. h \in StreamEvents /\ t \in Seq(StreamEvents) /\ queue[s] = <<h>> \o t /\ carried[s] = << >>
      BY <1>0, <2>1, Splitting DEF Carry
    <3>2. carried'[s] = <<h>> /\ queue'[s] = t /\ channel' = channel /\ screen' = screen
      BY <1>0, <2>1 DEF Carry, Queues
    <3> HIDE DEF h, t
    <3>3. <<h>> \in Seq(StreamEvents)
      BY <3>1
    <3>4. (channel[s] \o <<h>>) \o t = channel[s] \o (<<h>> \o t) /\ channel[s] \o << >> = channel[s]
      BY <1>0, <3>1, <3>3, Regroup
    <3> QED BY <3>1, <3>2, <3>4 DEF After, Waiting, Shows
  <2>2. CASE Deliver(s)
    <3>1. /\ channel'[s] = channel[s] \o carried[s] /\ carried'[s] = << >>
          /\ queue' = queue /\ screen' = screen
      BY <1>0, <2>2 DEF Deliver, Queues
    <3>2. channel[s] \o carried[s] \in Seq(StreamEvents)
      BY <1>0, ConcatProperties
    <3>3. (channel[s] \o carried[s]) \o << >> = channel[s] \o carried[s]
      BY <3>2, Regroup
    <3> QED BY <3>1, <3>3 DEF After, Waiting, Shows
  <2>3. CASE Consume(s)
    <3> DEFINE h == Head(channel[s])  t == Tail(channel[s])  w == carried[s] \o queue[s]
    <3>1. h \in StreamEvents /\ t \in Seq(StreamEvents) /\ channel[s] = <<h>> \o t
      BY <1>0, <2>3, Splitting DEF Consume
    <3>2. channel'[s] = t /\ screen'[s] = Applied(screen[s], h) /\ carried' = carried /\ queue' = queue
      BY <1>0, <2>3 DEF Consume, Queues
    <3> HIDE DEF h, t
    <3>3. w \in Seq(StreamEvents) /\ <<h>> \in Seq(StreamEvents) /\ t \o w \in Seq(StreamEvents)
      BY <1>0, <3>1, ConcatProperties
    <3>4. Waiting(s) = channel[s] \o w
      BY <1>0, Regroup DEF Waiting
    <3>5. channel[s] \o w = <<h>> \o (t \o w)
      <4>1. (<<h>> \o t) \o w = <<h>> \o (t \o w)
        BY <3>1, <3>3, Regroup
      <4> QED BY <3>1, <4>1
    <3>6. Waiting(s)' = t \o w
      <4>1. (t \o carried[s]) \o queue[s] = t \o w
        BY <1>0, <3>1, Regroup
      <4> QED BY <3>2, <4>1 DEF Waiting
    <3> HIDE DEF w
    <3>7. Shows(screen[s], <<h>> \o (t \o w)) = Shows(Applied(screen[s], h), t \o w)
      BY <1>0, <3>1, <3>3, ShowsFirst
    <3>8. After(s)' = Shows(screen'[s], Waiting(s)')
      BY DEF After, Shows
    <3>9. After(s) = Shows(screen[s], Waiting(s))
      BY DEF After
    <3> QED BY <3>2, <3>4, <3>5, <3>6, <3>7, <3>8, <3>9
  <2> QED BY <2>1, <2>2, <2>3
<1> SUFFICES ASSUME NEW r \in subscribed, NEW q \in Publishers, Alone(q)'
             PROVE  Right(Reached(q, r), baseline[q[1]])'
  BY <1>1 DEF ReachedOK
<1>4. r \in Subscribers
  BY FlowTypes
<1>5. After(r)' = After(r)
  <2>1. CASE r = s
    BY <1>3, <2>1
  <2>2. CASE r # s
    BY <1>2, <1>4, <2>2 DEF After, Waiting, Shows
  <2> QED BY <2>1, <2>2
<1>6. Coming(q, r)' = Coming(q, r) /\ Alone(q)
  BY <1>1 DEF Coming, Alone, Other
<1> QED BY <1>1, <1>5, <1>6, Unmoved

LEMMA ReachedSubscribe ==
    ASSUME StreamTypeOK, EmitOK, AloneOK, QuietOK, ReachedOK, NEW s \in Subscribers, Subscribe(s)
    PROVE  ReachedOK'
<1> USE DEF streamSource, streamPublish, streamDelivery
<1>0. screen \in [Subscribers -> Views] /\ subscribed \subseteq Subscribers
      /\ baseline \in [Messages -> Texts] /\ stage \in [Publishers -> {"idle", "made", "send"}]
  BY FlowTypes
<1>1. /\ UNCHANGED <<baseline, event, stage, overlapped, receivers, queue, carried, channel>>
      /\ subscribed' = subscribed \cup {s} /\ s \notin subscribed
      /\ screen' = [screen EXCEPT ![s] = [m \in Messages |-> IF emitted[m] = 0 THEN NoText ELSE Unseen]]
  BY DEF Subscribe
<1>2. queue[s] = << >> /\ carried[s] = << >> /\ channel[s] = << >>
  BY <1>1 DEF QuietOK
<1> SUFFICES ASSUME NEW r \in subscribed \cup {s}, NEW q \in Publishers, Alone(q)'
             PROVE  Right(Reached(q, r), baseline[q[1]])'
  BY <1>1 DEF ReachedOK
<1>3. Alone(q) /\ q[1] \in Messages
  BY <1>1, Pairs DEF Alone, Other
<1>4. CASE r # s
  <2>1. r \in subscribed /\ r \in Subscribers
    BY <1>0, <1>4
  <2>2. After(r)' = After(r)
    BY <1>0, <1>1, <1>4, <2>1 DEF After, Waiting, Shows
  <2>3. Coming(q, r)' = Coming(q, r)
    BY <1>1 DEF Coming
  <2> QED BY <1>1, <1>3, <2>1, <2>2, <2>3, Unmoved
<1>5. CASE r = s
  <2> DEFINE v == [m \in Messages |-> IF emitted[m] = 0 THEN NoText ELSE Unseen]
  <2>1. v \in Views /\ screen'[s] = v
    BY <1>0, <1>1, Apart DEF Views
  <2>2. After(s)' = v
    <3>1. Waiting(s)' = << >>
      <4>1. << >> \in Seq(StreamEvents)
        OBVIOUS
      <4>2. << >> \o << >> = << >>
        BY <4>1, Regroup
      <4> QED BY <1>1, <1>2, <4>2 DEF Waiting
    <3>2. After(s)' = Shows(screen'[s], Waiting(s)')
      BY DEF After, Shows
    <3> HIDE DEF v
    <3> QED BY <2>1, <3>1, <3>2, ShowsNone
  <2>3. v[q[1]] = IF emitted[q[1]] = 0 THEN NoText ELSE Unseen
    BY <1>3
  <2> HIDE DEF v
  <2>4. s \notin receivers[q]
    BY <1>1 DEF EmitOK
  <2>5. Right(Reached(q, s), baseline[q[1]])' <=> Right(Reached(q, s)', baseline[q[1]])
    BY <1>1 DEF Right, Same
  <2>6. CASE stage[q] # "made"
    <3>1. Coming(q, s)' = << >>
      BY <1>1, <2>4, <2>6 DEF Coming
    <3>2. Reached(q, s)' = v[q[1]]
      BY <2>2, <3>1 DEF Reached
    <3>3. emitted[q[1]] = 0 => baseline[q[1]] = NoText
      BY <1>3 DEF EmitOK
    <3>4. Right(v[q[1]], baseline[q[1]])
      BY <2>3, <3>3 DEF Right, Same
    <3> QED BY <1>5, <2>5, <3>2, <3>4
  <2>7. CASE stage[q] = "made"
    <3>1. emitted[q[1]] # 0 /\ event[q] # << >> /\ event[q][1].to = baseline[q[1]]
      BY <1>3, <2>7 DEF EmitOK, AloneOK, Alone
    <3>2. Coming(q, s)' = event[q]
      BY <1>1, <2>7 DEF Coming
    <3>3. Reached(q, s)' = Read(v[q[1]], event[q][1])
      BY <1>1, <2>2, <3>1, <3>2 DEF Reached, Read, Replaces
    <3>4. v[q[1]] = Unseen
      BY <2>3, <3>1
    <3>5. Right(Read(Unseen, event[q][1]), baseline[q[1]])
      BY <3>1 DEF Right, Read, Same
    <3> QED BY <1>5, <2>5, <3>3, <3>4, <3>5
  <2> QED BY <2>6, <2>7
<1> QED BY <1>4, <1>5

LEMMA ReachedUnsubscribe ==
    ASSUME StreamTypeOK, ReachedOK, NEW s \in Subscribers, Unsubscribe(s)
    PROVE  ReachedOK'
<1> USE DEF streamSource, streamPublish, streamDelivery
<1>0. /\ queue \in Queues /\ carried \in Queues /\ channel \in Queues /\ screen \in [Subscribers -> Views]
      /\ subscribed \subseteq Subscribers
  BY FlowTypes
<1>1. UNCHANGED <<baseline, event, stage, overlapped>> /\ subscribed' = subscribed \ {s}
      /\ \A q \in Publishers : receivers'[q] = receivers[q] \ {s}
  BY DEF Unsubscribe
<1>2. \A r \in Subscribers \ {s} : /\ queue'[r] = queue[r] /\ carried'[r] = carried[r]
                                   /\ channel'[r] = channel[r] /\ screen'[r] = screen[r]
  BY <1>0 DEF Unsubscribe, Queues
<1> SUFFICES ASSUME NEW r \in subscribed \ {s}, NEW q \in Publishers, Alone(q)'
             PROVE  Right(Reached(q, r), baseline[q[1]])'
  BY <1>1 DEF ReachedOK
<1>3. After(r)' = After(r)
  BY <1>0, <1>2 DEF After, Waiting, Shows
<1>4. Coming(q, r)' = Coming(q, r) /\ Alone(q)
  BY <1>1 DEF Coming, Alone, Other
<1> QED BY <1>1, <1>3, <1>4, Unmoved

-----------------------------------------------------------------------------
LEMMA ReachedStep ==
    StreamTypeOK /\ EmitOK /\ AloneOK /\ QuietOK /\ KnownOK /\ ReachedOK /\ [StreamNext]_streamVars
        => ReachedOK'
<1> SUFFICES ASSUME StreamTypeOK, EmitOK, AloneOK, QuietOK, KnownOK, ReachedOK,
                    [StreamNext]_streamVars
             PROVE  ReachedOK'
  OBVIOUS
<1>1. CASE UNCHANGED streamVars
  <2>1. UNCHANGED <<baseline, event, stage, receivers, overlapped, subscribed, queue, carried,
                    channel, screen>>
    BY <1>1 DEF streamVars, streamSource, streamPublish, streamDelivery
  <2> QED BY <2>1 DEF ReachedOK, Reached, Alone, Other, Right, Same, After, Waiting, Shows,
                      Coming, Read, Replaces
<1> QED BY <1>1, ReachedPublish, ReachedMove, ReachedEnqueue, ReachedDeliver, ReachedSubscribe,
           ReachedUnsubscribe DEF StreamNext

\* With what is on its way from the one publisher that may be at work, a subscriber reaches
\* what ReachedOK says.
LEMMA ReachedInSync == FlowInv => InSync
<1> SUFFICES ASSUME FlowInv, NEW s \in subscribed, NEW m \in Messages \ overlapped
             PROVE  ShownRight(s, m)
  BY DEF InSync
<1> USE DEF FlowInv
<1>1. s \in Subscribers /\ screen[s] \in Views
  BY FlowTypes
<1>2. Waiting(s) \in Seq(StreamEvents) /\ After(s) \in Views
  BY <1>1, WaitingTyped
<1>3. PICK p \in Publishers : p[1] = m /\ stage[Other(p)] = "idle"
  <2>1. CASE stage[<<m, "run">>] = "idle"
    BY <2>1, Pairs
  <2>2. CASE stage[<<m, "run">>] # "idle"
    BY <2>2, Pairs DEF AloneOK
  <2> QED BY <2>1, <2>2
<1>4. Right(Reached(p, s), baseline[m])
  BY <1>3 DEF ReachedOK, Alone
<1>5. Coming(Other(p), s) = << >>
  BY <1>3, Pairs DEF Coming, EmitOK
<1>6. Final(s, m) = Shows(screen[s], Waiting(s) \o Coming(p, s))[m]
  <2>1. Coming(p, s) \in Seq(StreamEvents)
    BY DEF Coming, StreamTypeOK
  <2> DEFINE w == Waiting(s)
             a == Coming(<<m, "run">>, s)
             b == Coming(<<m, "relay">>, s)
  <2>2. w \o a \o b = w \o Coming(p, s)
    <3>1. p = <<m, "run">> \/ p = <<m, "relay">>
      BY <1>3 DEF Publishers
    <3>2. w \in Seq(StreamEvents) /\ w \o Coming(p, s) \in Seq(StreamEvents)
      BY <1>2, <2>1, ConcatProperties
    <3> HIDE DEF w
    <3>3. CASE p = <<m, "run">>
      <4>1. b = << >> /\ a = Coming(p, s)
        BY <1>5, <3>3, Pairs
      <4> HIDE DEF a, b
      <4> QED BY <3>2, <4>1, Regroup
    <3>4. CASE p = <<m, "relay">>
      <4>1. a = << >> /\ b = Coming(p, s)
        BY <1>5, <3>4, Pairs
      <4> HIDE DEF a, b
      <4> QED BY <3>2, <4>1, Regroup
    <3> QED BY <3>1, <3>3, <3>4
  <2> QED BY <2>2 DEF Final, Shows, Waiting
<1>7. Shows(screen[s], Waiting(s) \o Coming(p, s))[m] = Reached(p, s)
  <2>1. CASE Coming(p, s) = << >>
    BY <1>2, <1>3, <2>1, Regroup DEF Reached, After
  <2>2. CASE Coming(p, s) # << >>
    <3> DEFINE e == event[p][1]
    <3>1. event[p] # << >> /\ Coming(p, s) = event[p]
      BY <2>2 DEF Coming
    <3>2. e \in StreamEvents /\ Coming(p, s) = <<e>>
      BY <3>1, EventTyped
    <3>3. stage[p] # "idle" /\ e.message = m
      BY <1>3, <3>1 DEF EmitOK
    <3>4. Reached(p, s) = Read(After(s)[m], e)
      BY <1>3, <2>2 DEF Reached
    <3> HIDE DEF e
    <3>5. Shows(screen[s], Waiting(s) \o <<e>>) = Applied(After(s), e)
      <4> DEFINE w == Waiting(s)
      <4>1. w \in Seq(StreamEvents) /\ e \in StreamEvents /\ After(s) = Shows(screen[s], w)
        BY <1>2, <3>2 DEF After
      <4> HIDE DEF w
      <4>2. w \o <<e>> = Append(w, e)
        BY <4>1, Appending
      <4>3. Shows(screen[s], Append(w, e)) = Applied(Shows(screen[s], w), e)
        BY <1>1, <4>1, ShowsLast
      <4> QED BY <4>1, <4>2, <4>3 DEF w
    <3> QED BY <1>2, <3>2, <3>3, <3>4, <3>5, AppliedFacts
  <2> QED BY <2>1, <2>2
<1> QED BY <1>4, <1>6, <1>7 DEF Right, ShownRight

-----------------------------------------------------------------------------
LEMMA FlowInvariant == StreamSpec => []FlowInv
<1>1. StreamInit => FlowInv
  BY StreamTypedInit, EmitInit DEF FlowInv
<1>2. FlowInv /\ [StreamNext]_streamVars => FlowInv'
  <2> SUFFICES ASSUME FlowInv, [StreamNext]_streamVars PROVE FlowInv'
    OBVIOUS
  <2>1. StreamTypeOK'
    <3>1. \A p \in Publishers : stage[p] = "send" => event[p] # << >>
      BY DEF FlowInv, EmitOK
    <3> QED BY <3>1, StreamTypedStep DEF FlowInv
  <2> QED BY <2>1, EmitStep, AloneStep, QuietStep, KnownStep, ReachedStep DEF FlowInv
<1> QED BY <1>1, <1>2, PTL DEF StreamSpec

\* The variables keep their types, and no channel holds more than its capacity (run waits
\* for room in out).
THEOREM StreamTypes == StreamSpec => []StreamTypeOK
<1>1. FlowInv => StreamTypeOK
  BY DEF FlowInv
<1> QED BY <1>1, FlowInvariant, PTL

\* However many runs and relays publish to however many subscribers, and wherever one of them
\* joins or leaves: a consumer that has seen a message whole will show the text published
\* last, unless a publication outside sessionMu has overlapped with another one of the message
\* since its text was last replaced (publish, enqueue, mergeDeltaEvents, run,
\* removeSubscriber; sessionMu of projectToolConfirmation).
THEOREM StreamInSync == StreamSpec => []InSync
BY ReachedInSync, FlowInvariant, PTL
=============================================================================
