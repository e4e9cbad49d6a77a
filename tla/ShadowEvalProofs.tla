-------------------------- MODULE ShadowEvalProofs --------------------------
(***************************************************************************)
(* Theorems about a testnet session's shadow books, its recording and what *)
(* is computed from it, for every number of orders, snapshots and failed   *)
(* calls, every book, calibration and draw: the replay reproduces the      *)
(* recorded fills, the fill models are ordered, and a real fill labels     *)
(* exactly one look.                                                       *)
(***************************************************************************)
EXTENDS ShadowEval, FiniteSetTheorems, WellFoundedInduction, TLAPS

-----------------------------------------------------------------------------
(* Induction over the elements of a recording *)

LEMMA LeastNatural ==
    ASSUME NEW S \in SUBSET Nat, S # {}
    PROVE  \E x \in S : \A y \in S : x <= y
<1>1. \E x \in S : \A y \in S : ~(<<y, x>> \in OpToRel(<, Nat))
  BY NatLessThanWellFounded, WFMin
<1>2. \A x, y \in S : ~(<<y, x>> \in OpToRel(<, Nat)) => x <= y
  BY DEF OpToRel
<1> QED
  BY <1>1, <1>2

\* A set that holds the first of some numbers, and the next of each, holds all.
LEMMA UpTo ==
    ASSUME NEW a \in Int, NEW b \in Int, NEW S, a \in S,
           \A n \in a..b : n \in S /\ n < b => n + 1 \in S
    PROVE  a..b \subseteq S
<1> DEFINE Bad == {k \in Nat : a + k <= b /\ a + k \notin S}
<1>1. SUFFICES Bad = {}
  <2>1. ASSUME NEW n \in a..b PROVE n \in S
    <3>1. n - a \in Nat /\ a + (n - a) = n /\ n <= b
      OBVIOUS
    <3> QED
      BY <1>1, <3>1
  <2> QED
    BY <2>1
<1>2. SUFFICES ASSUME Bad # {} PROVE FALSE
  OBVIOUS
<1>3. Bad \in SUBSET Nat
  OBVIOUS
<1>4. PICK k \in Bad : \A j \in Bad : k <= j
  <2> HIDE DEF Bad
  <2> QED
    BY <1>2, <1>3, LeastNatural
<1>5. k \in Nat /\ a + k <= b /\ a + k \notin S
  OBVIOUS
<1>6. k # 0
  BY <1>5
<1>7. k - 1 \in Nat /\ ~(k <= k - 1) /\ a + (k - 1) \in a..b /\ a + (k - 1) < b
      /\ (a + (k - 1)) + 1 = a + k
  BY <1>5, <1>6
<1>8. a + (k - 1) \in S
  BY <1>4, <1>7
<1> QED
  BY <1>5, <1>7, <1>8

-----------------------------------------------------------------------------
(* Sums over a set *)

One(s) == CHOOSE x \in s : TRUE

\* F gives the sum of v over every subset of S.
IsSum(F, v, S) ==
    /\ IsFiniteSet(S) /\ \A x \in S : v[x] \in Int
    /\ DOMAIN F = SUBSET S
    /\ \A s \in SUBSET S : F[s] \in Int
    /\ \A s \in SUBSET S : F[s] = IF s = {} THEN 0 ELSE v[One(s)] + F[s \ {One(s)}]

LEMMA Smaller ==
    ASSUME NEW S, IsFiniteSet(S), NEW s \in SUBSET S
    PROVE  /\ IsFiniteSet(s) /\ Cardinality(s) \in 0..Cardinality(S) /\ Cardinality(S) \in Nat
           /\ s # {} => One(s) \in s
           /\ \A x \in s : Cardinality(s \ {x}) = Cardinality(s) - 1 /\ s \ {x} \in SUBSET S
           /\ Cardinality(s) = 0 => s = {}
           /\ s # {} => Cardinality(s) # 0
<1>1. IsFiniteSet(s) /\ Cardinality(s) <= Cardinality(S) /\ Cardinality(s) \in Nat
      /\ Cardinality(S) \in Nat
  BY FS_Subset, FS_CardinalityType
<1>2. s # {} => One(s) \in s
  BY DEF One
<1>3. \A x \in s : Cardinality(s \ {x}) = Cardinality(s) - 1
  BY <1>1, FS_RemoveElement
<1>4. Cardinality(s) = 0 <=> s = {}
  BY <1>1, FS_EmptySet
<1> QED
  BY <1>1, <1>2, <1>3, <1>4

LEMMA SumExists ==
    ASSUME NEW S, IsFiniteSet(S), NEW v, \A x \in S : v[x] \in Int
    PROVE  \E F : IsSum(F, v, S) /\ F[S] = SumFunctionOnSet(v, S)
<1> DEFINE N == Cardinality(S)
           Small(m) == {s \in SUBSET S : Cardinality(s) <= m}
           Body(g, s) == IF s = {} THEN 0 ELSE v[One(s)] + g[s \ {One(s)}]
           Good == {m \in 0..N : \E g : /\ g = [s \in Small(m) |-> Body(g, s)]
                                        /\ \A s \in Small(m) : g[s] \in Int}
           sum == CHOOSE g : g = [s \in SUBSET S |-> Body(g, s)]
<1>1. N \in Nat
  BY FS_CardinalityType
<1>2. SumFunctionOnSet(v, S) = sum[S]
  BY DEF SumFunctionOnSet, FoldFunctionOnSet, MapThenFoldSet, One
<1>3. 0 \in Good
  <2> DEFINE h == [s \in Small(0) |-> 0]
  <2>1. ASSUME NEW s \in Small(0) PROVE s = {}
    <3>1. s \in SUBSET S /\ Cardinality(s) <= 0
      OBVIOUS
    <3>2. Cardinality(s) \in Nat /\ (Cardinality(s) = 0 => s = {})
      BY <3>1, Smaller, <1>1
    <3> QED
      BY <3>1, <3>2
  <2>2. \A s \in Small(0) : h[s] = Body(h, s) /\ h[s] \in Int
    BY <2>1
  <2>3. h = [s \in Small(0) |-> Body(h, s)]
    BY <2>2
  <2>4. 0 \in 0..N
    BY <1>1
  <2> HIDE DEF h, Body, Small
  <2> QED
    BY <2>2, <2>3, <2>4
<1>4. ASSUME NEW n \in 0..N, n \in Good, n < N PROVE n + 1 \in Good
  <2>1. PICK g : /\ g = [s \in Small(n) |-> Body(g, s)]
                 /\ \A s \in Small(n) : g[s] \in Int
    BY <1>4
  <2> DEFINE h == [s \in Small(n + 1) |-> Body(g, s)]
  <2>2. ASSUME NEW s \in Small(n + 1), s # {}
        PROVE  s \ {One(s)} \in Small(n) /\ s \ {One(s)} \in Small(n + 1) /\ One(s) \in S
    <3>1. s \in SUBSET S /\ Cardinality(s) <= n + 1 /\ n \in Nat
      BY <1>1
    <3>2. Cardinality(s) \in Nat /\ One(s) \in s /\ Cardinality(s \ {One(s)}) = Cardinality(s) - 1
      BY <2>2, <3>1, Smaller, <1>1
    <3> QED
      BY <3>1, <3>2
  <2>3. ASSUME NEW s \in Small(n) PROVE h[s] = g[s] /\ s \in Small(n + 1)
    <3>1. s \in SUBSET S /\ Cardinality(s) <= n /\ n \in Nat /\ Cardinality(s) \in Nat
      BY <1>1, Smaller
    <3>2. s \in Small(n + 1)
      BY <3>1
    <3>3. g[s] = Body(g, s)
      <4> HIDE DEF Body, Small
      <4> QED
        BY <2>1, <2>3
    <3> HIDE DEF Body, Small
    <3> QED
      BY <3>2, <3>3
  <2>4. ASSUME NEW s \in Small(n + 1) PROVE h[s] = Body(h, s) /\ h[s] \in Int
    <3>1. h[s] = Body(g, s)
      <4> HIDE DEF Body, Small
      <4> QED
        OBVIOUS
    <3>2. CASE s = {}
      BY <3>1, <3>2
    <3>3. CASE s # {}
      <4>1. s \ {One(s)} \in Small(n) /\ One(s) \in S
        BY <2>2, <3>3
      <4>2. h[s \ {One(s)}] = g[s \ {One(s)}] /\ g[s \ {One(s)}] \in Int
        <5> HIDE DEF h, Small
        <5> QED
          BY <2>1, <2>3, <4>1
      <4>3. v[One(s)] \in Int
        BY <4>1
      <4> HIDE DEF h
      <4> QED
        BY <3>1, <3>3, <4>2, <4>3
    <3> QED
      BY <3>2, <3>3
  <2>5. h = [s \in Small(n + 1) |-> Body(h, s)]
    <3>1. \A s \in Small(n + 1) : h[s] = Body(h, s)
      BY <2>4
    <3> HIDE DEF Body, Small
    <3> QED
      BY <3>1
  <2>6. n + 1 \in 0..N
    BY <1>1, <1>4
  <2> HIDE DEF h, Body, Small
  <2> QED
    BY <2>4, <2>5, <2>6
<1>5. N \in Good
  <2>1. 0..N \subseteq Good
    <3> HIDE DEF Good, N
    <3>1. 0 \in Int /\ N \in Int
      BY <1>1
    <3> QED
      BY <1>3, <1>4, <3>1, UpTo
  <2> HIDE DEF Good
  <2> QED
    BY <1>1, <2>1
<1>6. Small(N) = SUBSET S
  BY Smaller, <1>1
<1>7. PICK g : g = [s \in SUBSET S |-> Body(g, s)] /\ \A s \in SUBSET S : g[s] \in Int
  <2> HIDE DEF Small, Body
  <2> QED
    BY <1>5, <1>6
<1>8. sum = [s \in SUBSET S |-> Body(sum, s)]
  <2> HIDE DEF Body
  <2> QED
    BY <1>7
<1> HIDE DEF sum
<1>9. \A s \in SUBSET S : sum[s] = Body(sum, s) /\ g[s] = Body(g, s)
  <2> HIDE DEF Body
  <2> QED
    BY <1>7, <1>8
<1> DEFINE Same == {m \in 0..N : \A s \in SUBSET S : Cardinality(s) <= m => sum[s] = g[s]}
<1>10. 0 \in Same
  <2>1. ASSUME NEW s \in SUBSET S, Cardinality(s) <= 0 PROVE sum[s] = g[s]
    <3>1. s = {}
      BY <2>1, Smaller, <1>1
    <3> QED
      BY <1>9, <3>1
  <2> QED
    BY <1>1, <2>1
<1>11. ASSUME NEW n \in 0..N, n \in Same, n < N PROVE n + 1 \in Same
  <2>1. ASSUME NEW s \in SUBSET S, Cardinality(s) <= n + 1 PROVE sum[s] = g[s]
    <3>1. CASE s = {}
      BY <1>9, <3>1
    <3>2. CASE s # {}
      <4>1. s \ {One(s)} \in SUBSET S /\ Cardinality(s \ {One(s)}) <= n
        BY <1>1, <1>4, <2>1, <3>2, Smaller
      <4>2. sum[s \ {One(s)}] = g[s \ {One(s)}]
        BY <1>11, <4>1
      <4>3. sum[s] = v[One(s)] + sum[s \ {One(s)}] /\ g[s] = v[One(s)] + g[s \ {One(s)}]
        BY <1>9, <3>2
      <4> QED
        BY <4>2, <4>3
    <3> QED
      BY <3>1, <3>2
  <2>2. n + 1 \in 0..N
    BY <1>1, <1>11
  <2> QED
    BY <2>1, <2>2
<1>12. \A s \in SUBSET S : sum[s] = g[s]
  <2>1. 0..N \subseteq Same
    <3> HIDE DEF Same, N
    <3>1. 0 \in Int /\ N \in Int
      BY <1>1
    <3> QED
      BY <1>10, <1>11, <3>1, UpTo
  <2>2. N \in Same
    <3> HIDE DEF Same
    <3> QED
      BY <1>1, <2>1
  <2> QED
    BY <2>2, Smaller
<1>13. IsSum(sum, v, S)
  BY <1>7, <1>8, <1>9, <1>12 DEF IsSum
<1> QED
  BY <1>2, <1>13

\* Any element may be taken first.
AnyFirst(F, v, S) == \A s \in SUBSET S : \A x \in s : F[s] = v[x] + F[s \ {x}]

LEMMA SumPick ==
    ASSUME NEW S, NEW v, NEW F, IsSum(F, v, S)
    PROVE  AnyFirst(F, v, S)
<1>0. IsFiniteSet(S) /\ \A x \in S : v[x] \in Int
  BY DEF IsSum
<1> DEFINE N == Cardinality(S)
           Good == {m \in 0..N : \A s \in SUBSET S : Cardinality(s) <= m =>
                                   \A x \in s : F[s] = v[x] + F[s \ {x}]}
<1>1. N \in Nat
  BY <1>0, FS_CardinalityType
<1>2. 0 \in Good
  <2>1. ASSUME NEW s \in SUBSET S, Cardinality(s) <= 0 PROVE s = {}
    BY <2>1, <1>0, Smaller, <1>1
  <2> QED
    BY <1>1, <2>1
<1>3. ASSUME NEW n \in 0..N, n \in Good, n < N PROVE n + 1 \in Good
  <2>1. ASSUME NEW s \in SUBSET S, Cardinality(s) <= n + 1, NEW x \in s
        PROVE  F[s] = v[x] + F[s \ {x}]
    <3> DEFINE c == One(s)
               sc == s \ {c}
               sx == s \ {x}
               scx == sc \ {x}
    <3>1. c \in s
      BY <1>0, <2>1, Smaller
    <3>2. F[s] = v[c] + F[sc]
      BY <2>1 DEF IsSum
    <3> HIDE DEF c
    <3>3. CASE x = c
      BY <3>2, <3>3
    <3>4. CASE x # c
      <4>1. sc \in SUBSET S /\ sx \in SUBSET S /\ Cardinality(sc) <= n /\ Cardinality(sx) <= n
            /\ x \in sc /\ c \in sx
        <5>1. Cardinality(sc) = Cardinality(s) - 1 /\ Cardinality(sx) = Cardinality(s) - 1
              /\ Cardinality(s) \in Nat
          BY <2>1, <3>1, <1>0, Smaller, <1>1
        <5> QED
          BY <2>1, <3>1, <3>4, <5>1, <1>1
      <4>2. sx \ {c} = scx
        OBVIOUS
      <4>3. F[sc] = v[x] + F[scx] /\ F[sx] = v[c] + F[scx]
        <5> HIDE DEF sc, sx, scx
        <5>1. F[sc] = v[x] + F[sc \ {x}] /\ F[sx] = v[c] + F[sx \ {c}]
          BY <1>3, <4>1
        <5> QED
          BY <4>2, <5>1 DEF scx
      <4>4. v[c] \in Int /\ v[x] \in Int /\ F[scx] \in Int
        BY <1>0, <3>1, <4>1 DEF IsSum
      <4> HIDE DEF sc, sx, scx
      <4>5. F[s] = v[x] + F[sx]
        BY <3>2, <4>3, <4>4
      <4> QED
        BY <4>5 DEF sx
    <3> QED
      BY <3>3, <3>4
  <2>2. n + 1 \in 0..N
    BY <1>1, <1>3
  <2> QED
    BY <2>1, <2>2
<1>4. 0..N \subseteq Good
  <2> HIDE DEF Good, N
  <2>1. 0 \in Int /\ N \in Int
    BY <1>1
  <2> QED
    BY <1>2, <1>3, <2>1, UpTo
<1>5. N \in Good
  <2> HIDE DEF Good
  <2> QED
    BY <1>1, <1>4
<1>6. \A s \in SUBSET S : Cardinality(s) <= N
  BY <1>0, Smaller, <1>1
<1> QED
  BY <1>5, <1>6 DEF AnyFirst

\* Functions that agree on S have the same sums in S.
LEMMA SumAgree ==
    ASSUME NEW S, IsFiniteSet(S), NEW T, S \subseteq T, NEW v, NEW w, \A x \in S : v[x] = w[x],
           NEW F, IsSum(F, v, S), NEW G, IsSum(G, w, T)
    PROVE  \A s \in SUBSET S : F[s] = G[s]
<1> DEFINE N == Cardinality(S)
           Good == {m \in 0..N : \A s \in SUBSET S : Cardinality(s) <= m => F[s] = G[s]}
<1>1. N \in Nat
  BY FS_CardinalityType
<1>2. \A s \in SUBSET S : /\ F[s] = IF s = {} THEN 0 ELSE v[One(s)] + F[s \ {One(s)}]
                          /\ G[s] = IF s = {} THEN 0 ELSE w[One(s)] + G[s \ {One(s)}]
  BY DEF IsSum
<1>3. 0 \in Good
  <2>1. ASSUME NEW s \in SUBSET S, Cardinality(s) <= 0 PROVE s = {}
    BY <2>1, Smaller, <1>1
  <2> QED
    BY <1>1, <1>2, <2>1
<1>4. ASSUME NEW n \in 0..N, n \in Good, n < N PROVE n + 1 \in Good
  <2>1. ASSUME NEW s \in SUBSET S, Cardinality(s) <= n + 1 PROVE F[s] = G[s]
    <3>1. CASE s = {}
      BY <1>2, <3>1
    <3>2. CASE s # {}
      <4>1. s \ {One(s)} \in SUBSET S /\ Cardinality(s \ {One(s)}) <= n /\ One(s) \in S
        BY <1>1, <2>1, <3>2, Smaller
      <4>2. F[s \ {One(s)}] = G[s \ {One(s)}]
        BY <1>4, <4>1
      <4>3. F[s] = v[One(s)] + F[s \ {One(s)}] /\ G[s] = w[One(s)] + G[s \ {One(s)}]
        BY <1>2, <3>2
      <4> QED
        BY <4>1, <4>2, <4>3
    <3> QED
      BY <3>1, <3>2
  <2>2. n + 1 \in 0..N
    BY <1>1, <1>4
  <2> QED
    BY <2>1, <2>2
<1>5. 0..N \subseteq Good
  <2> HIDE DEF Good, N
  <2>1. 0 \in Int /\ N \in Int
    BY <1>1
  <2> QED
    BY <1>3, <1>4, <2>1, UpTo
<1>6. N \in Good
  <2> HIDE DEF Good
  <2> QED
    BY <1>1, <1>5
<1> QED
  BY <1>6, Smaller

\* What the models need of sums.
LEMMA SumEmpty == \A v : SumFunctionOnSet(v, {}) = 0
<1> SUFFICES ASSUME NEW v PROVE SumFunctionOnSet(v, {}) = 0
  OBVIOUS
<1>1. IsFiniteSet({}) /\ \A x \in {} : v[x] \in Int
  BY FS_EmptySet
<1> DEFINE S == {}
<1>2. PICK F : IsSum(F, v, S) /\ F[S] = SumFunctionOnSet(v, S)
  <2>1. IsFiniteSet(S) /\ \A x \in S : v[x] \in Int
    BY <1>1
  <2> HIDE DEF S
  <2> QED
    BY <2>1, SumExists
<1>3. F[{}] = 0
  BY <1>2 DEF IsSum
<1> QED
  BY <1>2, <1>3

LEMMA SumInt ==
    ASSUME NEW S, IsFiniteSet(S), NEW v, \A x \in S : v[x] \in Int
    PROVE  SumFunctionOnSet(v, S) \in Int
<1>1. PICK F : IsSum(F, v, S) /\ F[S] = SumFunctionOnSet(v, S)
  BY SumExists
<1> QED
  BY <1>1 DEF IsSum

\* T has x besides S, and w is v on S.
OneMore(T, w, S, v, x) ==
    /\ IsFiniteSet(S) /\ x \notin S /\ T = S \union {x}
    /\ \A y \in S : v[y] = w[y] /\ v[y] \in Int
    /\ w[x] \in Int

LEMMA SumAdd ==
    ASSUME NEW T, NEW w, NEW S, NEW v, NEW x, OneMore(T, w, S, v, x)
    PROVE  SumFunctionOnSet(w, T) = SumFunctionOnSet(v, S) + w[x]
<1>0. /\ IsFiniteSet(S) /\ x \notin S /\ T = S \union {x}
      /\ \A y \in S : v[y] = w[y] /\ v[y] \in Int
      /\ w[x] \in Int
  BY DEF OneMore
<1>1. IsFiniteSet(T) /\ S \subseteq T /\ x \in T /\ T \in SUBSET T
      /\ \A y \in T : w[y] \in Int
  BY <1>0, FS_AddElement
<1>2. T \ {x} = S
  BY <1>0
<1>3. PICK F : IsSum(F, v, S) /\ F[S] = SumFunctionOnSet(v, S)
  BY <1>0, SumExists
<1>4. PICK G : IsSum(G, w, T) /\ G[T] = SumFunctionOnSet(w, T)
  BY <1>1, SumExists
<1>5. G[T] = w[x] + G[S]
  <2>1. AnyFirst(G, w, T)
    BY <1>4, SumPick
  <2>2. G[T] = w[x] + G[T \ {x}]
    BY <1>1, <2>1 DEF AnyFirst
  <2> QED
    BY <1>2, <2>2
<1>6. F[S] = G[S]
  BY <1>0, <1>1, <1>3, <1>4, SumAgree
<1>7. F[S] \in Int /\ w[x] \in Int
  BY <1>0, <1>3 DEF IsSum
<1>8. G[T] = F[S] + w[x]
  BY <1>5, <1>6, <1>7
<1> QED
  BY <1>3, <1>4, <1>8

\* The sum depends only on what is summed.
LEMMA SumSame ==
    ASSUME NEW S, IsFiniteSet(S), NEW v, NEW w, \A y \in S : v[y] = w[y] /\ v[y] \in Int
    PROVE  SumFunctionOnSet(w, S) = SumFunctionOnSet(v, S)
<1>1. PICK F : IsSum(F, v, S) /\ F[S] = SumFunctionOnSet(v, S)
  BY SumExists
<1>2. PICK G : IsSum(G, w, S) /\ G[S] = SumFunctionOnSet(w, S)
  BY SumExists
<1>3. F[S] = G[S]
  BY <1>1, <1>2, SumAgree
<1> QED
  BY <1>1, <1>2, <1>3

-----------------------------------------------------------------------------
(* What a replay computes, tick by tick *)

AllPrices == Prices["bid"] \union Prices["ask"]
States == {"open", "partially_filled"} \union FinalStates
OrderType == [side : {"bid", "ask"}, price : AllPrices, size : {OrderSize}, state : States,
              filled : Nat, acked : Nat, ended : Int]
OrdersOK(os) == os \in Seq(OrderType) /\ Len(os) <= MaxOrders

OpenSets == SUBSET Nat
TickType == [seq : Nat \ {0}, at : Nat, book : Books, open : OpenSets]
TicksOK(ts) == ts \in Seq(TickType) /\ \A i, j \in 1..Len(ts) : i < j => ts[i].seq < ts[j].seq

Replays(R, os, ts, models, calibrated) ==
    /\ R[0] = NewShadows(models)
    /\ \A n \in 1..Len(ts) : R[n] = ReplayTick(os, R[n - 1], ts[n], calibrated)

LEMMA ReplayRec ==
    ASSUME NEW os, NEW ts \in Seq(TickType), NEW models, NEW calibrated
    PROVE  Replays(ReplayedTicks(os, ts, models, calibrated), os, ts, models, calibrated)
<1> DEFINE N == Len(ts)
           Next1(r, n) == ReplayTick(os, r, ts[n], calibrated)
           start == NewShadows(models)
           Good == {m \in 0..N : \E g : g = [n \in 0..m |-> IF n = 0 THEN start
                                                            ELSE Next1(g[n - 1], n)]}
           R == CHOOSE g : g = [n \in 0..N |-> IF n = 0 THEN start ELSE Next1(g[n - 1], n)]
<1>1. N \in Nat
  OBVIOUS
<1>2. ReplayedTicks(os, ts, models, calibrated) = R
  BY DEF ReplayedTicks
<1> HIDE DEF N, Next1, start
<1>3. 0 \in Good
  <2> DEFINE h == [n \in 0..0 |-> start]
  <2>1. h = [n \in 0..0 |-> IF n = 0 THEN start ELSE Next1(h[n - 1], n)]
    OBVIOUS
  <2> HIDE DEF h
  <2> QED
    BY <1>1, <2>1
<1>4. ASSUME NEW m \in 0..N, m \in Good, m < N PROVE m + 1 \in Good
  <2>1. PICK g : g = [n \in 0..m |-> IF n = 0 THEN start ELSE Next1(g[n - 1], n)]
    BY <1>4
  <2> DEFINE h == [n \in 0..(m + 1) |-> IF n = m + 1 THEN Next1(g[m], m + 1) ELSE g[n]]
  <2>2. ASSUME NEW n \in 0..(m + 1)
        PROVE  h[n] = IF n = 0 THEN start ELSE Next1(h[n - 1], n)
    <3>1. CASE n = m + 1
      <4>1. h[m] = g[m]
        BY <1>1
      <4>2. h[n] = Next1(g[m], n) /\ n # 0 /\ n - 1 = m
        BY <1>1, <3>1
      <4> HIDE DEF h
      <4> QED
        BY <4>1, <4>2
    <3>2. CASE n # m + 1 /\ n # 0
      <4>1. n \in 0..m /\ n - 1 \in 0..m /\ n - 1 # m + 1 /\ n - 1 \in 0..(m + 1)
        BY <1>1, <3>2
      <4>2. h[n] = g[n] /\ h[n - 1] = g[n - 1]
        BY <3>2, <4>1
      <4>3. g[n] = Next1(g[n - 1], n)
        BY <2>1, <3>2, <4>1
      <4> HIDE DEF h
      <4> QED
        BY <3>2, <4>2, <4>3
    <3>3. CASE n # m + 1 /\ n = 0
      <4>1. n \in 0..m
        BY <1>1, <3>3
      <4>2. h[n] = g[n] /\ g[n] = start
        BY <2>1, <3>3, <4>1
      <4> HIDE DEF h
      <4> QED
        BY <3>3, <4>2
    <3> QED
      BY <3>1, <3>2, <3>3
  <2>3. h = [n \in 0..(m + 1) |-> IF n = 0 THEN start ELSE Next1(h[n - 1], n)]
    BY <2>2
  <2>4. m + 1 \in 0..N
    BY <1>1, <1>4
  <2> HIDE DEF h
  <2> QED
    BY <2>3, <2>4
<1>5. N \in Good
  <2>1. 0..N \subseteq Good
    <3> HIDE DEF Good
    <3>1. 0 \in Int /\ N \in Int
      BY <1>1
    <3> QED
      BY <1>3, <1>4, <3>1, UpTo
  <2> HIDE DEF Good
  <2> QED
    BY <1>1, <2>1
<1>6. R = [n \in 0..N |-> IF n = 0 THEN start ELSE Next1(R[n - 1], n)]
  BY <1>5
<1> HIDE DEF R
<1>7. R[0] = start /\ \A n \in 1..N : R[n] = Next1(R[n - 1], n)
  BY <1>1, <1>6
<1> QED
  BY <1>2, <1>7 DEF Replays, Next1, start, N

\* A book that fits the orders: every quote is what is left of its order.
BookOK(b, os) ==
    /\ DOMAIN b.filled = 1..MaxOrders
    /\ \A o \in 1..MaxOrders : b.filled[o] \in Nat
    /\ DOMAIN b.quotes \subseteq DOMAIN os
    /\ \A o \in DOMAIN os : b.filled[o] <= OrderSize
    /\ \A o \in DOMAIN b.quotes :
         /\ "size" \in DOMAIN b.quotes[o] /\ "side" \in DOMAIN b.quotes[o]
         /\ "price" \in DOMAIN b.quotes[o]
         /\ b.quotes[o].size = OrderSize - b.filled[o] /\ b.filled[o] < OrderSize
         /\ b.quotes[o].side = os[o].side /\ b.quotes[o].price = os[o].price

\* What a snapshot fills of an order.
Quoted(b, window, os, o) == o \in window /\ b.filled[o] < OrderSize

Got(m, calibrated, b, window, os, s, n, volatility, o) ==
    IF Quoted(b, window, os, o)
    THEN DetectFill(m, calibrated, Batch(b, window, os)[o], s, n, volatility) ELSE 0

LEMMA OrderFields ==
    ASSUME NEW os, OrdersOK(os), NEW o \in DOMAIN os
    PROVE  /\ o \in 1..MaxOrders /\ o \in 1..Len(os)
           /\ os[o].size = OrderSize /\ os[o] \in OrderType
<1>1. os \in Seq(OrderType) /\ Len(os) <= MaxOrders
  BY DEF OrdersOK
<1>2. o \in 1..Len(os) /\ Len(os) \in Nat /\ os[o] \in OrderType
  BY <1>1
<1>3. MaxOrders \in Nat
  BY SizesAssumption
<1>4. os[o].size = OrderSize
  BY <1>2 DEF OrderType
<1> QED
  BY <1>1, <1>2, <1>3, <1>4

LEMMA BatchOK ==
    ASSUME NEW os, OrdersOK(os), NEW b, BookOK(b, os), NEW window, window \subseteq DOMAIN os
    PROVE  LET batch == Batch(b, window, os)
           IN  /\ \A o : o \in DOMAIN batch <=> Quoted(b, window, os, o)
               /\ \A o \in DOMAIN batch :
                    /\ {"size", "side", "price"} \subseteq DOMAIN batch[o]
                    /\ batch[o].size = OrderSize - b.filled[o]
                    /\ batch[o].side = os[o].side /\ batch[o].price = os[o].price
<1> DEFINE batch == Batch(b, window, os)
<1>1. \A o \in window : Remaining(b, o, os[o]) = OrderSize - b.filled[o] /\ b.filled[o] \in Nat
  BY OrderFields DEF Remaining, BookOK
<1>2. \A o : o \in DOMAIN batch <=> o \in window /\ (o \in DOMAIN b.quotes \/ Remaining(b, o, os[o]) > 0)
  BY DEF Batch
<1>3. OrderSize \in Nat
  BY SizesAssumption
<1>4. \A o : o \in DOMAIN batch <=> Quoted(b, window, os, o)
  BY <1>1, <1>2, <1>3 DEF BookOK, Quoted
<1>5. ASSUME NEW o \in DOMAIN batch
      PROVE  /\ {"size", "side", "price"} \subseteq DOMAIN batch[o]
             /\ batch[o].size = OrderSize - b.filled[o]
             /\ batch[o].side = os[o].side /\ batch[o].price = os[o].price
  <2>1. o \in window /\ o \in DOMAIN os
    BY <1>2, <1>5
  <2>2. CASE o \in DOMAIN b.quotes
    <3>1. batch[o] = b.quotes[o]
      BY <1>5, <2>2 DEF Batch
    <3> QED
      BY <2>2, <3>1 DEF BookOK
  <2>3. CASE o \notin DOMAIN b.quotes
    <3>1. batch[o] = OpenQuote(o, os[o], Remaining(b, o, os[o]))
      BY <1>5, <2>3 DEF Batch
    <3> QED
      BY <1>1, <2>1, <3>1 DEF OpenQuote
  <2> QED
    BY <2>2, <2>3
<1> QED
  BY <1>4, <1>5

\* A fill is at most what is left.
LEMMA DetectBound ==
    ASSUME NEW q, q.size \in Nat, NEW s, s.book \in Books, NEW m, NEW calibrated, NEW n,
           NEW volatility
    PROVE  DetectFill(m, calibrated, q, s, n, volatility) \in 0..q.size
<1>1. Opposing(q, s.book) \in Int
  BY SizesAssumption DEF Opposing
<1>2. FillSizeForCross(m, q, s.book) \in 0..q.size
  <2> DEFINE x == Opposing(q, s.book)
  <2>1. x \in Int
    BY <1>1
  <2> HIDE DEF x
  <2>2. MinOf(q.size, MaxOf(0, x)) \in 0..q.size
    BY <2>1 DEF MinOf, MaxOf
  <2> QED
    BY <2>2 DEF FillSizeForCross, x
<1>3. q.size \in 0..q.size /\ 0 \in 0..q.size
  OBVIOUS
<1> QED
  BY <1>2, <1>3 DEF DetectFill

\* One book over one snapshot.
LEMMA BookStepOK ==
    ASSUME NEW os, OrdersOK(os), NEW b, BookOK(b, os), NEW window, window \subseteq DOMAIN os,
           NEW s, s.book \in Books, NEW m, NEW calibrated, NEW n, NEW volatility
    PROVE  LET batch == Batch(b, window, os)
               r == BookStep(m, calibrated, b, batch, s, n, volatility)
               Size(o) == Got(m, calibrated, b, window, os, s, n, volatility, o)
           IN  /\ BookOK(r.book, os)
               /\ \A o \in DOMAIN os :
                    /\ Size(o) \in Nat /\ b.filled[o] \in Nat
                    /\ r.book.filled[o] = b.filled[o] + Size(o)
                    /\ Size(o) <= OrderSize - b.filled[o]
               /\ r.fills = {[model |-> m, order |-> o, tick |-> n, size |-> Size(o),
                              price |-> batch[o].price, at |-> s.at] :
                               o \in {x \in DOMAIN os : Size(x) > 0}}
<1> DEFINE batch == Batch(b, window, os)
           size == FillsOfBatch(m, calibrated, batch, s, n, volatility)
           r == BookStep(m, calibrated, b, batch, s, n, volatility)
           Size(o) == Got(m, calibrated, b, window, os, s, n, volatility, o)
<1>1. /\ \A o : o \in DOMAIN batch <=> Quoted(b, window, os, o)
      /\ \A o \in DOMAIN batch :
           /\ {"size", "side", "price"} \subseteq DOMAIN batch[o]
           /\ batch[o].size = OrderSize - b.filled[o]
           /\ batch[o].side = os[o].side /\ batch[o].price = os[o].price
  BY BatchOK
<1>2. \A o \in DOMAIN os : o \in 1..MaxOrders /\ b.filled[o] \in Nat /\ b.filled[o] <= OrderSize
  BY OrderFields DEF BookOK
<1>3. OrderSize \in Nat
  BY SizesAssumption
<1>4. DOMAIN size = DOMAIN batch /\ \A o \in DOMAIN batch : size[o] = Size(o)
  BY <1>1 DEF FillsOfBatch, Got
<1>5. \A o : o \notin DOMAIN batch => Size(o) = 0
  BY <1>1 DEF Got
<1>6. DOMAIN batch \subseteq DOMAIN os
  BY <1>1 DEF Quoted
<1>7. \A o \in DOMAIN batch : Size(o) \in 0..(OrderSize - b.filled[o])
  <2> SUFFICES ASSUME NEW o \in DOMAIN batch PROVE size[o] \in 0..(OrderSize - b.filled[o])
    BY <1>4
  <2>1. batch[o].size = OrderSize - b.filled[o] /\ batch[o].size \in Nat
    BY <1>1, <1>2, <1>3, <1>6
  <2>2. size[o] = DetectFill(m, calibrated, batch[o], s, n, volatility)
    BY DEF FillsOfBatch
  <2> HIDE DEF batch, size
  <2>3. size[o] \in 0..batch[o].size
    BY <2>1, <2>2, DetectBound
  <2> QED
    BY <2>1, <2>3
<1> HIDE DEF Size
<1>8. \A o \in DOMAIN os : Size(o) \in Nat /\ Size(o) <= OrderSize - b.filled[o]
  BY <1>2, <1>3, <1>5, <1>6, <1>7
<1>9. r.book = AfterFills(b, batch, size, s)
      /\ r.fills = {[model |-> m, order |-> o, tick |-> n, size |-> size[o], price |-> batch[o].price,
                     at |-> s.at] : o \in {x \in DOMAIN size : size[x] > 0}}
  BY DEF BookStep, EvaluateBook
<1> HIDE DEF batch, size, r
<1> DEFINE fs == [o \in DOMAIN b.filled |->
                    b.filled[o] + IF o \in DOMAIN size THEN size[o] ELSE 0]
           qs == [o \in {x \in DOMAIN batch : size[x] < batch[x].size} |->
                    IF size[o] = 0 THEN Looked(batch[o], s)
                    ELSE [batch[o] EXCEPT !.size = batch[o].size - size[o], !.streak = 0,
                                          !.last = s.at]]
<1>b. r.book = [quotes |-> qs, filled |-> fs]
  BY <1>9 DEF AfterFills
<1>f. r.book.filled = fs /\ r.book.quotes = qs
  <2> HIDE DEF fs, qs
  <2> QED
    BY <1>b
<1>10. DOMAIN r.book.filled = 1..MaxOrders
       /\ \A o \in 1..MaxOrders :
            r.book.filled[o] = b.filled[o] + (IF o \in DOMAIN size THEN size[o] ELSE 0)
  BY <1>f DEF BookOK
<1> HIDE DEF fs
<1>11. \A o \in 1..MaxOrders : r.book.filled[o] = b.filled[o] + Size(o)
  BY <1>4, <1>5, <1>10
<1>12. \A o \in 1..MaxOrders : r.book.filled[o] \in Nat
  <2> SUFFICES ASSUME NEW o \in 1..MaxOrders PROVE r.book.filled[o] \in Nat
    OBVIOUS
  <2>1. b.filled[o] \in Nat
    BY DEF BookOK
  <2>2. Size(o) \in Nat
    BY <1>3, <1>5, <1>6, <1>8
  <2> QED
    BY <1>11, <2>1, <2>2
<1>13. \A o \in DOMAIN os : r.book.filled[o] <= OrderSize
  BY <1>2, <1>3, <1>8, <1>11
<1>14. DOMAIN r.book.quotes = {x \in DOMAIN batch : size[x] < batch[x].size}
       /\ \A o \in DOMAIN r.book.quotes :
            r.book.quotes[o] = IF size[o] = 0 THEN Looked(batch[o], s)
                               ELSE [batch[o] EXCEPT !.size = batch[o].size - size[o],
                                                     !.streak = 0, !.last = s.at]
  BY <1>f
<1> HIDE DEF qs
<1>15. ASSUME NEW o \in DOMAIN r.book.quotes
       PROVE  /\ "size" \in DOMAIN r.book.quotes[o] /\ "side" \in DOMAIN r.book.quotes[o]
              /\ "price" \in DOMAIN r.book.quotes[o]
              /\ r.book.quotes[o].size = OrderSize - r.book.filled[o]
              /\ r.book.filled[o] < OrderSize
              /\ r.book.quotes[o].side = os[o].side /\ r.book.quotes[o].price = os[o].price
  <2> DEFINE q == batch[o]
             new == r.book.quotes[o]
  <2>1. o \in DOMAIN batch /\ size[o] < q.size /\ o \in DOMAIN os
    BY <1>6, <1>14, <1>15
  <2>2. /\ "size" \in DOMAIN q /\ "side" \in DOMAIN q /\ "price" \in DOMAIN q
        /\ q.size = OrderSize - b.filled[o] /\ q.side = os[o].side /\ q.price = os[o].price
    BY <1>1, <2>1
  <2>3. new = IF size[o] = 0 THEN Looked(q, s)
              ELSE [q EXCEPT !.size = q.size - size[o], !.streak = 0, !.last = s.at]
    BY <1>14, <1>15
  <2>4. /\ size[o] = Size(o) /\ r.book.filled[o] = b.filled[o] + Size(o)
        /\ Size(o) \in Nat /\ b.filled[o] \in Nat
    BY <1>2, <1>4, <1>8, <1>11, <2>1
  <2> HIDE DEF q, new
  <2>5. /\ DOMAIN new = DOMAIN q /\ new.side = q.side /\ new.price = q.price
        /\ new.size = q.size - size[o]
    <3>1. CASE size[o] = 0
      <4>1. new = Looked(q, s)
        BY <2>3, <3>1
      <4>2. DOMAIN new = DOMAIN q /\ new.side = q.side /\ new.price = q.price /\ new.size = q.size
        BY <2>2, <4>1 DEF Looked
      <4>3. q.size \in Int
        BY <1>3, <2>2, <2>4
      <4> QED
        BY <3>1, <4>2, <4>3
    <3>2. CASE size[o] # 0
      BY <2>2, <2>3, <3>2
    <3> QED
      BY <3>1, <3>2
  <2>6. new.size = OrderSize - r.book.filled[o] /\ r.book.filled[o] < OrderSize
    BY <1>3, <2>1, <2>2, <2>4, <2>5
  <2> QED
    BY <2>2, <2>5, <2>6 DEF new
<1>16. BookOK(r.book, os)
  BY <1>6, <1>10, <1>12, <1>13, <1>14, <1>15 DEF BookOK
<1>17. r.fills = {[model |-> m, order |-> o, tick |-> n, size |-> Size(o),
                   price |-> batch[o].price, at |-> s.at] :
                    o \in {x \in DOMAIN os : Size(x) > 0}}
  <2>1. {x \in DOMAIN size : size[x] > 0} = {x \in DOMAIN os : Size(x) > 0}
    BY <1>4, <1>5, <1>6
  <2>2. \A o \in {x \in DOMAIN size : size[x] > 0} : size[o] = Size(o)
    BY <1>4
  <2> DEFINE D == {x \in DOMAIN size : size[x] > 0}
             E == {x \in DOMAIN os : Size(x) > 0}
  <2>3. D = E /\ \A o \in D : size[o] = Size(o)
    BY <2>1, <2>2
  <2>4. r.fills = {[model |-> m, order |-> o, tick |-> n, size |-> size[o], price |-> batch[o].price,
                    at |-> s.at] : o \in D}
    BY <1>9
  <2> HIDE DEF D, E
  <2>5. r.fills = {[model |-> m, order |-> o, tick |-> n, size |-> Size(o), price |-> batch[o].price,
                    at |-> s.at] : o \in E}
    BY <2>3, <2>4
  <2> QED
    BY <2>5 DEF E
<1> QED
  BY <1>2, <1>8, <1>11, <1>16, <1>17 DEF Size, r, batch

\* What a replayed tick does to the book of one model.
WindowOf(os, tick) == tick.open \cap DOMAIN os
SnapOf(tick) == [at |-> tick.at, book |-> tick.book]
MeasureOf(st, tick) == Volatility(Update(st.points, tick.at, tick.book))
StepOf(os, st, tick, calibrated, m) ==
    BookStep(m, calibrated, st.books[m], Batch(st.books[m], WindowOf(os, tick), os), SnapOf(tick),
             tick.seq, MeasureOf(st, tick))
GotOf(os, st, tick, calibrated, m, o) ==
    Got(m, calibrated, st.books[m], WindowOf(os, tick), os, SnapOf(tick), tick.seq,
        MeasureOf(st, tick), o)

LEMMA ReplayTickFields ==
    ASSUME NEW os, NEW st, NEW tick, NEW calibrated
    PROVE  LET r == ReplayTick(os, st, tick, calibrated)
           IN  /\ r.points = Update(st.points, tick.at, tick.book)
               /\ DOMAIN r.books = DOMAIN st.books
               /\ \A m \in DOMAIN st.books : r.books[m] = StepOf(os, st, tick, calibrated, m).book
               /\ r.fills = st.fills
                    \union UNION {StepOf(os, st, tick, calibrated, m).fills : m \in DOMAIN st.books}
<1> DEFINE r == ReplayTick(os, st, tick, calibrated)
           ps == Update(st.points, tick.at, tick.book)
           step == [m \in DOMAIN st.books |-> StepOf(os, st, tick, calibrated, m)]
           bs == [m \in DOMAIN step |-> step[m].book]
           fs == st.fills \union UNION {step[m].fills : m \in DOMAIN step}
           e == Evaluate(st.books, st.points, calibrated, SnapOf(tick), WindowOf(os, tick), os,
                         tick.seq)
<1>1. e = [points |-> ps, step |-> step]
  BY DEF Evaluate, EvaluateOn, StepOf, SnapOf, MeasureOf
<1>2. e.points = ps /\ e.step = step
  <2> HIDE DEF ps, step, e
  <2> QED
    BY <1>1
<1>3. r = [books |-> BooksOfStep(e.step), points |-> e.points, fills |-> st.fills \union FillsOfStep(e.step)]
  BY DEF ReplayTick, WindowOf, SnapOf
<1>4. BooksOfStep(e.step) = bs /\ st.fills \union FillsOfStep(e.step) = fs
  <2> HIDE DEF step, e
  <2> QED
    BY <1>2 DEF BooksOfStep, FillsOfStep
<1>5. r.books = bs /\ r.points = ps /\ r.fills = fs
  <2> HIDE DEF bs, fs, ps, r, e
  <2> QED
    BY <1>2, <1>3, <1>4
<1>6. DOMAIN bs = DOMAIN st.books
      /\ \A m \in DOMAIN st.books : bs[m] = StepOf(os, st, tick, calibrated, m).book
  OBVIOUS
<1>7. fs = st.fills
        \union UNION {StepOf(os, st, tick, calibrated, m).fills : m \in DOMAIN st.books}
  <2>1. \A x : x \in UNION {step[m].fills : m \in DOMAIN step} <=>
               \E m \in DOMAIN st.books : x \in StepOf(os, st, tick, calibrated, m).fills
    OBVIOUS
  <2> HIDE DEF step
  <2>2. \A x : x \in UNION {step[m].fills : m \in DOMAIN step} <=>
          x \in UNION {StepOf(os, st, tick, calibrated, m).fills : m \in DOMAIN st.books}
    BY <2>1
  <2> QED
    BY <2>2
<1> HIDE DEF bs, fs, ps, r
<1> QED
  BY <1>5, <1>6, <1>7 DEF r, ps

\* The book fits the orders, and has one fill for each order that got something.
Counted(os, st, tick, calibrated, m) ==
    LET r == StepOf(os, st, tick, calibrated, m)
        Size(o) == GotOf(os, st, tick, calibrated, m, o)
    IN  /\ BookOK(r.book, os)
        /\ \A o \in DOMAIN os :
             /\ Size(o) \in Nat /\ st.books[m].filled[o] \in Nat
             /\ r.book.filled[o] = st.books[m].filled[o] + Size(o)
             /\ Size(o) <= OrderSize - st.books[m].filled[o]
        /\ \A f \in r.fills : /\ f.model = m /\ f.tick = tick.seq
                              /\ f.order \in DOMAIN os /\ f.size = Size(f.order)
                              /\ f.size > 0
        /\ \A o \in DOMAIN os :
             /\ Size(o) = 0 => ~\E f \in r.fills : f.order = o
             /\ Size(o) > 0 =>
                  \E x : /\ {f \in r.fills : f.order = o} = {x}
                         /\ x.size = Size(o) /\ x.model = m /\ x.order = o
                         /\ x.tick = tick.seq

LEMMA StepOfOK ==
    ASSUME NEW os, OrdersOK(os), NEW st, NEW tick \in TickType, NEW calibrated, NEW m,
           BookOK(st.books[m], os)
    PROVE  Counted(os, st, tick, calibrated, m)
<1> DEFINE b == st.books[m]
           w == WindowOf(os, tick)
           s == SnapOf(tick)
           n == tick.seq
           vol == MeasureOf(st, tick)
           batch == Batch(b, w, os)
           r == StepOf(os, st, tick, calibrated, m)
           Size(o) == GotOf(os, st, tick, calibrated, m, o)
           Rec(o) == [model |-> m, order |-> o, tick |-> n, size |-> Size(o),
                      price |-> batch[o].price, at |-> s.at]
<1>1. w \subseteq DOMAIN os /\ s.book \in Books
  BY DEF WindowOf, SnapOf, TickType
<1>2. r = BookStep(m, calibrated, b, batch, s, n, vol)
      /\ \A o : Size(o) = Got(m, calibrated, b, w, os, s, n, vol, o)
  BY DEF StepOf, GotOf
<1>b. BookOK(b, os)
  OBVIOUS
<1> HIDE DEF b, w, s, n, vol, Size, r
<1>3. /\ BookOK(r.book, os)
      /\ \A o \in DOMAIN os :
           /\ Size(o) \in Nat /\ b.filled[o] \in Nat
           /\ r.book.filled[o] = b.filled[o] + Size(o)
           /\ Size(o) <= OrderSize - b.filled[o]
      /\ r.fills = {Rec(o) : o \in {x \in DOMAIN os : Size(x) > 0}}
  BY <1>1, <1>2, <1>b, BookStepOK
<1>4. \A o : /\ Rec(o).model = m /\ Rec(o).order = o /\ Rec(o).tick = n /\ Rec(o).size = Size(o)
  OBVIOUS
<1> HIDE DEF Rec
<1>5. \A f \in r.fills : /\ f.model = m /\ f.tick = n /\ f.order \in DOMAIN os
                         /\ f.size = Size(f.order) /\ f.size > 0
  BY <1>3, <1>4
<1>6. ASSUME NEW o \in DOMAIN os
      PROVE  /\ Size(o) = 0 => ~\E f \in r.fills : f.order = o
             /\ Size(o) > 0 => \E x : /\ {f \in r.fills : f.order = o} = {x}
                                      /\ x.size = Size(o) /\ x.model = m /\ x.order = o /\ x.tick = n
  <2>1. ASSUME Size(o) = 0 PROVE ~\E f \in r.fills : f.order = o
    BY <1>5, <2>1
  <2>2. ASSUME Size(o) > 0
        PROVE  \E x : /\ {f \in r.fills : f.order = o} = {x}
                      /\ x.size = Size(o) /\ x.model = m /\ x.order = o /\ x.tick = n
    <3>1. Rec(o) \in r.fills
      BY <1>3, <1>6, <2>2
    <3>2. \A f \in r.fills : f.order = o => f = Rec(o)
      BY <1>3, <1>4
    <3>3. {f \in r.fills : f.order = o} = {Rec(o)}
      BY <1>4, <3>1, <3>2
    <3> QED
      BY <1>4, <3>3
  <2> QED
    BY <2>1, <2>2
<1> QED
  BY <1>3, <1>5, <1>6 DEF b, n, r, Size, Counted

-----------------------------------------------------------------------------
(* The fill models are ordered *)

\* The order is open and the other side of a two-sided book has reached its price.
CrossedIn(os, tick, o) ==
    o \in WindowOf(os, tick) /\ TwoSided(tick.book) /\ Crossed(os[o], tick.book)
Depth(os, tick, o) == MaxOf(0, Opposing(os[o], tick.book))

\* What each model makes of a tick.
GotRule(os, st, tick, calibrated, m, o) ==
    LET g == GotOf(os, st, tick, calibrated, m, o)
        left == OrderSize - st.books[m].filled[o]
    IN  /\ m = "full_cross" => g = IF CrossedIn(os, tick, o) THEN left ELSE 0
        /\ m = "partial" =>
             g = IF CrossedIn(os, tick, o) THEN MinOf(left, Depth(os, tick, o)) ELSE 0
        /\ m = "latency_prob" =>
             g = 0 \/ (CrossedIn(os, tick, o) /\ g = MinOf(left, Depth(os, tick, o)))
        /\ m = "calibrated" =>
             /\ CrossedIn(os, tick, o) => g = left
             /\ g \in {0, left}
             /\ ~calibrated /\ ~CrossedIn(os, tick, o) => g = 0

LEMMA GotCases ==
    ASSUME NEW os, OrdersOK(os), NEW st, NEW tick \in TickType, NEW calibrated, NEW m,
           BookOK(st.books[m], os), NEW o \in DOMAIN os
    PROVE  GotRule(os, st, tick, calibrated, m, o)
<1> DEFINE b == st.books[m]
           w == WindowOf(os, tick)
           s == SnapOf(tick)
           vol == MeasureOf(st, tick)
           batch == Batch(b, w, os)
           q == batch[o]
           g == GotOf(os, st, tick, calibrated, m, o)
           left == OrderSize - b.filled[o]
           deep == Depth(os, tick, o)
           see == CrossedIn(os, tick, o)
<1>1. w \subseteq DOMAIN os /\ s.book = tick.book /\ tick.book \in Books
  BY DEF WindowOf, SnapOf, TickType
<1>2. OrderSize \in Nat
  BY SizesAssumption
<1>3. b.filled[o] \in Nat /\ b.filled[o] <= OrderSize
  BY OrderFields DEF BookOK
<1>4. deep \in Nat
  <2>1. Opposing(os[o], tick.book) \in Int
    BY <1>1, SizesAssumption DEF Opposing
  <2> QED
    BY <2>1 DEF Depth, MaxOf
<1>5. left \in Nat
  BY <1>2, <1>3
<1>6. g = IF Quoted(b, w, os, o) THEN DetectFill(m, calibrated, q, s, tick.seq, vol) ELSE 0
  BY DEF GotOf, Got
<1>7. CASE ~Quoted(b, w, os, o)
  <2>1. g = 0
    BY <1>6, <1>7
  <2>2. o \notin w \/ left = 0
    BY <1>2, <1>3, <1>7 DEF Quoted
  <2>3. MinOf(0, deep) = 0
    BY <1>4 DEF MinOf
  <2> HIDE DEF g, left, deep, b
  <2>4. see => left = 0
    BY <2>2 DEF CrossedIn
  <2> HIDE DEF see
  <2>5. /\ m = "full_cross" => g = IF see THEN left ELSE 0
        /\ m = "partial" => g = IF see THEN MinOf(left, deep) ELSE 0
        /\ m = "latency_prob" => g = 0 \/ (see /\ g = MinOf(left, deep))
        /\ m = "calibrated" => (see => g = left) /\ g \in {0, left} /\ (~calibrated /\ ~see => g = 0)
    BY <2>1, <2>3, <2>4
  <2> QED
    BY <2>5 DEF g, left, deep, see, b, GotRule
<1>8. CASE Quoted(b, w, os, o)
  <2>1. o \in DOMAIN batch /\ q.size = left /\ q.side = os[o].side /\ q.price = os[o].price
    <3>1. BookOK(b, os)
      OBVIOUS
    <3> HIDE DEF b, w
    <3> QED
      BY <1>1, <1>8, <3>1, BatchOK
  <2>2. o \in w
    BY <1>8 DEF Quoted
  <2>3. g = DetectFill(m, calibrated, q, s, tick.seq, vol)
    BY <1>6, <1>8
  <2> HIDE DEF b, batch, q, g, left, s, vol
  <2>4. Crossed(q, tick.book) <=> Crossed(os[o], tick.book)
    BY <2>1 DEF Crossed
  <2>5. Opposing(q, tick.book) = Opposing(os[o], tick.book)
    BY <2>1 DEF Opposing
  <2>6. see <=> TwoSided(tick.book) /\ Crossed(q, tick.book)
    BY <2>2, <2>4 DEF CrossedIn, WindowOf
  <2>7. FillSizeForCross(m, q, tick.book)
          = IF m \in {"partial", "latency_prob"} THEN MinOf(left, deep) ELSE left
    BY <2>1, <2>5 DEF FillSizeForCross, Depth
  <2>8. see => g = IF m = "latency_prob" => LatencyMet(q, tick.seq)
                   THEN FillSizeForCross(m, q, tick.book) ELSE 0
    BY <1>1, <2>3, <2>6 DEF DetectFill
  <2>9. ~see => g \in {0, left} /\ (~(m = "calibrated" /\ calibrated) => g = 0)
    BY <1>1, <2>1, <2>3, <2>6 DEF DetectFill
  <2> HIDE DEF see, deep
  <2>10. /\ m = "full_cross" => g = IF see THEN left ELSE 0
         /\ m = "partial" => g = IF see THEN MinOf(left, deep) ELSE 0
         /\ m = "latency_prob" => g = 0 \/ (see /\ g = MinOf(left, deep))
         /\ m = "calibrated" => (see => g = left) /\ g \in {0, left} /\ (~calibrated /\ ~see => g = 0)
    BY <2>7, <2>8, <2>9
  <2> QED
    BY <2>10 DEF g, left, deep, see, b, GotRule
<1> QED
  BY <1>7, <1>8

\* What the four models have filled of an order.
InOrder(l, p, f, c) ==
    /\ l \in Nat /\ p \in Nat /\ l <= p /\ p <= f /\ f <= c
    /\ f \in {0, OrderSize} /\ c \in {0, OrderSize}

LEMMA InOrderStep ==
    ASSUME NEW l, NEW p, NEW f, NEW c, InOrder(l, p, f, c),
           NEW gl, NEW gp, NEW gf, NEW gc, NEW reached \in BOOLEAN, NEW deep \in Nat,
           gf = IF reached THEN OrderSize - f ELSE 0,
           gp = IF reached THEN MinOf(OrderSize - p, deep) ELSE 0,
           gl = 0 \/ (reached /\ gl = MinOf(OrderSize - l, deep)),
           reached => gc = OrderSize - c, gc \in {0, OrderSize - c}
    PROVE  InOrder(l + gl, p + gp, f + gf, c + gc)
<1>1. OrderSize \in Nat \ {0} /\ l \in Nat /\ p \in Nat /\ f \in Nat /\ c \in Nat
      /\ f <= OrderSize /\ c <= OrderSize
  BY SizesAssumption DEF InOrder
<1>2. CASE reached
  BY <1>1, <1>2 DEF InOrder, MinOf
<1>3. CASE ~reached
  BY <1>1, <1>3 DEF InOrder, MinOf
<1> QED
  BY <1>2, <1>3

\* The books of a replay of all models, after some ticks.
BooksInOrder(st, os) ==
    /\ DOMAIN st.books = FillModels
    /\ \A m \in FillModels : BookOK(st.books[m], os)
    /\ \A o \in DOMAIN os :
         InOrder(st.books["latency_prob"].filled[o], st.books["partial"].filled[o],
                 st.books["full_cross"].filled[o], st.books["calibrated"].filled[o])

LEMMA NewBookOK == ASSUME NEW os, OrdersOK(os) PROVE BookOK(EmptyBook, os)
<1> DEFINE qs == << >>
           fs == [o \in 1 .. MaxOrders |-> 0]
<1>1. EmptyBook = [quotes |-> qs, filled |-> fs]
  BY DEF EmptyBook
<1>2. DOMAIN qs = {} /\ DOMAIN fs = 1..MaxOrders /\ \A o \in 1..MaxOrders : fs[o] = 0
  OBVIOUS
<1>3. EmptyBook.quotes = qs /\ EmptyBook.filled = fs
  <2> HIDE DEF qs, fs
  <2> QED
    BY <1>1
<1>4. \A o \in DOMAIN os : o \in 1..MaxOrders
  BY OrderFields
<1>5. OrderSize \in Nat
  BY SizesAssumption
<1> HIDE DEF qs, fs
<1> QED
  BY <1>2, <1>3, <1>4, <1>5 DEF BookOK

LEMMA NewShadowsFields ==
    ASSUME NEW models
    PROVE  /\ NewShadows(models).books = [m \in models |-> EmptyBook]
           /\ NewShadows(models).points = << >> /\ NewShadows(models).fills = {}
<1> DEFINE bs == [m \in models |-> EmptyBook]
<1>1. NewShadows(models) = [books |-> bs, points |-> << >>, fills |-> {}]
  BY DEF NewShadows
<1> HIDE DEF bs
<1>2. NewShadows(models).books = bs /\ NewShadows(models).points = << >>
      /\ NewShadows(models).fills = {}
  BY <1>1
<1> QED
  BY <1>2 DEF bs

LEMMA BooksInOrderStart ==
    ASSUME NEW os, OrdersOK(os) PROVE BooksInOrder(NewShadows(FillModels), os)
<1>1. /\ DOMAIN NewShadows(FillModels).books = FillModels
      /\ \A m \in FillModels : NewShadows(FillModels).books[m] = EmptyBook
  <2> DEFINE bs == NewShadows(FillModels).books
  <2>1. bs = [m \in FillModels |-> EmptyBook]
    BY NewShadowsFields
  <2> HIDE DEF bs
  <2>2. DOMAIN bs = FillModels /\ \A m \in FillModels : bs[m] = EmptyBook
    BY <2>1
  <2> QED
    BY <2>2 DEF bs
<1>2. BookOK(EmptyBook, os)
  BY NewBookOK
<1>3. \A o \in DOMAIN os : EmptyBook.filled[o] = 0
  <2>1. \A o \in DOMAIN os : o \in 1..MaxOrders
    BY OrderFields
  <2> DEFINE fs == [o \in 1 .. MaxOrders |-> 0]
  <2>2. EmptyBook.filled = fs
    <3>1. EmptyBook = [quotes |-> << >>, filled |-> fs]
      BY DEF EmptyBook
    <3> HIDE DEF fs
    <3> QED
      BY <3>1
  <2> QED
    BY <2>1, <2>2
<1>4. {"latency_prob", "partial", "full_cross", "calibrated"} \subseteq FillModels
  BY DEF FillModels
<1>5. InOrder(0, 0, 0, 0)
  BY DEF InOrder
<1> QED
  BY <1>1, <1>2, <1>3, <1>4, <1>5 DEF BooksInOrder

LEMMA BooksInOrderStep ==
    ASSUME NEW os, OrdersOK(os), NEW st, BooksInOrder(st, os), NEW tick \in TickType, NEW calibrated
    PROVE  BooksInOrder(ReplayTick(os, st, tick, calibrated), os)
<1> DEFINE r == ReplayTick(os, st, tick, calibrated)
           G(m, o) == GotOf(os, st, tick, calibrated, m, o)
<1>1. /\ DOMAIN st.books = FillModels
      /\ \A m \in FillModels : BookOK(st.books[m], os)
  BY DEF BooksInOrder
<1>2. /\ DOMAIN r.books = FillModels
      /\ \A m \in FillModels : r.books[m] = StepOf(os, st, tick, calibrated, m).book
  BY <1>1, ReplayTickFields
<1>3. ASSUME NEW m \in FillModels
      PROVE  /\ BookOK(r.books[m], os)
             /\ \A o \in DOMAIN os : r.books[m].filled[o] = st.books[m].filled[o] + G(m, o)
  <2>1. BookOK(st.books[m], os) /\ r.books[m] = StepOf(os, st, tick, calibrated, m).book
    BY <1>1, <1>2
  <2> HIDE DEF r
  <2>2. Counted(os, st, tick, calibrated, m)
    BY <2>1, StepOfOK
  <2> QED
    BY <2>1, <2>2 DEF Counted
<1> HIDE DEF r, G
<1>4. ASSUME NEW o \in DOMAIN os
      PROVE  InOrder(r.books["latency_prob"].filled[o], r.books["partial"].filled[o],
                     r.books["full_cross"].filled[o], r.books["calibrated"].filled[o])
  <2> DEFINE L == "latency_prob"
             P == "partial"
             F == "full_cross"
             C == "calibrated"
             Old(m) == st.books[m].filled[o]
             see == CrossedIn(os, tick, o)
             deep == Depth(os, tick, o)
  <2>1. L \in FillModels /\ P \in FillModels /\ F \in FillModels /\ C \in FillModels
    BY DEF FillModels
  <2>2. InOrder(Old(L), Old(P), Old(F), Old(C))
    BY DEF BooksInOrder
  <2>3. see \in BOOLEAN /\ deep \in Nat
    <3>1. see \in BOOLEAN
      BY DEF CrossedIn, TwoSided, WindowOf, Crossed
    <3>2. tick.book \in Books
      BY DEF TickType
    <3>3. Opposing(os[o], tick.book) \in Int
      BY <3>2, SizesAssumption DEF Opposing
    <3> QED
      BY <3>1, <3>3 DEF Depth, MaxOf
  <2>4. \A m \in FillModels :
          /\ m = F => G(m, o) = IF see THEN OrderSize - Old(m) ELSE 0
          /\ m = P => G(m, o) = IF see THEN MinOf(OrderSize - Old(m), deep) ELSE 0
          /\ m = L => G(m, o) = 0 \/ (see /\ G(m, o) = MinOf(OrderSize - Old(m), deep))
          /\ m = C => /\ see => G(m, o) = OrderSize - Old(m)
                      /\ G(m, o) \in {0, OrderSize - Old(m)}
    <3>1. \A m \in FillModels : GotRule(os, st, tick, calibrated, m, o)
      BY <1>1, GotCases
    <3> QED
      BY <3>1 DEF G, GotRule
  <2>5. /\ r.books[L].filled[o] = Old(L) + G(L, o) /\ r.books[P].filled[o] = Old(P) + G(P, o)
        /\ r.books[F].filled[o] = Old(F) + G(F, o) /\ r.books[C].filled[o] = Old(C) + G(C, o)
    BY <1>3, <2>1
  <2> HIDE DEF Old, see, deep
  <2>6. /\ G(F, o) = IF see THEN OrderSize - Old(F) ELSE 0
        /\ G(P, o) = IF see THEN MinOf(OrderSize - Old(P), deep) ELSE 0
        /\ G(L, o) = 0 \/ (see /\ G(L, o) = MinOf(OrderSize - Old(L), deep))
        /\ see => G(C, o) = OrderSize - Old(C)
        /\ G(C, o) \in {0, OrderSize - Old(C)}
    BY <2>1, <2>4
  <2>7. InOrder(Old(L) + G(L, o), Old(P) + G(P, o), Old(F) + G(F, o), Old(C) + G(C, o))
    <3> DEFINE a == Old(L)
               b == Old(P)
               c == Old(F)
               d == Old(C)
               ga == G(L, o)
               gb == G(P, o)
               gc == G(F, o)
               gd == G(C, o)
    <3>1. /\ InOrder(a, b, c, d) /\ gc = (IF see THEN OrderSize - c ELSE 0)
          /\ gb = (IF see THEN MinOf(OrderSize - b, deep) ELSE 0)
          /\ (ga = 0 \/ (see /\ ga = MinOf(OrderSize - a, deep)))
          /\ (see => gd = OrderSize - d) /\ gd \in {0, OrderSize - d}
      BY <2>2, <2>6
    <3> HIDE DEF a, b, c, d, ga, gb, gc, gd
    <3>2. InOrder(a + ga, b + gb, c + gc, d + gd)
      BY <2>3, <3>1, InOrderStep
    <3> QED
      BY <3>2 DEF a, b, c, d, ga, gb, gc, gd
  <2> QED
    BY <2>5, <2>7
<1> QED
  BY <1>2, <1>3, <1>4 DEF BooksInOrder, r

-----------------------------------------------------------------------------
(* The fills of a replay add up to what its books have filled *)

OwnFills(paper, m, o) == {f \in paper : f.model = m /\ f.order = o}

LEMMA PaperSizeOwn ==
    ASSUME NEW paper, NEW m, NEW o
    PROVE  PaperSize(paper, m, o)
             = SumFunctionOnSet([f \in OwnFills(paper, m, o) |-> f.size], OwnFills(paper, m, o))
BY DEF PaperSize, OwnFills

\* st is a replay whose last tick was numbered n.
Tally(st, os, n) ==
    /\ \A m \in DOMAIN st.books : BookOK(st.books[m], os)
    /\ \A f \in st.fills : f.size \in Nat /\ f.tick \in Nat /\ f.tick <= n
    /\ \A m \in DOMAIN st.books : \A o \in DOMAIN os :
         /\ IsFiniteSet(OwnFills(st.fills, m, o))
         /\ PaperSize(st.fills, m, o) = st.books[m].filled[o]

LEMMA TallyStart ==
    ASSUME NEW os, OrdersOK(os), NEW models
    PROVE  Tally(NewShadows(models), os, 0)
<1> DEFINE st == NewShadows(models)
           bs == st.books
<1>1. bs = [m \in models |-> EmptyBook] /\ st.fills = {}
  BY NewShadowsFields
<1> HIDE DEF bs, st
<1>2. DOMAIN bs = models /\ \A m \in models : bs[m] = EmptyBook
  BY <1>1
<1>3. BookOK(EmptyBook, os)
  BY NewBookOK
<1>4. \A o \in DOMAIN os : EmptyBook.filled[o] = 0
  <2>1. \A o \in DOMAIN os : o \in 1..MaxOrders
    BY OrderFields
  <2> DEFINE fs == [o \in 1 .. MaxOrders |-> 0]
  <2>2. EmptyBook.filled = fs
    <3>1. EmptyBook = [quotes |-> << >>, filled |-> fs]
      BY DEF EmptyBook
    <3> HIDE DEF fs
    <3> QED
      BY <3>1
  <2> QED
    BY <2>1, <2>2
<1>5. ASSUME NEW m, NEW o
      PROVE  IsFiniteSet(OwnFills(st.fills, m, o)) /\ PaperSize(st.fills, m, o) = 0
  <2>1. OwnFills(st.fills, m, o) = {}
    BY <1>1 DEF OwnFills
  <2> QED
    BY <2>1, PaperSizeOwn, SumEmpty, FS_EmptySet
<1>6. Tally(st, os, 0)
  BY <1>1, <1>2, <1>3, <1>4, <1>5 DEF Tally, bs
<1> QED
  BY <1>6 DEF st

LEMMA TallyStep ==
    ASSUME NEW os, OrdersOK(os), NEW st, NEW n \in Nat, Tally(st, os, n), NEW tick \in TickType,
           n < tick.seq, NEW calibrated
    PROVE  Tally(ReplayTick(os, st, tick, calibrated), os, tick.seq)
<1> DEFINE r == ReplayTick(os, st, tick, calibrated)
           S(m) == StepOf(os, st, tick, calibrated, m)
           G(m, o) == GotOf(os, st, tick, calibrated, m, o)
<1>1. /\ DOMAIN r.books = DOMAIN st.books
      /\ \A m \in DOMAIN st.books : r.books[m] = S(m).book
      /\ r.fills = st.fills \union UNION {S(m).fills : m \in DOMAIN st.books}
  BY ReplayTickFields
<1>2. tick.seq \in Nat
  BY DEF TickType
<1>3. ASSUME NEW m \in DOMAIN st.books
      PROVE  /\ BookOK(S(m).book, os)
             /\ \A o \in DOMAIN os :
                  /\ G(m, o) \in Nat /\ st.books[m].filled[o] \in Nat
                  /\ S(m).book.filled[o] = st.books[m].filled[o] + G(m, o)
             /\ \A f \in S(m).fills : f.model = m /\ f.tick = tick.seq /\ f.order \in DOMAIN os
                                      /\ f.size = G(m, f.order)
             /\ \A o \in DOMAIN os :
                  /\ G(m, o) = 0 => ~\E f \in S(m).fills : f.order = o
                  /\ G(m, o) > 0 => \E x : /\ {f \in S(m).fills : f.order = o} = {x}
                                           /\ x.size = G(m, o) /\ x.model = m /\ x.order = o
                                           /\ x.tick = tick.seq
  <2>1. BookOK(st.books[m], os)
    BY DEF Tally
  <2>2. Counted(os, st, tick, calibrated, m)
    BY <2>1, StepOfOK
  <2> QED
    BY <2>2 DEF Counted
<1> HIDE DEF r, S, G
<1>4. \A f \in r.fills : f.size \in Nat /\ f.tick \in Nat /\ f.tick <= tick.seq
  <2> SUFFICES ASSUME NEW f \in r.fills
               PROVE  f.size \in Nat /\ f.tick \in Nat /\ f.tick <= tick.seq
    OBVIOUS
  <2>1. CASE f \in st.fills
    BY <1>2, <2>1 DEF Tally
  <2>2. CASE \E m \in DOMAIN st.books : f \in S(m).fills
    BY <1>2, <1>3, <2>2
  <2> QED
    BY <1>1, <2>1, <2>2
<1>5. ASSUME NEW m \in DOMAIN st.books, NEW o \in DOMAIN os
      PROVE  /\ IsFiniteSet(OwnFills(r.fills, m, o))
             /\ PaperSize(r.fills, m, o) = r.books[m].filled[o]
  <2> DEFINE A == OwnFills(st.fills, m, o)
             B == OwnFills(r.fills, m, o)
             N == {f \in S(m).fills : f.order = o}
             va == [f \in A |-> f.size]
             vb == [f \in B |-> f.size]
  <2>1. IsFiniteSet(A) /\ SumFunctionOnSet(va, A) = st.books[m].filled[o]
    BY PaperSizeOwn DEF Tally
  <2>2. B = A \union N
    <3>1. \A k \in DOMAIN st.books : \A f \in S(k).fills : f.model = k
      BY <1>3
    <3>2. \A f : f \in B <=> f \in A \/ f \in N
      <4> SUFFICES ASSUME NEW f PROVE f \in B <=> f \in A \/ f \in N
        OBVIOUS
      <4>1. f \in r.fills <=> f \in st.fills \/ \E k \in DOMAIN st.books : f \in S(k).fills
        BY <1>1
      <4>2. f \in B => f \in A \/ f \in N
        BY <3>1, <4>1 DEF OwnFills
      <4>3. f \in A => f \in B
        BY <4>1 DEF OwnFills
      <4>4. f \in N => f \in B
        BY <3>1, <4>1 DEF OwnFills
      <4> QED
        BY <4>2, <4>3, <4>4
    <3> QED
      BY <3>2
  <2>3. \A f \in A : f.size \in Int /\ f.tick # tick.seq
    BY <1>2 DEF Tally, OwnFills
  <2>4. r.books[m].filled[o] = st.books[m].filled[o] + G(m, o) /\ G(m, o) \in Nat
        /\ st.books[m].filled[o] \in Nat
    BY <1>1, <1>3
  <2>5. PaperSize(r.fills, m, o) = SumFunctionOnSet(vb, B)
    BY PaperSizeOwn
  <2>6. CASE G(m, o) = 0
    <3>1. N = {}
      BY <1>3, <2>6
    <3>2. B = A
      BY <2>2, <3>1
    <3> QED
      BY <2>1, <2>4, <2>5, <2>6, <3>2
  <2>7. CASE G(m, o) > 0
    <3>1. PICK x : N = {x} /\ x.size = G(m, o) /\ x.tick = tick.seq
      BY <1>3, <2>7
    <3>2. B = A \union {x} /\ x \notin A /\ x \in B
      BY <2>2, <2>3, <3>1
    <3>3. \A y \in A : va[y] = vb[y] /\ va[y] \in Int
      BY <2>3, <3>2
    <3>4. vb[x] = G(m, o) /\ vb[x] \in Int
      BY <2>4, <3>1, <3>2
    <3> HIDE DEF A, B, N, va, vb
    <3>5. SumFunctionOnSet(vb, B) = SumFunctionOnSet(va, A) + vb[x]
      <4>1. OneMore(B, vb, A, va, x)
        BY <2>1, <3>2, <3>3, <3>4 DEF OneMore
      <4> QED
        BY <4>1, SumAdd
    <3>6. IsFiniteSet(B)
      BY <2>1, <3>2, FS_AddElement
    <3>7. SumFunctionOnSet(vb, B) = r.books[m].filled[o]
      BY <2>1, <2>4, <3>2, <3>4, <3>5
    <3> QED
      BY <2>5, <3>6, <3>7 DEF B
  <2> QED
    BY <2>4, <2>6, <2>7
<1>6. \A m \in DOMAIN r.books : BookOK(r.books[m], os)
  BY <1>1, <1>3
<1>7. Tally(r, os, tick.seq)
  BY <1>1, <1>4, <1>5, <1>6 DEF Tally
<1> QED
  BY <1>7 DEF r

\* Over a whole recording.
LastSeq(ts, n) == IF n = 0 THEN 0 ELSE ts[n].seq

LEMMA TickFields ==
    ASSUME NEW ts, TicksOK(ts), NEW n \in 0..Len(ts), n < Len(ts)
    PROVE  /\ ts[n + 1] \in TickType /\ n + 1 \in 1..Len(ts) /\ Len(ts) \in Nat
           /\ LastSeq(ts, n) \in Nat /\ LastSeq(ts, n) < LastSeq(ts, n + 1)
           /\ LastSeq(ts, n + 1) = ts[n + 1].seq
<1>1. Len(ts) \in Nat /\ \A i \in 1..Len(ts) : ts[i] \in TickType
  BY DEF TicksOK
<1>2. n + 1 \in 1..Len(ts) /\ n + 1 # 0
  BY <1>1
<1>3. ts[n + 1].seq \in Nat \ {0}
  BY <1>1, <1>2 DEF TickType
<1>4. CASE n = 0
  BY <1>1, <1>2, <1>3, <1>4 DEF LastSeq, TicksOK
<1>5. CASE n # 0
  <2>1. n \in 1..Len(ts) /\ n < n + 1
    BY <1>1, <1>5
  <2>2. ts[n].seq \in Nat
    BY <1>1, <2>1 DEF TickType
  <2>3. ts[n].seq < ts[n + 1].seq
    BY <1>2, <2>1 DEF TicksOK
  <2> QED
    BY <1>1, <1>2, <1>5, <2>2, <2>3 DEF LastSeq
<1> QED
  BY <1>4, <1>5

LEMMA TicksInSeq == ASSUME NEW ts, TicksOK(ts) PROVE ts \in Seq(TickType) /\ Len(ts) \in Nat
BY DEF TicksOK

\* A replay of any models counts right.
LEMMA TallyAll ==
    ASSUME NEW os, OrdersOK(os), NEW ts, TicksOK(ts), NEW models, NEW calibrated
    PROVE  LET R == ReplayedTicks(os, ts, models, calibrated)
           IN  \A n \in 0..Len(ts) : Tally(R[n], os, LastSeq(ts, n)) /\ DOMAIN R[n].books = models
<1> DEFINE R == ReplayedTicks(os, ts, models, calibrated)
           N == Len(ts)
           Good == {n \in 0..N : Tally(R[n], os, LastSeq(ts, n)) /\ DOMAIN R[n].books = models}
<1>1. ts \in Seq(TickType) /\ N \in Nat
  BY TicksInSeq
<1>2. Replays(R, os, ts, models, calibrated)
  BY <1>1, ReplayRec
<1> HIDE DEF R
<1>3. 0 \in Good
  <2>1. R[0] = NewShadows(models) /\ LastSeq(ts, 0) = 0 /\ 0 \in 0..N
    BY <1>1, <1>2 DEF Replays, LastSeq
  <2> DEFINE bs == R[0].books
  <2>2. bs = [m \in models |-> EmptyBook]
    BY <2>1, NewShadowsFields
  <2> HIDE DEF bs
  <2>3. DOMAIN bs = models
    BY <2>2
  <2> QED
    BY <2>1, <2>3, TallyStart DEF bs
<1>4. ASSUME NEW n \in 0..N, n \in Good, n < N PROVE n + 1 \in Good
  <2>1. /\ ts[n + 1] \in TickType /\ n + 1 \in 1..N
        /\ LastSeq(ts, n) \in Nat /\ LastSeq(ts, n) < LastSeq(ts, n + 1)
        /\ LastSeq(ts, n + 1) = ts[n + 1].seq
    BY <1>4, TickFields
  <2>2. R[n + 1] = ReplayTick(os, R[n], ts[n + 1], calibrated)
    <3>1. R[n + 1] = ReplayTick(os, R[(n + 1) - 1], ts[n + 1], calibrated)
      BY <1>2, <2>1 DEF Replays
    <3>2. (n + 1) - 1 = n
      BY <1>1
    <3> QED
      BY <3>1, <3>2
  <2>3. Tally(R[n], os, LastSeq(ts, n)) /\ DOMAIN R[n].books = models
    BY <1>4
  <2>4. Tally(R[n + 1], os, LastSeq(ts, n + 1))
    BY <2>1, <2>2, <2>3, TallyStep
  <2>5. DOMAIN R[n + 1].books = models
    BY <2>2, <2>3, ReplayTickFields
  <2>6. n + 1 \in 0..N
    BY <1>1, <2>1
  <2> QED
    BY <2>4, <2>5, <2>6
<1>5. 0..N \subseteq Good
  <2> HIDE DEF Good, N
  <2>1. 0 \in Int /\ N \in Int
    BY <1>1
  <2> QED
    BY <1>3, <1>4, <2>1, UpTo
<1> QED
  BY <1>5 DEF R

IsOff(flag) == ~flag

LEMMA FilledAfter ==
    ASSUME NEW os, OrdersOK(os), NEW st, NEW tick \in TickType, NEW calibrated, NEW m,
           BookOK(st.books[m], os), NEW o \in DOMAIN os
    PROVE  StepOf(os, st, tick, calibrated, m).book.filled[o]
             = st.books[m].filled[o] + GotOf(os, st, tick, calibrated, m, o)
<1>1. Counted(os, st, tick, calibrated, m)
  BY StepOfOK
<1> QED
  BY <1>1 DEF Counted

\* After n ticks, the replay of all models against that of the calibrated one without a file.
SideBySide(st, plain, os) ==
    /\ BooksInOrder(st, os)
    /\ \A o \in DOMAIN os : plain.books["calibrated"].filled[o] = st.books["full_cross"].filled[o]

LEMMA SideBySideStart ==
    ASSUME NEW os, OrdersOK(os)
    PROVE  SideBySide(NewShadows(FillModels), NewShadows({"calibrated"}), os)
<1> DEFINE C == {"calibrated"}
           bs == NewShadows(FillModels).books
           ps == NewShadows(C).books
<1>1. bs = [m \in FillModels |-> EmptyBook] /\ ps = [m \in C |-> EmptyBook]
  BY NewShadowsFields
<1>2. "full_cross" \in FillModels /\ "calibrated" \in C
  BY DEF FillModels
<1> HIDE DEF bs, ps, C
<1>3. bs["full_cross"] = ps["calibrated"]
  BY <1>1, <1>2
<1> QED
  BY <1>3, BooksInOrderStart DEF SideBySide, bs, ps, C

LEMMA SideBySideStep ==
    ASSUME NEW os, OrdersOK(os), NEW st, NEW plain, SideBySide(st, plain, os),
           DOMAIN plain.books = {"calibrated"}, BookOK(plain.books["calibrated"], os),
           NEW tick \in TickType, NEW calibrated, NEW off, IsOff(off)
    PROVE  SideBySide(ReplayTick(os, st, tick, calibrated), ReplayTick(os, plain, tick, off), os)
<1> DEFINE r == ReplayTick(os, st, tick, calibrated)
           p == ReplayTick(os, plain, tick, off)
           F == "full_cross"
           C == "calibrated"
<1>1. BooksInOrder(r, os) /\ BooksInOrder(st, os)
  BY BooksInOrderStep DEF SideBySide
<1>2. F \in DOMAIN st.books /\ BookOK(st.books[F], os)
  <2>1. F \in FillModels
    BY DEF FillModels
  <2> QED
    BY <1>1, <2>1 DEF BooksInOrder
<1>3. r.books[F] = StepOf(os, st, tick, calibrated, F).book
  BY <1>2, ReplayTickFields
<1>4. p.books[C] = StepOf(os, plain, tick, off, C).book
  BY ReplayTickFields
<1> HIDE DEF r, p
<1>5. ASSUME NEW o \in DOMAIN os PROVE p.books[C].filled[o] = r.books[F].filled[o]
  <2> DEFINE x == st.books[F].filled[o]
             g == GotOf(os, st, tick, calibrated, F, o)
             h == GotOf(os, plain, tick, off, C, o)
  <2>1. x = plain.books[C].filled[o]
    BY DEF SideBySide
  <2>2. r.books[F].filled[o] = x + g
    BY <1>2, <1>3, FilledAfter
  <2>3. p.books[C].filled[o] = plain.books[C].filled[o] + h
    BY <1>4, FilledAfter
  <2>4. GotRule(os, st, tick, calibrated, F, o)
    BY <1>2, GotCases
  <2>5. GotRule(os, plain, tick, off, C, o)
    BY GotCases
  <2>6. g = IF CrossedIn(os, tick, o) THEN OrderSize - x ELSE 0
    BY <2>4 DEF GotRule
  <2>7. h = IF CrossedIn(os, tick, o) THEN OrderSize - x ELSE 0
    BY <2>1, <2>5 DEF GotRule, IsOff
  <2> HIDE DEF x, g, h
  <2> QED
    BY <2>1, <2>2, <2>3, <2>6, <2>7
<1> QED
  BY <1>1, <1>5 DEF SideBySide, r, p

LEMMA SideBySideAll ==
    ASSUME NEW os, OrdersOK(os), NEW ts, TicksOK(ts), NEW calibrated, NEW off, IsOff(off),
           NEW only, only = {"calibrated"}
    PROVE  SideBySide(ReplayedTicks(os, ts, FillModels, calibrated)[Len(ts)],
                      ReplayedTicks(os, ts, only, off)[Len(ts)], os)
<1> DEFINE R == ReplayedTicks(os, ts, FillModels, calibrated)
           P == ReplayedTicks(os, ts, only, off)
           N == Len(ts)
           Good == {n \in 0..N : SideBySide(R[n], P[n], os)}
<1>1. ts \in Seq(TickType) /\ N \in Nat
  BY TicksInSeq
<1>2. Replays(R, os, ts, FillModels, calibrated) /\ Replays(P, os, ts, only, off)
  BY <1>1, ReplayRec
<1>t. \A n \in 0..N : Tally(P[n], os, LastSeq(ts, n)) /\ DOMAIN P[n].books = only
  BY TallyAll
<1> HIDE DEF R, P
<1>3. 0 \in Good
  <2>1. R[0] = NewShadows(FillModels) /\ P[0] = NewShadows(only) /\ 0 \in 0..N
    BY <1>1, <1>2 DEF Replays
  <2> QED
    BY <2>1, SideBySideStart
<1>4. ASSUME NEW n \in 0..N, n \in Good, n < N PROVE n + 1 \in Good
  <2>1. ts[n + 1] \in TickType /\ n + 1 \in 1..N
    BY <1>4, TickFields
  <2>2. /\ R[n + 1] = ReplayTick(os, R[n], ts[n + 1], calibrated)
        /\ P[n + 1] = ReplayTick(os, P[n], ts[n + 1], off)
    <3>1. /\ R[n + 1] = ReplayTick(os, R[(n + 1) - 1], ts[n + 1], calibrated)
          /\ P[n + 1] = ReplayTick(os, P[(n + 1) - 1], ts[n + 1], off)
      BY <1>2, <2>1 DEF Replays
    <3>2. (n + 1) - 1 = n
      BY <1>1
    <3> QED
      BY <3>1, <3>2
  <2>3. SideBySide(R[n], P[n], os)
    BY <1>4
  <2>4. DOMAIN P[n].books = only /\ BookOK(P[n].books["calibrated"], os)
    BY <1>t DEF Tally
  <2>5. SideBySide(R[n + 1], P[n + 1], os)
    BY <2>1, <2>2, <2>3, <2>4, SideBySideStep
  <2>6. n + 1 \in 0..N
    BY <1>1, <2>1
  <2> QED
    BY <2>5, <2>6
<1>5. 0..N \subseteq Good
  <2> HIDE DEF Good, N
  <2>1. 0 \in Int /\ N \in Int
    BY <1>1
  <2> QED
    BY <1>3, <1>4, <2>1, UpTo
<1>6. N \in 0..N
  BY <1>1
<1> QED
  BY <1>5, <1>6 DEF R, P

-----------------------------------------------------------------------------
(* A replay without the orders that have no row *)

Only(os, D) == [o \in D |-> os[o]]

\* x is what y says of the orders in D.
Within(x, y, D) == DOMAIN x = D \cap DOMAIN y /\ \A o \in D \cap DOMAIN y : x[o] = y[o]

PartOf(a, b, D) ==
    /\ Within(a.quotes, b.quotes, D)
    /\ DOMAIN a.filled = 1..MaxOrders /\ DOMAIN b.filled = 1..MaxOrders
    /\ D \subseteq 1..MaxOrders /\ \A o \in D : a.filled[o] = b.filled[o]

Part(p, st, D) ==
    /\ DOMAIN p.books = DOMAIN st.books /\ p.points = st.points
    /\ \A m \in DOMAIN st.books : PartOf(p.books[m], st.books[m], D)
    /\ \A f : f \in p.fills <=> f \in st.fills /\ f.order \in D

LEMMA PartBatch ==
    ASSUME NEW os, NEW D, NEW a, NEW b, PartOf(a, b, D), NEW w
    PROVE  Within(Batch(a, w \cap D, Only(os, D)), Batch(b, w, os), D)
<1> DEFINE S(c, v, ps) == {x \in v : x \in DOMAIN c.quotes \/ Remaining(c, x, ps[x]) > 0}
           Q(c, ps, o) == IF o \in DOMAIN c.quotes THEN c.quotes[o]
                          ELSE OpenQuote(o, ps[o], Remaining(c, o, ps[o]))
           x == Batch(a, w \cap D, Only(os, D))
           y == Batch(b, w, os)
<1>1. x = [o \in S(a, w \cap D, Only(os, D)) |-> Q(a, Only(os, D), o)]
      /\ y = [o \in S(b, w, os) |-> Q(b, os, o)]
  BY DEF Batch
<1>2. \A o \in D : /\ Only(os, D)[o] = os[o] /\ a.filled[o] = b.filled[o]
                   /\ o \in DOMAIN a.quotes <=> o \in DOMAIN b.quotes
                   /\ o \in DOMAIN b.quotes => a.quotes[o] = b.quotes[o]
  BY DEF Only, PartOf, Within
<1>3. \A o \in D : Remaining(a, o, Only(os, D)[o]) = Remaining(b, o, os[o])
  BY <1>2 DEF Remaining
<1>4. S(a, w \cap D, Only(os, D)) = D \cap S(b, w, os)
  BY <1>2, <1>3
<1>5. \A o \in D : Q(a, Only(os, D), o) = Q(b, os, o)
  BY <1>2, <1>3
<1> HIDE DEF S, Q, x, y
<1> QED
  BY <1>1, <1>4, <1>5 DEF Within, x, y

LEMMA PartBook ==
    ASSUME NEW D, NEW a, NEW b, PartOf(a, b, D), NEW x, NEW y, Within(x, y, D),
           NEW m, NEW calibrated, NEW s, NEW n, NEW volatility
    PROVE  LET r == BookStep(m, calibrated, a, x, s, n, volatility)
               q == BookStep(m, calibrated, b, y, s, n, volatility)
           IN  PartOf(r.book, q.book, D) /\ \A f : f \in r.fills <=> f \in q.fills /\ f.order \in D
<1> DEFINE Sizes(c) == FillsOfBatch(m, calibrated, c, s, n, volatility)
           T(c, z) == {o \in DOMAIN c : z[o] < c[o].size}
           K(c, z, o) == IF z[o] = 0 THEN Looked(c[o], s)
                         ELSE [c[o] EXCEPT !.size = @ - z[o], !.streak = 0, !.last = s.at]
           G(c, z, d) == [o \in DOMAIN d.filled |-> d.filled[o] + IF o \in DOMAIN z THEN z[o] ELSE 0]
           H(c, z) == [o \in T(c, z) |-> K(c, z, o)]
           Rec(c, z, o) == [model |-> m, order |-> o, tick |-> n, size |-> z[o], price |-> c[o].price,
                            at |-> s.at]
           F(c, z) == {Rec(c, z, o) : o \in {k \in DOMAIN z : z[k] > 0}}
           r == BookStep(m, calibrated, a, x, s, n, volatility)
           q == BookStep(m, calibrated, b, y, s, n, volatility)
           u == Sizes(x)
           v == Sizes(y)
<1>1. /\ DOMAIN x = D \cap DOMAIN y /\ \A o \in D \cap DOMAIN y : x[o] = y[o]
      /\ DOMAIN u = DOMAIN x /\ DOMAIN v = DOMAIN y
      /\ \A o \in DOMAIN x : u[o] = DetectFill(m, calibrated, x[o], s, n, volatility)
      /\ \A o \in DOMAIN y : v[o] = DetectFill(m, calibrated, y[o], s, n, volatility)
  BY DEF Within, FillsOfBatch
<1>2. r = [book |-> [quotes |-> H(x, u), filled |-> G(x, u, a)], fills |-> F(x, u)]
      /\ q = [book |-> [quotes |-> H(y, v), filled |-> G(y, v, b)], fills |-> F(y, v)]
  BY DEF BookStep, EvaluateBook, AfterFills
<1> HIDE DEF u, v, r, q
<1>3. \A o \in D \cap DOMAIN y : u[o] = v[o]
  BY <1>1
<1>4. Within(H(x, u), H(y, v), D)
  <2>1. T(x, u) = D \cap T(y, v)
    BY <1>1, <1>3
  <2>2. T(y, v) \subseteq DOMAIN y
    OBVIOUS
  <2>3. \A o \in D \cap DOMAIN y : K(x, u, o) = K(y, v, o)
    BY <1>1, <1>3
  <2> HIDE DEF T, K
  <2> QED
    BY <2>1, <2>2, <2>3 DEF Within
<1>5. /\ DOMAIN G(x, u, a) = 1..MaxOrders /\ DOMAIN G(y, v, b) = 1..MaxOrders
      /\ D \subseteq 1..MaxOrders /\ \A o \in D : G(x, u, a)[o] = G(y, v, b)[o]
  <2>1. /\ DOMAIN a.filled = 1..MaxOrders /\ DOMAIN b.filled = 1..MaxOrders /\ D \subseteq 1..MaxOrders
        /\ \A o \in D : a.filled[o] = b.filled[o]
    BY DEF PartOf
  <2>2. \A o \in D : o \in DOMAIN u <=> o \in DOMAIN v
    BY <1>1
  <2> QED
    BY <1>1, <1>3, <2>1, <2>2
<1>6. \A f : f \in F(x, u) <=> f \in F(y, v) /\ f.order \in D
  <2>1. \A o \in D \cap DOMAIN y : Rec(x, u, o) = Rec(y, v, o)
    BY <1>1, <1>3
  <2>2. \A o : Rec(x, u, o).order = o /\ Rec(y, v, o).order = o
    OBVIOUS
  <2> HIDE DEF Rec
  <2>3. \A f : f \in F(x, u) <=> \E o \in DOMAIN x : u[o] > 0 /\ f = Rec(x, u, o)
    BY <1>1
  <2>4. \A f : f \in F(y, v) <=> \E o \in DOMAIN y : v[o] > 0 /\ f = Rec(y, v, o)
    BY <1>1
  <2> HIDE DEF F
  <2> QED
    BY <1>1, <1>3, <2>1, <2>2, <2>3, <2>4
<1> HIDE DEF F, G, H
<1>7. r.book.quotes = H(x, u) /\ r.book.filled = G(x, u, a) /\ r.fills = F(x, u)
      /\ q.book.quotes = H(y, v) /\ q.book.filled = G(y, v, b) /\ q.fills = F(y, v)
  BY <1>2
<1>8. PartOf(r.book, q.book, D) /\ \A f : f \in r.fills <=> f \in q.fills /\ f.order \in D
  BY <1>4, <1>5, <1>6, <1>7 DEF PartOf
<1> QED
  BY <1>8 DEF r, q

LEMMA PartStep ==
    ASSUME NEW os, NEW D, D \subseteq DOMAIN os, NEW p, NEW st, Part(p, st, D), NEW tick,
           NEW calibrated
    PROVE  Part(ReplayTick(Only(os, D), p, tick, calibrated), ReplayTick(os, st, tick, calibrated), D)
<1> DEFINE few == Only(os, D)
           a == ReplayTick(few, p, tick, calibrated)
           r == ReplayTick(os, st, tick, calibrated)
           A(m) == StepOf(few, p, tick, calibrated, m)
           S(m) == StepOf(os, st, tick, calibrated, m)
<1>0. /\ DOMAIN p.books = DOMAIN st.books /\ p.points = st.points
      /\ \A m \in DOMAIN st.books : PartOf(p.books[m], st.books[m], D)
      /\ \A f : f \in p.fills <=> f \in st.fills /\ f.order \in D
  BY DEF Part
<1>1. WindowOf(few, tick) = WindowOf(os, tick) \cap D
  BY DEF WindowOf, Only
<1>2. MeasureOf(p, tick) = MeasureOf(st, tick)
  BY <1>0 DEF MeasureOf
<1>3. ASSUME NEW m \in DOMAIN st.books
      PROVE  PartOf(A(m).book, S(m).book, D)
             /\ \A f : f \in A(m).fills <=> f \in S(m).fills /\ f.order \in D
  <2> DEFINE x == Batch(p.books[m], WindowOf(os, tick) \cap D, few)
             y == Batch(st.books[m], WindowOf(os, tick), os)
             s == SnapOf(tick)
             vol == MeasureOf(st, tick)
  <2>1. PartOf(p.books[m], st.books[m], D)
    BY <1>0
  <2>2. Within(x, y, D)
    BY <2>1, PartBatch
  <2>3. A(m) = BookStep(m, calibrated, p.books[m], x, s, tick.seq, vol)
        /\ S(m) = BookStep(m, calibrated, st.books[m], y, s, tick.seq, vol)
    BY <1>1, <1>2 DEF StepOf
  <2> HIDE DEF x, y, s, vol, A, S
  <2> QED
    BY <2>1, <2>2, <2>3, PartBook
<1>4. /\ a.points = Update(p.points, tick.at, tick.book) /\ DOMAIN a.books = DOMAIN p.books
      /\ \A m \in DOMAIN p.books : a.books[m] = A(m).book
      /\ a.fills = p.fills \union UNION {A(m).fills : m \in DOMAIN p.books}
  BY ReplayTickFields
<1>5. /\ r.points = Update(st.points, tick.at, tick.book) /\ DOMAIN r.books = DOMAIN st.books
      /\ \A m \in DOMAIN st.books : r.books[m] = S(m).book
      /\ r.fills = st.fills \union UNION {S(m).fills : m \in DOMAIN st.books}
  BY ReplayTickFields
<1> HIDE DEF few, a, r, A, S
<1>6. \A f : f \in a.fills <=> f \in r.fills /\ f.order \in D
  <2>1. \A f : f \in a.fills <=> f \in p.fills \/ \E m \in DOMAIN st.books : f \in A(m).fills
    BY <1>0, <1>4
  <2>2. \A f : f \in r.fills <=> f \in st.fills \/ \E m \in DOMAIN st.books : f \in S(m).fills
    BY <1>5
  <2> QED
    BY <1>0, <1>3, <2>1, <2>2
<1>7. Part(a, r, D)
  BY <1>0, <1>3, <1>4, <1>5, <1>6 DEF Part
<1> QED
  BY <1>7 DEF a, r, few

LEMMA PartStart ==
    ASSUME NEW D, D \subseteq 1..MaxOrders, NEW models
    PROVE  Part(NewShadows(models), NewShadows(models), D)
<1> DEFINE bs == NewShadows(models).books
<1>1. bs = [m \in models |-> EmptyBook] /\ NewShadows(models).fills = {}
  BY NewShadowsFields
<1>2. EmptyBook.quotes = << >> /\ EmptyBook.filled = [o \in 1..MaxOrders |-> 0]
  BY DEF EmptyBook
<1>3. DOMAIN EmptyBook.quotes = {} /\ DOMAIN EmptyBook.filled = 1..MaxOrders
  BY <1>2
<1>4. PartOf(EmptyBook, EmptyBook, D)
  BY <1>3 DEF PartOf, Within
<1>5. \A m \in DOMAIN bs : bs[m] = EmptyBook
  <2> HIDE DEF bs
  <2> QED
    BY <1>1
<1> QED
  BY <1>1, <1>4, <1>5 DEF Part

\* A replay of some of the orders makes the fills of those orders.
LEMMA PartAll ==
    ASSUME NEW os, OrdersOK(os), NEW ts \in Seq(TickType), NEW D, D \subseteq DOMAIN os,
           NEW models, NEW calibrated
    PROVE  Part(ReplayedTicks(Only(os, D), ts, models, calibrated)[Len(ts)],
                ReplayedTicks(os, ts, models, calibrated)[Len(ts)], D)
<1> DEFINE few == Only(os, D)
           P == ReplayedTicks(few, ts, models, calibrated)
           R == ReplayedTicks(os, ts, models, calibrated)
           N == Len(ts)
           Good == {n \in 0..N : Part(P[n], R[n], D)}
<1>1. N \in Nat
  OBVIOUS
<1>2. Replays(P, few, ts, models, calibrated) /\ Replays(R, os, ts, models, calibrated)
  BY ReplayRec
<1>d. D \subseteq 1..MaxOrders
  BY OrderFields
<1> HIDE DEF P, R, few
<1>3. 0 \in Good
  BY <1>1, <1>2, <1>d, PartStart DEF Replays
<1>4. ASSUME NEW n \in 0..N, n \in Good, n < N PROVE n + 1 \in Good
  <2>1. n + 1 \in 1..N /\ (n + 1) - 1 = n /\ n + 1 \in 0..N
    BY <1>1, <1>4
  <2>2. P[n + 1] = ReplayTick(few, P[n], ts[n + 1], calibrated)
        /\ R[n + 1] = ReplayTick(os, R[n], ts[n + 1], calibrated)
    <3>1. P[n + 1] = ReplayTick(few, P[(n + 1) - 1], ts[n + 1], calibrated)
          /\ R[n + 1] = ReplayTick(os, R[(n + 1) - 1], ts[n + 1], calibrated)
      BY <1>2, <2>1 DEF Replays
    <3> QED
      BY <2>1, <3>1
  <2>3. Part(P[n + 1], R[n + 1], D)
    BY <1>4, <2>2, PartStep DEF few
  <2> QED
    BY <2>1, <2>3
<1>5. 0..N \subseteq Good
  <2> HIDE DEF Good, N
  <2>1. 0 \in Int /\ N \in Int
    BY <1>1
  <2> QED
    BY <1>3, <1>4, <2>1, UpTo
<1>6. N \in 0..N
  BY <1>1
<1> QED
  BY <1>5, <1>6 DEF P, R, few

\* What the recording replays.
LEMMA ReplayOfRows ==
    ASSUME OrdersOK(orders), ticks \in Seq(TickType), rows \subseteq DOMAIN orders, NEW models,
           NEW calibrated
    PROVE  \A f : f \in ReplayShadows(models, calibrated) <=>
             /\ f \in ReplayedTicks(orders, ticks, models, calibrated)[Len(ticks)].fills
             /\ f.order \in rows
<1>1. SavedOrders = Only(orders, rows)
  BY DEF SavedOrders, Only
<1>2. Part(ReplayedTicks(Only(orders, rows), ticks, models, calibrated)[Len(ticks)],
           ReplayedTicks(orders, ticks, models, calibrated)[Len(ticks)], rows)
  BY PartAll
<1> QED
  BY <1>1, <1>2 DEF ReplayShadows, Part

LEMMA SizesOfRows ==
    ASSUME OrdersOK(orders), ticks \in Seq(TickType), rows \subseteq DOMAIN orders, NEW models,
           NEW calibrated, NEW m, NEW o
    PROVE  LET full == ReplayedTicks(orders, ticks, models, calibrated)[Len(ticks)].fills
           IN  PaperSize(ReplayShadows(models, calibrated), m, o)
                 = IF o \in rows THEN PaperSize(full, m, o) ELSE 0
<1> DEFINE full == ReplayedTicks(orders, ticks, models, calibrated)[Len(ticks)].fills
           paper == ReplayShadows(models, calibrated)
<1>1. \A f : f \in paper <=> f \in full /\ f.order \in rows
  BY ReplayOfRows
<1> HIDE DEF full, paper
<1>2. OwnFills(paper, m, o) = IF o \in rows THEN OwnFills(full, m, o) ELSE {}
  BY <1>1 DEF OwnFills
<1>3. PaperSize(paper, m, o)
        = SumFunctionOnSet([f \in OwnFills(paper, m, o) |-> f.size], OwnFills(paper, m, o))
  BY PaperSizeOwn
<1>4. CASE o \in rows
  <2>1. OwnFills(paper, m, o) = OwnFills(full, m, o)
    BY <1>2, <1>4
  <2>2. PaperSize(full, m, o)
          = SumFunctionOnSet([f \in OwnFills(full, m, o) |-> f.size], OwnFills(full, m, o))
    BY PaperSizeOwn
  <2>3. PaperSize(paper, m, o) = PaperSize(full, m, o)
    BY <1>3, <2>1, <2>2
  <2> QED
    BY <1>4, <2>3 DEF paper, full
<1>5. CASE o \notin rows
  <2>1. OwnFills(paper, m, o) = {}
    BY <1>2, <1>5
  <2>2. PaperSize(paper, m, o) = SumFunctionOnSet([f \in {} |-> f.size], {})
    BY <1>3, <2>1
  <2>3. PaperSize(paper, m, o) = 0
    BY <2>2, SumEmpty
  <2> QED
    BY <1>5, <2>3 DEF paper, full
<1> QED
  BY <1>4, <1>5

\* Whatever was recorded, the models are ordered.
LEMMA OrderedInState ==
    ASSUME OrdersOK(orders), TicksOK(ticks), rows \subseteq DOMAIN orders
    PROVE  ModelsAreOrdered
<1> DEFINE off == FALSE
           only == {"calibrated"}
           R == ReplayedTicks(orders, ticks, FillModels, Calibrated)[Len(ticks)]
           P == ReplayedTicks(orders, ticks, only, off)[Len(ticks)]
           paper == ReplayShadows(FillModels, Calibrated)
           plain == ReplayShadows(only, off)
           Paper(m, o) == PaperSize(paper, m, o)
           Plain(o) == PaperSize(plain, "calibrated", o)
<1>0. IsOff(off) /\ only = {"calibrated"}
  BY DEF IsOff
<1> HIDE DEF off, only
<1>1. SideBySide(R, P, orders)
  BY <1>0, SideBySideAll
<1>2. Len(ticks) \in 0..Len(ticks)
  BY TicksInSeq
<1>3. /\ Tally(R, orders, LastSeq(ticks, Len(ticks))) /\ DOMAIN R.books = FillModels
      /\ Tally(P, orders, LastSeq(ticks, Len(ticks))) /\ DOMAIN P.books = only
  BY <1>2, TallyAll
<1>s. /\ \A m, o : Paper(m, o) = IF o \in rows THEN PaperSize(R.fills, m, o) ELSE 0
      /\ \A o : Plain(o) = IF o \in rows THEN PaperSize(P.fills, "calibrated", o) ELSE 0
  <2>1. ticks \in Seq(TickType)
    BY TicksInSeq
  <2> QED
    BY <2>1, SizesOfRows
<1> HIDE DEF R, P
<1>4. /\ \A m \in FillModels : \A o \in DOMAIN orders : PaperSize(R.fills, m, o) = R.books[m].filled[o]
      /\ \A o \in DOMAIN orders : PaperSize(P.fills, "calibrated", o) = P.books["calibrated"].filled[o]
  BY <1>0, <1>3 DEF Tally
<1> HIDE DEF Paper, Plain, paper, plain
<1>5. ASSUME NEW o \in DOMAIN orders
      PROVE  /\ InOrder(Paper("latency_prob", o), Paper("partial", o), Paper("full_cross", o),
                        Paper("calibrated", o))
             /\ Plain(o) = Paper("full_cross", o)
             /\ orders[o].size = OrderSize
  <2>1. {"latency_prob", "partial", "full_cross", "calibrated"} \subseteq FillModels
    BY DEF FillModels
  <2>2. InOrder(R.books["latency_prob"].filled[o], R.books["partial"].filled[o],
                R.books["full_cross"].filled[o], R.books["calibrated"].filled[o])
        /\ P.books["calibrated"].filled[o] = R.books["full_cross"].filled[o]
    BY <1>1 DEF SideBySide, BooksInOrder
  <2>3. orders[o].size = OrderSize
    BY OrderFields
  <2>4. CASE o \in rows
    BY <1>s, <1>4, <2>1, <2>2, <2>3, <2>4
  <2>5. CASE o \notin rows
    <3>1. /\ Paper("latency_prob", o) = 0 /\ Paper("partial", o) = 0 /\ Paper("full_cross", o) = 0
          /\ Paper("calibrated", o) = 0 /\ Plain(o) = 0
      BY <1>s, <2>5
    <3>2. InOrder(0, 0, 0, 0)
      BY SizesAssumption DEF InOrder
    <3> QED
      BY <2>3, <3>1, <3>2
  <2> QED
    BY <2>4, <2>5
<1>6. ASSUME NEW o \in DOMAIN orders
      PROVE  /\ Paper("latency_prob", o) <= Paper("partial", o)
             /\ Paper("partial", o) <= Paper("full_cross", o)
             /\ Paper("full_cross", o) <= Paper("calibrated", o)
             /\ Paper("calibrated", o) <= orders[o].size
             /\ Plain(o) = Paper("full_cross", o)
             /\ Paper("partial", o) \in Nat /\ Paper("calibrated", o) \in Nat
             /\ Paper("calibrated", o) = 0 => Paper("partial", o) = 0
  <2>1. OrderSize \in Nat
    BY SizesAssumption
  <2> QED
    BY <1>5, <2>1 DEF InOrder
<1>7. ASSUME NEW o \in DOMAIN orders, OutcomeOf(paper, "calibrated", o) = "real_only"
      PROVE  OutcomeOf(paper, "partial", o) = "real_only"
  <2> DEFINE c == Paper("calibrated", o)
             p == Paper("partial", o)
             x == RealSize(o)
  <2>1. OutcomeOf(paper, "calibrated", o)
          = CASE c > 0 /\ x > 0 -> "matched" [] c > 0 /\ x = 0 -> "paper_only"
              [] c = 0 /\ x > 0 -> "real_only" [] OTHER -> "neither"
    BY DEF OutcomeOf, Paper
  <2>2. OutcomeOf(paper, "partial", o)
          = CASE p > 0 /\ x > 0 -> "matched" [] p > 0 /\ x = 0 -> "paper_only"
              [] p = 0 /\ x > 0 -> "real_only" [] OTHER -> "neither"
    BY DEF OutcomeOf, Paper
  <2>3. c \in Nat /\ p \in Nat /\ (c = 0 => p = 0)
    BY <1>6
  <2> HIDE DEF c, p, x
  <2> QED
    BY <1>7, <2>1, <2>2, <2>3
<1>8. ReplayShadows(FillModels, Calibrated) = paper /\ ReplayShadows({"calibrated"}, FALSE) = plain
  BY DEF paper, plain, off, only
<1> QED
  BY <1>6, <1>7, <1>8 DEF ModelsAreOrdered, Paper, Plain

-----------------------------------------------------------------------------
(* What a replay depends on *)

\* The orders of os are in more, with what a quote is opened from.
Keeps(os, more) ==
    /\ DOMAIN os \subseteq DOMAIN more
    /\ \A o \in DOMAIN os : /\ more[o].side = os[o].side /\ more[o].price = os[o].price
                            /\ more[o].size = os[o].size /\ more[o].acked = os[o].acked

LEMMA SameBatch ==
    ASSUME NEW os, NEW more, Keeps(os, more), NEW window, window \subseteq DOMAIN os, NEW b
    PROVE  Batch(b, window, more) = Batch(b, window, os)
<1> DEFINE D(ps) == {x \in window : x \in DOMAIN b.quotes \/ Remaining(b, x, ps[x]) > 0}
           Q(ps, o) == IF o \in DOMAIN b.quotes THEN b.quotes[o]
                       ELSE OpenQuote(o, ps[o], Remaining(b, o, ps[o]))
<1>1. \A o \in window : Remaining(b, o, more[o]) = Remaining(b, o, os[o])
  BY DEF Keeps, Remaining
<1>2. \A o \in window : Q(more, o) = Q(os, o)
  BY <1>1 DEF Keeps, OpenQuote
<1>3. D(more) = D(os)
  BY <1>1
<1>4. Batch(b, window, more) = [o \in D(more) |-> Q(more, o)]
      /\ Batch(b, window, os) = [o \in D(os) |-> Q(os, o)]
  BY DEF Batch
<1>5. D(os) \subseteq window
  OBVIOUS
<1> HIDE DEF D, Q
<1> QED
  BY <1>2, <1>3, <1>4, <1>5

LEMMA SameTick ==
    ASSUME NEW os, NEW more, Keeps(os, more), NEW tick, tick.open \subseteq DOMAIN os,
           NEW st, NEW calibrated
    PROVE  ReplayTick(more, st, tick, calibrated) = ReplayTick(os, st, tick, calibrated)
<1> DEFINE w == tick.open \cap DOMAIN os
           V(o) == tick.open \cap DOMAIN o
           ps == Update(st.points, tick.at, tick.book)
           s == [at |-> tick.at, book |-> tick.book]
           E(x) == Evaluate(st.books, st.points, calibrated, s, w, x, tick.seq)
           T(x, m) == BookStep(m, calibrated, st.books[m], Batch(st.books[m], w, x), s, tick.seq,
                               Volatility(ps))
<1>1. V(more) = w /\ V(os) = w /\ w \subseteq DOMAIN os
  BY DEF Keeps
<1>2. \A m : Batch(st.books[m], w, more) = Batch(st.books[m], w, os)
  BY <1>1, SameBatch
<1>3. \A m : T(more, m) = T(os, m)
  BY <1>2
<1>4. \A x : E(x) = [points |-> ps, step |-> [m \in DOMAIN st.books |-> T(x, m)]]
  BY DEF Evaluate, EvaluateOn
<1> HIDE DEF T, ps
<1>5. [m \in DOMAIN st.books |-> T(more, m)] = [m \in DOMAIN st.books |-> T(os, m)]
  BY <1>3
<1> HIDE DEF E
<1>6. E(more) = E(os)
  BY <1>4, <1>5
<1>7. \A x : V(x) = w => ReplayTick(x, st, tick, calibrated)
                = [books |-> BooksOfStep(E(x).step), points |-> E(x).points,
                   fills |-> st.fills \union FillsOfStep(E(x).step)]
  BY DEF ReplayTick, E
<1>8. ReplayTick(more, st, tick, calibrated)
        = [books |-> BooksOfStep(E(more).step), points |-> E(more).points,
           fills |-> st.fills \union FillsOfStep(E(more).step)]
      /\ ReplayTick(os, st, tick, calibrated)
        = [books |-> BooksOfStep(E(os).step), points |-> E(os).points,
           fills |-> st.fills \union FillsOfStep(E(os).step)]
  BY <1>1, <1>7
<1> QED
  BY <1>6, <1>8

\* A recording that continues another.
Continues(longer, ts) ==
    /\ Len(ts) <= Len(longer)
    /\ \A i \in 1..Len(ts) : longer[i] = ts[i]

OpensIn(ts, os) == \A i \in 1..Len(ts) : ts[i].open \subseteq DOMAIN os

LEMMA SameReplay ==
    ASSUME NEW os, NEW more, Keeps(os, more), NEW ts \in Seq(TickType), OpensIn(ts, os),
           NEW longer \in Seq(TickType), Continues(longer, ts), NEW models, NEW calibrated
    PROVE  \A n \in 0..Len(ts) : ReplayedTicks(more, longer, models, calibrated)[n]
                                   = ReplayedTicks(os, ts, models, calibrated)[n]
<1> DEFINE A == ReplayedTicks(more, longer, models, calibrated)
           B == ReplayedTicks(os, ts, models, calibrated)
           N == Len(ts)
           Good == {n \in 0..N : A[n] = B[n]}
<1>1. N \in Nat /\ Len(longer) \in Nat /\ N <= Len(longer)
  BY DEF Continues
<1>2. Replays(A, more, longer, models, calibrated) /\ Replays(B, os, ts, models, calibrated)
  BY ReplayRec
<1> HIDE DEF A, B
<1>3. 0 \in Good
  BY <1>1, <1>2 DEF Replays
<1>4. ASSUME NEW n \in 0..N, n \in Good, n < N PROVE n + 1 \in Good
  <2>1. n + 1 \in 1..N /\ n + 1 \in 1..Len(longer) /\ (n + 1) - 1 = n /\ n + 1 \in 0..N
    BY <1>1, <1>4
  <2>2. A[n + 1] = ReplayTick(more, A[n], longer[n + 1], calibrated)
        /\ B[n + 1] = ReplayTick(os, B[n], ts[n + 1], calibrated)
    <3>1. A[n + 1] = ReplayTick(more, A[(n + 1) - 1], longer[n + 1], calibrated)
          /\ B[n + 1] = ReplayTick(os, B[(n + 1) - 1], ts[n + 1], calibrated)
      BY <1>2, <2>1 DEF Replays
    <3> QED
      BY <2>1, <3>1
  <2>3. longer[n + 1] = ts[n + 1] /\ A[n] = B[n] /\ ts[n + 1].open \subseteq DOMAIN os
    BY <1>4, <2>1 DEF Continues, OpensIn
  <2>4. A[n + 1] = B[n + 1]
    BY <2>2, <2>3, SameTick
  <2> QED
    BY <2>1, <2>4
<1>5. 0..N \subseteq Good
  <2> HIDE DEF Good, N
  <2>1. 0 \in Int /\ N \in Int
    BY <1>1
  <2> QED
    BY <1>3, <1>4, <2>1, UpTo
<1> QED
  BY <1>5 DEF A, B

\* A model replayed alone does what it does among the others.
Alone(st, alone, m) ==
    /\ m \in DOMAIN st.books /\ DOMAIN alone.books = {m}
    /\ alone.books[m] = st.books[m] /\ alone.points = st.points
    /\ \A f \in st.fills : f.model \in DOMAIN st.books
    /\ \A f : f \in alone.fills <=> f \in st.fills /\ f.model = m

LEMMA FillsOfModel ==
    ASSUME NEW os, NEW st, NEW tick, NEW calibrated, NEW m
    PROVE  \A f \in StepOf(os, st, tick, calibrated, m).fills : f.model = m /\ f.tick = tick.seq
<1> DEFINE b == st.books[m]
           batch == Batch(b, WindowOf(os, tick), os)
           size == FillsOfBatch(m, calibrated, batch, SnapOf(tick), tick.seq, MeasureOf(st, tick))
           F == {[model |-> m, order |-> o, tick |-> tick.seq, size |-> size[o], price |-> batch[o].price,
                  at |-> SnapOf(tick).at] : o \in {x \in DOMAIN size : size[x] > 0}}
           B == AfterFills(b, batch, size, SnapOf(tick))
<1>1. StepOf(os, st, tick, calibrated, m) = [book |-> B, fills |-> F]
  BY DEF StepOf, BookStep, EvaluateBook
<1>2. \A f \in F : f.model = m /\ f.tick = tick.seq
  <2> HIDE DEF size, batch
  <2> QED
    OBVIOUS
<1> HIDE DEF F, B
<1> QED
  BY <1>1, <1>2

LEMMA AloneStep ==
    ASSUME NEW os, NEW st, NEW alone, NEW m, Alone(st, alone, m), NEW tick, NEW calibrated
    PROVE  Alone(ReplayTick(os, st, tick, calibrated), ReplayTick(os, alone, tick, calibrated), m)
<1> DEFINE r == ReplayTick(os, st, tick, calibrated)
           a == ReplayTick(os, alone, tick, calibrated)
           S(k) == StepOf(os, st, tick, calibrated, k)
           A(k) == StepOf(os, alone, tick, calibrated, k)
<1>0. /\ m \in DOMAIN st.books /\ DOMAIN alone.books = {m} /\ alone.books[m] = st.books[m]
      /\ alone.points = st.points
      /\ \A f \in st.fills : f.model \in DOMAIN st.books
      /\ \A f : f \in alone.fills <=> f \in st.fills /\ f.model = m
  BY DEF Alone
<1>1. /\ r.points = Update(st.points, tick.at, tick.book) /\ DOMAIN r.books = DOMAIN st.books
      /\ \A k \in DOMAIN st.books : r.books[k] = S(k).book
      /\ r.fills = st.fills \union UNION {S(k).fills : k \in DOMAIN st.books}
  BY ReplayTickFields
<1>2. /\ a.points = Update(alone.points, tick.at, tick.book) /\ DOMAIN a.books = DOMAIN alone.books
      /\ \A k \in DOMAIN alone.books : a.books[k] = A(k).book
      /\ a.fills = alone.fills \union UNION {A(k).fills : k \in DOMAIN alone.books}
  BY ReplayTickFields
<1>3. A(m) = S(m)
  BY <1>0 DEF StepOf, MeasureOf
<1>4. \A k : \A f \in S(k).fills : f.model = k
  BY FillsOfModel
<1> HIDE DEF r, a, S, A
<1>5. \A f : f \in r.fills <=> f \in st.fills \/ \E k \in DOMAIN st.books : f \in S(k).fills
  BY <1>1
<1>6. \A f : f \in a.fills <=> f \in alone.fills \/ f \in S(m).fills
  BY <1>0, <1>2, <1>3
<1>7. \A f \in r.fills : f.model \in DOMAIN r.books
  BY <1>0, <1>1, <1>4, <1>5
<1>8. \A f : f \in a.fills <=> f \in r.fills /\ f.model = m
  BY <1>0, <1>4, <1>5, <1>6
<1>9. m \in DOMAIN r.books /\ DOMAIN a.books = {m} /\ a.books[m] = r.books[m] /\ a.points = r.points
  BY <1>0, <1>1, <1>2, <1>3
<1>10. Alone(r, a, m)
  BY <1>7, <1>8, <1>9 DEF Alone
<1> QED
  BY <1>10 DEF r, a

LEMMA AloneAll ==
    ASSUME NEW os, NEW ts \in Seq(TickType), NEW models, NEW m \in models, NEW only, only = {m},
           NEW calibrated
    PROVE  Alone(ReplayedTicks(os, ts, models, calibrated)[Len(ts)],
                 ReplayedTicks(os, ts, only, calibrated)[Len(ts)], m)
<1> DEFINE R == ReplayedTicks(os, ts, models, calibrated)
           P == ReplayedTicks(os, ts, only, calibrated)
           N == Len(ts)
           Good == {n \in 0..N : Alone(R[n], P[n], m)}
<1>1. N \in Nat
  OBVIOUS
<1>2. Replays(R, os, ts, models, calibrated) /\ Replays(P, os, ts, only, calibrated)
  BY ReplayRec
<1> HIDE DEF R, P
<1>3. 0 \in Good
  <2>1. R[0] = NewShadows(models) /\ P[0] = NewShadows(only) /\ 0 \in 0..N
    BY <1>1, <1>2 DEF Replays
  <2> DEFINE bs == R[0].books
             ps == P[0].books
  <2>2. /\ bs = [k \in models |-> EmptyBook] /\ R[0].points = << >> /\ R[0].fills = {}
        /\ ps = [k \in only |-> EmptyBook] /\ P[0].points = << >> /\ P[0].fills = {}
    BY <2>1, NewShadowsFields
  <2> HIDE DEF bs, ps
  <2>3. m \in DOMAIN bs /\ DOMAIN ps = {m} /\ bs[m] = ps[m]
    BY <2>2
  <2> QED
    BY <2>1, <2>2, <2>3 DEF Alone, bs, ps
<1>4. ASSUME NEW n \in 0..N, n \in Good, n < N PROVE n + 1 \in Good
  <2>1. n + 1 \in 1..N /\ (n + 1) - 1 = n /\ n + 1 \in 0..N
    BY <1>1, <1>4
  <2>2. R[n + 1] = ReplayTick(os, R[n], ts[n + 1], calibrated)
        /\ P[n + 1] = ReplayTick(os, P[n], ts[n + 1], calibrated)
    <3>1. R[n + 1] = ReplayTick(os, R[(n + 1) - 1], ts[n + 1], calibrated)
          /\ P[n + 1] = ReplayTick(os, P[(n + 1) - 1], ts[n + 1], calibrated)
      BY <1>2, <2>1 DEF Replays
    <3> QED
      BY <2>1, <3>1
  <2>3. Alone(R[n + 1], P[n + 1], m)
    BY <1>4, <2>2, AloneStep
  <2> QED
    BY <2>1, <2>3
<1>5. 0..N \subseteq Good
  <2> HIDE DEF Good, N
  <2>1. 0 \in Int /\ N \in Int
    BY <1>1
  <2> QED
    BY <1>3, <1>4, <2>1, UpTo
<1>6. N \in 0..N
  BY <1>1
<1> QED
  BY <1>5, <1>6 DEF R, P

-----------------------------------------------------------------------------
(* The trades, and the orders once they are read *)

TradeType == [order : Nat, size : 1..OrderSize, at : Nat]
TradesOK(ts, os) == ts \in Seq(TradeType) /\ \A i \in 1..Len(ts) : ts[i].order \in DOMAIN os

OfOrder(ts, n, o) == {i \in 1..n : ts[i].order = o}
SizesOf(ts) == [i \in DOMAIN ts |-> ts[i].size]

\* What the first n trades fill of an order.
TradedTo(ts, n, o) == SumFunctionOnSet(SizesOf(ts), OfOrder(ts, n, o))

LEMMA SizesFit ==
    ASSUME NEW ts \in Seq(TradeType), NEW n \in 0..Len(ts), NEW o
    PROVE  /\ IsFiniteSet(OfOrder(ts, n, o)) /\ OfOrder(ts, n, o) \subseteq 1..Len(ts)
           /\ \A i \in 1..Len(ts) : SizesOf(ts)[i] = ts[i].size /\ SizesOf(ts)[i] \in Int
           /\ \A i \in 1..Len(ts) : ts[i].size \in Nat \ {0}
<1>1. Len(ts) \in Nat /\ DOMAIN ts = 1..Len(ts) /\ \A i \in 1..Len(ts) : ts[i] \in TradeType
  OBVIOUS
<1>2. OfOrder(ts, n, o) \subseteq 1..n /\ IsFiniteSet(1..n)
  <2>1. n \in Int
    BY <1>1
  <2> QED
    BY <2>1, FS_Interval DEF OfOrder
<1>3. IsFiniteSet(OfOrder(ts, n, o))
  BY <1>2, FS_Subset
<1>4. \A i \in 1..Len(ts) : ts[i].size \in Nat \ {0}
  BY <1>1, SizesAssumption DEF TradeType
<1> QED
  BY <1>1, <1>2, <1>3, <1>4 DEF SizesOf

LEMMA TradedNone == ASSUME NEW ts, NEW o PROVE TradedTo(ts, 0, o) = 0
<1>1. OfOrder(ts, 0, o) = {}
  BY DEF OfOrder
<1> QED
  BY <1>1, SumEmpty DEF TradedTo

LEMMA TradedNext ==
    ASSUME NEW ts \in Seq(TradeType), NEW n \in 0..Len(ts), n < Len(ts), NEW o
    PROVE  /\ TradedTo(ts, n, o) \in Int
           /\ TradedTo(ts, n + 1, o)
                = TradedTo(ts, n, o) + (IF ts[n + 1].order = o THEN ts[n + 1].size ELSE 0)
<1> DEFINE S == OfOrder(ts, n, o)
           T == OfOrder(ts, n + 1, o)
           v == SizesOf(ts)
<1>1. Len(ts) \in Nat /\ n + 1 \in 1..Len(ts) /\ 1..(n + 1) = 1..n \union {n + 1} /\ n + 1 \notin 1..n
  OBVIOUS
<1>2. IsFiniteSet(S) /\ S \subseteq 1..Len(ts)
      /\ \A i \in 1..Len(ts) : v[i] = ts[i].size /\ v[i] \in Int
  BY SizesFit
<1>3. SumFunctionOnSet(v, S) \in Int
  <2> HIDE DEF S, v
  <2>1. \A i \in S : v[i] \in Int
    BY <1>2
  <2> QED
    BY <1>2, <2>1, SumInt
<1>4. CASE ts[n + 1].order = o
  <2>1. T = S \union {n + 1} /\ n + 1 \notin S
    BY <1>1, <1>4 DEF OfOrder
  <2>2. OneMore(T, v, S, v, n + 1)
    <3> HIDE DEF S, T, v
    <3> QED
      BY <1>1, <1>2, <2>1 DEF OneMore
  <2>3. SumFunctionOnSet(v, T) = SumFunctionOnSet(v, S) + v[n + 1]
    <3> HIDE DEF S, T, v
    <3> QED
      BY <2>2, SumAdd
  <2> QED
    BY <1>1, <1>2, <1>3, <1>4, <2>3 DEF TradedTo
<1>5. CASE ts[n + 1].order # o
  <2>1. T = S
    BY <1>1, <1>5 DEF OfOrder
  <2> QED
    BY <1>3, <1>5, <2>1 DEF TradedTo
<1> QED
  BY <1>4, <1>5

LEMMA TradedInt ==
    ASSUME NEW ts \in Seq(TradeType), NEW n \in 0..Len(ts), NEW o
    PROVE  TradedTo(ts, n, o) \in Int
<1> DEFINE S == OfOrder(ts, n, o)
           v == SizesOf(ts)
<1>1. IsFiniteSet(S) /\ \A i \in S : v[i] \in Int
  BY SizesFit
<1> HIDE DEF S, v
<1>2. SumFunctionOnSet(v, S) \in Int
  BY <1>1, SumInt
<1> QED
  BY <1>2 DEF TradedTo, S, v

\* More trades fill more.
LEMMA TradedGrows ==
    ASSUME NEW ts \in Seq(TradeType), NEW n \in 0..Len(ts), NEW o
    PROVE  /\ TradedTo(ts, n, o) <= TradedTo(ts, Len(ts), o) /\ TradedTo(ts, n, o) \in Nat
           /\ \A k \in n..Len(ts) : TradedTo(ts, n, o) <= TradedTo(ts, k, o)
<1> DEFINE N == Len(ts)
           X(k) == TradedTo(ts, k, o)
           Up == {k \in n..N : X(n) <= X(k)}
           Ok == {k \in 0..N : X(k) \in Nat}
<1>1. N \in Nat /\ n \in Nat /\ n <= N
  OBVIOUS
<1>2. \A k \in 0..N : X(k) \in Int
  BY TradedInt
<1>3. ASSUME NEW k \in 0..N, k < N PROVE X(k) <= X(k + 1)
  <2>1. ts[k + 1].size \in Nat
    <3>1. k + 1 \in 1..N
      BY <1>1, <1>3
    <3> QED
      BY <3>1, SizesFit
  <2>2. X(k + 1) = X(k) + (IF ts[k + 1].order = o THEN ts[k + 1].size ELSE 0)
    BY <1>3, TradedNext
  <2>3. X(k) \in Int
    BY <1>2
  <2> HIDE DEF X
  <2> QED
    BY <2>1, <2>2, <2>3
<1>0. X(0) = 0
  BY TradedNone
<1> HIDE DEF X, N
<1>4. n..N \subseteq Up
  <2>1. n \in Up
    BY <1>1, <1>2
  <2>2. ASSUME NEW k \in n..N, k \in Up, k < N PROVE k + 1 \in Up
    <3>1. k \in 0..N /\ k + 1 \in 0..N /\ k + 1 \in n..N
      BY <1>1, <2>2
    <3>2. X(n) <= X(k) /\ X(k) <= X(k + 1)
      BY <1>3, <2>2, <3>1
    <3> QED
      BY <1>1, <1>2, <3>1, <3>2
  <2> HIDE DEF Up
  <2>3. n \in Int /\ N \in Int
    BY <1>1
  <2> QED
    BY <2>1, <2>2, <2>3, UpTo
<1>5. 0..N \subseteq Ok
  <2>1. 0 \in Ok
    BY <1>0, <1>1
  <2>2. ASSUME NEW k \in 0..N, k \in Ok, k < N PROVE k + 1 \in Ok
    <3>1. k + 1 \in 0..N
      BY <1>1, <2>2
    <3>2. X(k) \in Nat /\ X(k) <= X(k + 1)
      BY <1>3, <2>2
    <3> QED
      BY <1>2, <3>1, <3>2
  <2> HIDE DEF Ok
  <2>3. 0 \in Int /\ N \in Int
    BY <1>1
  <2> QED
    BY <2>1, <2>2, <2>3, UpTo
<1>6. N \in n..N /\ n \in 0..N
  BY <1>1
<1>7. X(n) <= X(N) /\ X(n) \in Nat /\ \A k \in n..N : X(n) <= X(k)
  BY <1>4, <1>5, <1>6
<1> QED
  BY <1>7 DEF X, N

\* One more trade leaves the sums of the earlier ones.
LEMMA TradedBefore ==
    ASSUME NEW ts \in Seq(TradeType), NEW t \in TradeType, NEW n \in 0..Len(ts), NEW o
    PROVE  TradedTo(Append(ts, t), n, o) = TradedTo(ts, n, o)
<1> DEFINE ls == Append(ts, t)
           S == OfOrder(ts, n, o)
           v == SizesOf(ts)
           w == SizesOf(ls)
<1>1. Len(ts) \in Nat /\ ls \in Seq(TradeType) /\ Len(ls) = Len(ts) + 1
      /\ \A i \in 1..Len(ts) : ls[i] = ts[i]
  OBVIOUS
<1>2. OfOrder(ls, n, o) = S
  BY <1>1 DEF OfOrder
<1>3. IsFiniteSet(S) /\ S \subseteq 1..Len(ts)
      /\ \A i \in 1..Len(ts) : v[i] = ts[i].size /\ v[i] \in Int
  BY SizesFit
<1>4. \A i \in 1..Len(ts) : w[i] = ls[i].size
  BY <1>1 DEF SizesOf
<1>5. \A i \in S : v[i] = w[i] /\ v[i] \in Int
  BY <1>1, <1>3, <1>4
<1> HIDE DEF S, v, w, ls
<1>6. SumFunctionOnSet(w, S) = SumFunctionOnSet(v, S)
  BY <1>3, <1>5, SumSame
<1> QED
  BY <1>2, <1>6 DEF TradedTo, S, v, w, ls

LEMMA TradedOfIs ==
    ASSUME trades \in Seq(TradeType), NEW o
    PROVE  TradedOf(o) = TradedTo(trades, Len(trades), o)
<1>1. DOMAIN trades = 1..Len(trades)
  OBVIOUS
<1>2. {i \in DOMAIN trades : trades[i].order = o} = OfOrder(trades, Len(trades), o)
  BY <1>1 DEF OfOrder
<1> QED
  BY <1>2 DEF TradedOf, TradedTo, SizesOf

\* The record of an order after n of the trades were read.
OrderFits(order, ts, n, o) ==
    /\ order.filled = TradedTo(ts, n, o)
    /\ order.state \notin FinalStates => order.ended = None /\ order.filled < OrderSize
    /\ order.state = "filled" =>
         /\ order.filled >= OrderSize
         /\ \E i \in 1..n : /\ ts[i].order = o /\ order.ended = ts[i].at
                            /\ TradedTo(ts, i, o) >= OrderSize
    /\ order.state = "cancelled" => order.ended \in Nat /\ TradedTo(ts, Len(ts), o) < OrderSize

AllFit(os, ts, n) == \A o \in DOMAIN os : OrderFits(os[o], ts, n, o)

\* What reading trades leaves: the orders, what they were placed with, those that ended.
Reads(os, more) ==
    /\ OrdersOK(more) /\ DOMAIN more = DOMAIN os /\ Keeps(os, more)
    /\ \A o \in DOMAIN os : os[o].state \in FinalStates =>
         more[o].state = os[o].state /\ more[o].ended = os[o].ended
    /\ \A o \in DOMAIN os : more[o].state = "cancelled" => os[o].state = "cancelled"

LEMMA ReadsSelf == ASSUME NEW os, OrdersOK(os) PROVE Reads(os, os)
BY DEF Reads, Keeps

LEMMA ReadsThen ==
    ASSUME NEW a, NEW b, NEW c, Reads(a, b), Reads(b, c) PROVE Reads(a, c)
BY DEF Reads, Keeps

LEMMA ApplyFillFields ==
    ASSUME NEW os, OrdersOK(os), NEW t \in TradeType, t.order \in DOMAIN os
    PROVE  LET r == ApplyFill(os, t)
               o == t.order
               size == os[o].filled + t.size
           IN  /\ OrdersOK(r) /\ DOMAIN r = DOMAIN os
               /\ \A x \in DOMAIN os : x # o => r[x] = os[x]
               /\ r[o].side = os[o].side /\ r[o].price = os[o].price
               /\ r[o].size = os[o].size /\ r[o].acked = os[o].acked
               /\ r[o].filled = size
               /\ r[o].state = IF size >= OrderSize THEN "filled"
                               ELSE IF os[o].state = "open" THEN "partially_filled" ELSE os[o].state
               /\ r[o].ended = IF size >= OrderSize /\ os[o].ended = None THEN t.at ELSE os[o].ended
<1> DEFINE r == ApplyFill(os, t)
           o == t.order
           size == os[o].filled + t.size
           state == IF size >= OrderSize THEN "filled"
                    ELSE IF os[o].state = "open" THEN "partially_filled" ELSE os[o].state
           ended == IF size >= OrderSize /\ os[o].ended = None THEN t.at ELSE os[o].ended
           x == [os[o] EXCEPT !.filled = size, !.state = state, !.ended = ended]
<1>1. os \in Seq(OrderType) /\ Len(os) <= MaxOrders /\ o \in DOMAIN os
  BY DEF OrdersOK
<1>2. os[o] \in OrderType /\ os[o].size = OrderSize
  BY <1>1, OrderFields
<1>3. r = [os EXCEPT ![o] = x]
  <2>1. DOMAIN os[o] = {"side", "price", "size", "state", "filled", "acked", "ended"}
    BY <1>2 DEF OrderType
  <2>2. \A v : [os EXCEPT ![o].filled = v][o].state = os[o].state
               /\ [os EXCEPT ![o].filled = v][o].ended = os[o].ended
    BY <1>1, <2>1
  <2> QED
    BY <1>1, <1>2, <2>1 DEF ApplyFill
<1>4. size \in Nat /\ state \in States /\ ended \in Int
  <2>1. os[o].filled \in Nat /\ t.size \in Nat /\ os[o].state \in States /\ os[o].ended \in Int
        /\ t.at \in Nat
    BY <1>2, SizesAssumption DEF OrderType, TradeType
  <2>2. "filled" \in States /\ "partially_filled" \in States
    BY DEF States, FinalStates
  <2> QED
    BY <2>1, <2>2
<1> HIDE DEF size, state, ended
<1>5. /\ x \in OrderType /\ x.side = os[o].side /\ x.price = os[o].price
      /\ x.size = os[o].size /\ x.acked = os[o].acked
      /\ x.filled = size /\ x.state = state /\ x.ended = ended
  BY <1>2, <1>4 DEF OrderType
<1> HIDE DEF x, r, o
<1>6. r \in Seq(OrderType) /\ Len(r) = Len(os) /\ DOMAIN r = DOMAIN os /\ r[o] = x
      /\ \A y \in DOMAIN os : y # o => r[y] = os[y]
  BY <1>1, <1>3, <1>5
<1>7. OrdersOK(r)
  BY <1>1, <1>6 DEF OrdersOK
<1> QED
  BY <1>5, <1>6, <1>7 DEF r, o, size, state, ended

LEMMA ApplyFillFits ==
    ASSUME NEW os, OrdersOK(os), NEW ts, TradesOK(ts, os), NEW n \in 0..Len(ts), n < Len(ts),
           AllFit(os, ts, n)
    PROVE  LET r == ApplyFill(os, ts[n + 1]) IN Reads(os, r) /\ AllFit(r, ts, n + 1)
<1> DEFINE t == ts[n + 1]
           r == ApplyFill(os, t)
           o == t.order
           size == os[o].filled + t.size
<1>1. ts \in Seq(TradeType) /\ Len(ts) \in Nat /\ n + 1 \in 1..Len(ts) /\ n + 1 \in 0..Len(ts)
  BY DEF TradesOK
<1>2. t \in TradeType /\ o \in DOMAIN os
  BY <1>1 DEF TradesOK
<1>3. /\ OrdersOK(r) /\ DOMAIN r = DOMAIN os
      /\ \A x \in DOMAIN os : x # o => r[x] = os[x]
      /\ r[o].side = os[o].side /\ r[o].price = os[o].price
      /\ r[o].size = os[o].size /\ r[o].acked = os[o].acked
      /\ r[o].filled = size
      /\ r[o].state = IF size >= OrderSize THEN "filled"
                      ELSE IF os[o].state = "open" THEN "partially_filled" ELSE os[o].state
      /\ r[o].ended = IF size >= OrderSize /\ os[o].ended = None THEN t.at ELSE os[o].ended
  BY <1>2, ApplyFillFields
<1>4. \A x : TradedTo(ts, n + 1, x) = TradedTo(ts, n, x) + (IF o = x THEN t.size ELSE 0)
             /\ TradedTo(ts, n, x) \in Int
  BY <1>1, TradedNext DEF TradesOK
<1>5. OrderFits(os[o], ts, n, o)
  BY <1>2 DEF AllFit
<1>6. t.size \in Nat \ {0} /\ t.at \in Nat /\ OrderSize \in Nat \ {0} /\ os[o].filled \in Nat
      /\ os[o].state \in States
  BY <1>2, OrderFields, SizesAssumption DEF TradeType, OrderType
<1>7. size = TradedTo(ts, n + 1, o) /\ size \in Nat
  BY <1>4, <1>5, <1>6 DEF OrderFits
<1>8. os[o].state = "cancelled" => size < OrderSize
  <2>1. TradedTo(ts, n + 1, o) <= TradedTo(ts, Len(ts), o) /\ TradedTo(ts, Len(ts), o) \in Int
    <3>1. Len(ts) \in 0..Len(ts)
      BY <1>1
    <3> QED
      BY <1>1, <3>1, TradedGrows, TradedInt
  <2> QED
    BY <1>5, <1>6, <1>7, <2>1 DEF OrderFits
<1> HIDE DEF r, o, size
<1>9. Reads(os, r)
  <2>1. Keeps(os, r)
    <3>1. \A x \in DOMAIN os : /\ r[x].side = os[x].side /\ r[x].price = os[x].price
                               /\ r[x].size = os[x].size /\ r[x].acked = os[x].acked
      BY <1>3
    <3> QED
      BY <1>3, <3>1 DEF Keeps
  <2>2. r[o].state = "cancelled" => os[o].state = "cancelled"
    BY <1>3
  <2>3. os[o].state = "cancelled" => r[o].state = "cancelled" /\ r[o].ended = os[o].ended
    BY <1>3, <1>6, <1>7, <1>8
  <2>4. os[o].state = "filled" => r[o].state = "filled" /\ r[o].ended = os[o].ended
    <3> SUFFICES ASSUME os[o].state = "filled" PROVE r[o].state = "filled" /\ r[o].ended = os[o].ended
      OBVIOUS
    <3>1. os[o].filled >= OrderSize
      BY <1>5 DEF OrderFits
    <3>2. PICK i \in 1..n : os[o].ended = ts[i].at
      BY <1>5 DEF OrderFits
    <3>3. os[o].ended # None
      <4>1. ts[i] \in TradeType
        BY <1>1, <3>2
      <4>2. ts[i].at \in Nat
        BY <4>1 DEF TradeType
      <4> QED
        BY <3>2, <4>2 DEF None
    <3>4. size >= OrderSize
      BY <1>6, <3>1 DEF size, o
    <3> QED
      BY <1>3, <3>3, <3>4
  <2>5. \A x \in DOMAIN os : os[x].state \in FinalStates =>
          r[x].state = os[x].state /\ r[x].ended = os[x].ended
    BY <1>3, <2>3, <2>4 DEF FinalStates
  <2> QED
    BY <1>3, <2>1, <2>2, <2>5 DEF Reads
<1>10. ASSUME NEW x \in DOMAIN os, x # o PROVE OrderFits(r[x], ts, n + 1, x)
  <2>1. OrderFits(os[x], ts, n, x) /\ r[x] = os[x]
    BY <1>3, <1>10 DEF AllFit
  <2>2. TradedTo(ts, n + 1, x) = TradedTo(ts, n, x)
    BY <1>4, <1>10
  <2>3. \A i \in 1..n : i \in 1..(n + 1)
    BY <1>1
  <2> QED
    BY <2>1, <2>2, <2>3 DEF OrderFits
<1>11. OrderFits(r[o], ts, n + 1, o)
  <2>1. CASE size >= OrderSize
    <3>1. r[o].state = "filled" /\ r[o].filled = size
          /\ r[o].ended = IF os[o].ended = None THEN t.at ELSE os[o].ended
      BY <1>3, <2>1
    <3>2. os[o].state # "cancelled"
      BY <1>6, <1>7, <1>8, <2>1
    <3>3. \E i \in 1..(n + 1) : /\ ts[i].order = o /\ r[o].ended = ts[i].at
                                /\ TradedTo(ts, i, o) >= OrderSize
      <4>1. CASE os[o].ended = None
        <5>1. n + 1 \in 1..(n + 1)
          BY <1>1
        <5>2. ts[n + 1].order = o
          BY DEF o
        <5> QED
          BY <1>7, <2>1, <3>1, <4>1, <5>1, <5>2
      <4>2. CASE os[o].ended # None
        <5>1. os[o].state = "filled"
          BY <1>5, <3>2, <4>2 DEF OrderFits, FinalStates
        <5>2. PICK i \in 1..n : /\ ts[i].order = o /\ os[o].ended = ts[i].at
                                /\ TradedTo(ts, i, o) >= OrderSize
          BY <1>5, <5>1 DEF OrderFits
        <5>3. i \in 1..(n + 1)
          BY <1>1
        <5> QED
          BY <3>1, <4>2, <5>2, <5>3
      <4> QED
        BY <4>1, <4>2
    <3> QED
      BY <1>7, <2>1, <3>1, <3>3 DEF OrderFits, FinalStates
  <2>2. CASE ~(size >= OrderSize)
    <3>1. os[o].state # "filled"
      BY <1>5, <1>6, <2>2 DEF OrderFits, size
    <3>2. r[o].ended = os[o].ended /\ r[o].filled = size
          /\ r[o].state = IF os[o].state = "open" THEN "partially_filled" ELSE os[o].state
      BY <1>3, <2>2
    <3>3. size < OrderSize
      BY <1>6, <1>7, <2>2
    <3>4. CASE os[o].state = "cancelled"
      BY <1>5, <1>7, <3>2, <3>4 DEF OrderFits, FinalStates
    <3>5. CASE os[o].state # "cancelled"
      <4>1. r[o].state \notin FinalStates /\ os[o].state \notin FinalStates
        BY <3>1, <3>2, <3>5 DEF FinalStates
      <4> QED
        BY <1>5, <1>7, <3>2, <3>3, <4>1 DEF OrderFits, FinalStates
    <3> QED
      BY <3>4, <3>5
  <2> QED
    BY <2>1, <2>2
<1>12. AllFit(r, ts, n + 1)
  BY <1>3, <1>10, <1>11 DEF AllFit
<1> QED
  BY <1>9, <1>12 DEF r

\* The orders after each of the trades that were not read yet.
AfterRun(A, os) ==
    /\ A[read] = os
    /\ \A n \in read..Len(trades) : n < Len(trades) => A[n + 1] = ApplyFill(A[n], trades[n + 1])

LEMMA AfterRec ==
    ASSUME NEW os, Len(trades) \in Nat, read \in 0..Len(trades)
    PROVE  AfterRun(AfterTrades(os), os)
<1> DEFINE N == Len(trades)
           Next1(r, n) == ApplyFill(r, trades[n])
           Good == {m \in read..N : \E g : g = [n \in read..m |-> IF n = read THEN os
                                                                  ELSE Next1(g[n - 1], n)]}
           A == CHOOSE g : g = [n \in read..N |-> IF n = read THEN os ELSE Next1(g[n - 1], n)]
<1>1. N \in Nat /\ read \in Nat /\ read <= N
  OBVIOUS
<1>2. AfterTrades(os) = A
  BY DEF AfterTrades
<1> HIDE DEF N, Next1
<1>3. read \in Good
  <2> DEFINE h == [n \in read..read |-> os]
  <2>1. h = [n \in read..read |-> IF n = read THEN os ELSE Next1(h[n - 1], n)]
    BY <1>1
  <2> HIDE DEF h
  <2> QED
    BY <1>1, <2>1
<1>4. ASSUME NEW m \in read..N, m \in Good, m < N PROVE m + 1 \in Good
  <2>1. PICK g : g = [n \in read..m |-> IF n = read THEN os ELSE Next1(g[n - 1], n)]
    BY <1>4
  <2> DEFINE h == [n \in read..(m + 1) |-> IF n = m + 1 THEN Next1(g[m], m + 1) ELSE g[n]]
  <2>2. ASSUME NEW n \in read..(m + 1)
        PROVE  h[n] = IF n = read THEN os ELSE Next1(h[n - 1], n)
    <3>1. CASE n = m + 1
      <4>1. h[m] = g[m]
        BY <1>1
      <4>2. h[n] = Next1(g[m], n) /\ n # read /\ n - 1 = m
        BY <1>1, <3>1
      <4> HIDE DEF h
      <4> QED
        BY <4>1, <4>2
    <3>2. CASE n # m + 1 /\ n # read
      <4>1. n \in read..m /\ n - 1 \in read..m /\ n - 1 # m + 1 /\ n - 1 \in read..(m + 1)
        BY <1>1, <3>2
      <4>2. h[n] = g[n] /\ h[n - 1] = g[n - 1]
        BY <3>2, <4>1
      <4>3. g[n] = Next1(g[n - 1], n)
        BY <2>1, <3>2, <4>1
      <4> HIDE DEF h
      <4> QED
        BY <3>2, <4>2, <4>3
    <3>3. CASE n # m + 1 /\ n = read
      <4>1. n \in read..m
        BY <1>1, <3>3
      <4>2. h[n] = g[n] /\ g[n] = os
        BY <2>1, <3>3, <4>1
      <4> HIDE DEF h
      <4> QED
        BY <3>3, <4>2
    <3> QED
      BY <3>1, <3>2, <3>3
  <2>3. h = [n \in read..(m + 1) |-> IF n = read THEN os ELSE Next1(h[n - 1], n)]
    BY <2>2
  <2>4. m + 1 \in read..N
    BY <1>1, <1>4
  <2> HIDE DEF h
  <2> QED
    BY <2>3, <2>4
<1>5. N \in Good
  <2>1. read..N \subseteq Good
    <3> HIDE DEF Good
    <3>1. read \in Int /\ N \in Int
      BY <1>1
    <3> QED
      BY <1>3, <1>4, <3>1, UpTo
  <2> HIDE DEF Good
  <2> QED
    BY <1>1, <2>1
<1>6. A = [n \in read..N |-> IF n = read THEN os ELSE Next1(A[n - 1], n)]
  BY <1>5
<1> HIDE DEF A
<1>7. A[read] = os
  BY <1>1, <1>6
<1>8. ASSUME NEW n \in read..N, n < N PROVE A[n + 1] = Next1(A[n], n + 1)
  <2>1. n + 1 \in read..N /\ n + 1 # read /\ (n + 1) - 1 = n
    BY <1>1, <1>8
  <2>2. A[n + 1] = Next1(A[(n + 1) - 1], n + 1)
    BY <1>6, <2>1
  <2> QED
    BY <2>1, <2>2
<1> QED
  BY <1>2, <1>7, <1>8 DEF AfterRun, Next1, N

\* Reading the trades: the orders fit all of them.
LEMMA ReadFillsFits ==
    ASSUME OrdersOK(orders), TradesOK(trades, orders), read \in 0..Len(trades),
           AllFit(orders, trades, read)
    PROVE  Reads(orders, ReadFills(orders)) /\ AllFit(ReadFills(orders), trades, Len(trades))
<1> DEFINE A == AfterTrades(orders)
           N == Len(trades)
           Good == {n \in read..N : Reads(orders, A[n]) /\ AllFit(A[n], trades, n)}
<1>1. N \in Nat /\ read \in Nat /\ read <= N
  BY DEF TradesOK
<1>2. AfterRun(A, orders)
  BY <1>1, AfterRec
<1>3. ReadFills(orders) = A[N]
  BY DEF ReadFills
<1> HIDE DEF A
<1>4. read \in Good
  <2>1. A[read] = orders /\ read \in read..N
    BY <1>1, <1>2 DEF AfterRun
  <2> QED
    BY <2>1, ReadsSelf
<1>5. ASSUME NEW n \in read..N, n \in Good, n < N PROVE n + 1 \in Good
  <2>1. n + 1 \in read..N /\ n \in 0..N
    BY <1>1, <1>5
  <2>2. A[n + 1] = ApplyFill(A[n], trades[n + 1])
    BY <1>2, <1>5 DEF AfterRun
  <2>3. Reads(orders, A[n]) /\ AllFit(A[n], trades, n)
    BY <1>5
  <2>4. OrdersOK(A[n]) /\ TradesOK(trades, A[n])
    BY <2>3 DEF Reads, TradesOK
  <2>5. Reads(A[n], A[n + 1]) /\ AllFit(A[n + 1], trades, n + 1)
    BY <1>5, <2>1, <2>2, <2>3, <2>4, ApplyFillFits
  <2>6. Reads(orders, A[n + 1])
    BY <2>3, <2>5, ReadsThen
  <2> QED
    BY <2>1, <2>5, <2>6
<1>6. read..N \subseteq Good
  <2> HIDE DEF Good, N
  <2>1. read \in Int /\ N \in Int
    BY <1>1
  <2> QED
    BY <1>4, <1>5, <2>1, UpTo
<1>7. N \in Good
  <2> HIDE DEF Good
  <2> QED
    BY <1>1, <1>6
<1> QED
  BY <1>3, <1>7

-----------------------------------------------------------------------------
(* The invariant of a session *)

SessionType ==
    /\ now \in Nat /\ seq \in Nat /\ lastSnapAt \in Int /\ gap \in Int
    /\ pc \in {"idle", "synced", "quoting", "stopped"}
    /\ OrdersOK(orders) /\ TradesOK(trades, orders) /\ read \in 0..Len(trades)
    /\ dirty \subseteq DOMAIN orders /\ rows \subseteq DOMAIN orders
    /\ TicksOK(ticks) /\ OpensIn(ticks, orders)
    /\ pc = "synced" => snap \in [at : Nat, book : Books]

\* Nothing is later than now, and what was recorded later is later.
InTime ==
    /\ lastSnapAt <= now
    /\ pc = "synced" => lastSnapAt < snap.at /\ snap.at <= now
    /\ \A o \in DOMAIN orders : orders[o].acked <= now
    /\ \A i \in 1..Len(trades) : trades[i].at <= now
    /\ \A i, j \in 1..Len(trades) : i < j => trades[i].at <= trades[j].at
    /\ \A i \in 1..Len(ticks) : ticks[i].at <= lastSnapAt /\ ticks[i].seq <= seq
    /\ \A i, j \in 1..Len(ticks) : i < j => ticks[i].at < ticks[j].at

LastAt(ts) == IF Len(ts) = 0 THEN None ELSE ts[Len(ts)].at
AtBefore(ts, i) == IF i = 1 THEN None ELSE ts[i - 1].at

\* Until a tick is not saved there is one for every snapshot.
Unbroken ==
    /\ gap = None => Len(ticks) = seq /\ lastSnapAt = LastAt(ticks)
    /\ gap # None => gap \in 1..seq

\* The order was acknowledged before tick i, had not filled by the tick before, and was not
\* cancelled when the tick was taken.
Live(os, ts, o, i) ==
    /\ os[o].acked < ts[i].at
    /\ os[o].state = "filled" => AtBefore(ts, i) < os[o].ended
    /\ os[o].state = "cancelled" => ts[i].at < os[o].ended

\* Such an order was shown to the shadows with the tick.
Shown == gap = None => \A o \in DOMAIN orders : \A i \in 1..Len(ticks) :
                         Live(orders, ticks, o, i) => o \in ticks[i].open

\* The trader's records agree with the exchange's trades it has read.
Agrees == AllFit(orders, trades, read)

\* The exchange never fills more of an order than its size.
Capped == \A o : TradedTo(trades, Len(trades), o) <= OrderSize

\* The recording, replayed over every order, and the books and fills the session made.
Replayed == ReplayedTicks(orders, ticks, FillModels, Calibrated)[Len(ticks)]
Before(f) == gap = None \/ f.tick < gap

Reproduces ==
    /\ gap = None => books = Replayed.books /\ points = Replayed.points
    /\ \A f \in stored \union fills : f.tick \in Nat /\ (Before(f) => f \in Replayed.fills)
    /\ \A f \in Replayed.fills : Before(f) => f \in stored \union fills \/ f.tick \in lost
    /\ \A f \in fills : f.tick = seq /\ pc = "quoting"

SessionInv == SessionType /\ InTime /\ Unbroken /\ Shown /\ Agrees /\ Capped /\ Reproduces

LEMMA SessionStart == ASSUME Init PROVE SessionInv
<1>1. /\ now = 0 /\ orders = << >> /\ trades = << >> /\ read = 0 /\ pc = "idle"
      /\ dirty = {} /\ rows = {}
      /\ books = [m \in FillModels |-> EmptyBook] /\ points = << >>
      /\ seq = 0 /\ lastSnapAt = None
      /\ fills = {} /\ ticks = << >> /\ stored = {} /\ lost = {} /\ gap = None
  BY DEF Init
<1>2. Len(orders) = 0 /\ Len(trades) = 0 /\ Len(ticks) = 0 /\ DOMAIN orders = {} /\ 1..0 = {}
      /\ orders \in Seq(OrderType) /\ trades \in Seq(TradeType) /\ ticks \in Seq(TickType)
  BY <1>1
<1>3. None = -1
  BY DEF None
<1>4. OrdersOK(orders) /\ TradesOK(trades, orders) /\ TicksOK(ticks) /\ OpensIn(ticks, orders)
  BY <1>2, SizesAssumption DEF OrdersOK, TradesOK, TicksOK, OpensIn
<1>5. SessionType
  BY <1>1, <1>2, <1>3, <1>4 DEF SessionType
<1>6. InTime /\ Unbroken /\ Shown /\ Agrees
  BY <1>1, <1>2, <1>3 DEF InTime, Unbroken, Shown, Agrees, AllFit, LastAt
<1>c. Capped
  <2>1. \A o : TradedTo(trades, 0, o) = 0
    BY TradedNone
  <2>2. 0 <= OrderSize
    BY SizesAssumption
  <2> QED
    BY <1>2, <2>1, <2>2 DEF Capped
<1>7. Replayed = NewShadows(FillModels)
  <2> DEFINE R == ReplayedTicks(orders, ticks, FillModels, Calibrated)
  <2>1. Replays(R, orders, ticks, FillModels, Calibrated)
    BY <1>2, ReplayRec
  <2>2. R[0] = NewShadows(FillModels)
    BY <2>1 DEF Replays
  <2> QED
    BY <1>2, <2>2 DEF Replayed
<1>8. Reproduces
  <2>1. /\ NewShadows(FillModels).books = [m \in FillModels |-> EmptyBook]
        /\ NewShadows(FillModels).points = << >> /\ NewShadows(FillModels).fills = {}
    BY NewShadowsFields
  <2> QED
    BY <1>1, <1>7, <2>1 DEF Reproduces
<1> QED
  BY <1>5, <1>6, <1>c, <1>8 DEF SessionInv

LEMMA AdvanceStep == ASSUME SessionInv, Advance PROVE SessionInv'
<1>1. /\ now' = now + 1
      /\ UNCHANGED <<orders, trades, read, dirty, rows, pc, snap, books, points, seq, lastSnapAt,
                     fills, ticks, stored, lost, gap>>
  BY DEF Advance, records, shadows, saved
<1>2. SessionType'
  BY <1>1 DEF SessionInv, SessionType
<1>3. InTime'
  <2>1. /\ now \in Nat /\ lastSnapAt \in Int /\ (pc = "synced" => snap \in [at : Nat, book : Books])
        /\ \A o \in DOMAIN orders : orders[o].acked \in Nat
        /\ \A i \in 1..Len(trades) : trades[i].at \in Nat
    <3>1. /\ now \in Nat /\ lastSnapAt \in Int /\ OrdersOK(orders) /\ trades \in Seq(TradeType)
          /\ (pc = "synced" => snap \in [at : Nat, book : Books])
      BY DEF SessionInv, SessionType, TradesOK
    <3>2. \A o \in DOMAIN orders : orders[o].acked \in Nat
      BY <3>1, OrderFields DEF OrderType
    <3>3. \A i \in 1..Len(trades) : trades[i] \in TradeType
      BY <3>1
    <3>4. \A i \in 1..Len(trades) : trades[i].at \in Nat
      BY <3>3 DEF TradeType
    <3> QED
      BY <3>1, <3>2, <3>4
  <2>2. pc = "synced" => snap.at \in Nat
    BY <2>1
  <2>3. InTime
    BY DEF SessionInv
  <2> QED
    BY <1>1, <2>1, <2>2, <2>3 DEF InTime
<1>4. Unbroken' /\ Shown' /\ Agrees' /\ Capped' /\ Reproduces'
  BY <1>1 DEF SessionInv, Unbroken, Shown, Agrees, Capped, Reproduces, Replayed, Before
<1> QED
  BY <1>2, <1>3, <1>4 DEF SessionInv

LEMMA SnapshotStep == ASSUME SessionInv, NEW book \in Books, Snapshot(book) PROVE SessionInv'
<1>1. /\ now' = now + 1 /\ pc = "idle" /\ pc' = "synced" /\ snap' = [at |-> now + 1, book |-> book]
      /\ UNCHANGED <<orders, trades, read, dirty, rows, books, points, seq, lastSnapAt, fills, ticks,
                     stored, lost, gap>>
  BY DEF Snapshot, records, shadows, saved
<1>0. now \in Nat /\ lastSnapAt \in Int
  BY DEF SessionInv, SessionType
<1>2. SessionType'
  BY <1>1, <1>0 DEF SessionInv, SessionType
<1>3. InTime'
  <2>1. /\ \A o \in DOMAIN orders : orders[o].acked \in Nat
        /\ \A i \in 1..Len(trades) : trades[i].at \in Nat
    <3>1. OrdersOK(orders) /\ trades \in Seq(TradeType)
      BY DEF SessionInv, SessionType, TradesOK
    <3>2. \A o \in DOMAIN orders : orders[o].acked \in Nat
      BY <3>1, OrderFields DEF OrderType
    <3>3. \A i \in 1..Len(trades) : trades[i] \in TradeType
      BY <3>1
    <3>4. \A i \in 1..Len(trades) : trades[i].at \in Nat
      BY <3>3 DEF TradeType
    <3> QED
      BY <3>2, <3>4
  <2>2. InTime
    BY DEF SessionInv
  <2> QED
    BY <1>0, <1>1, <2>1, <2>2 DEF InTime
<1>4. Unbroken' /\ Shown' /\ Agrees' /\ Capped'
  BY <1>1 DEF SessionInv, Unbroken, Shown, Agrees, Capped
<1>5. Reproduces'
  BY <1>1 DEF SessionInv, Reproduces, Replayed, Before
<1> QED
  BY <1>2, <1>3, <1>4, <1>5 DEF SessionInv

LEMMA TradeStep ==
    ASSUME SessionInv, NEW o \in DOMAIN orders, NEW size \in 1..OrderSize, Trade(o, size)
    PROVE  SessionInv'
<1> DEFINE t == [order |-> o, size |-> size, at |-> now]
<1>1. /\ trades' = Append(trades, t) /\ orders[o].state # "cancelled" /\ size <= Unfilled(o)
      /\ UNCHANGED <<now, orders, read, dirty, rows, pc, snap, books, points, seq, lastSnapAt, fills,
                     ticks, stored, lost, gap>>
  BY DEF Trade, Resting, records, shadows, saved
<1>2. SessionType /\ InTime /\ Agrees /\ now \in Nat /\ trades \in Seq(TradeType)
      /\ OrdersOK(orders) /\ TradesOK(trades, orders) /\ read \in 0..Len(trades)
  BY DEF SessionInv, SessionType, TradesOK
<1>3. t \in TradeType /\ t.order = o /\ t.at = now /\ t.size = size
  <2>1. o \in Nat
    BY <1>2, OrderFields
  <2> QED
    BY <1>2, <2>1 DEF TradeType
<1> HIDE DEF t
<1>4. /\ trades' \in Seq(TradeType) /\ Len(trades') = Len(trades) + 1 /\ Len(trades) \in Nat
      /\ \A i \in 1..Len(trades) : trades'[i] = trades[i]
      /\ trades'[Len(trades) + 1] = t
  BY <1>1, <1>2, <1>3
<1>5. \A i \in 1..Len(trades') : i \in 1..Len(trades) \/ i = Len(trades) + 1
  BY <1>4
<1>6. TradesOK(trades', orders) /\ read \in 0..Len(trades')
  BY <1>2, <1>3, <1>4, <1>5 DEF TradesOK
<1>7. SessionType'
  BY <1>1, <1>2, <1>6 DEF SessionType
<1>8. InTime'
  <2>1. \A i \in 1..Len(trades') : trades'[i].at <= now
    BY <1>2, <1>3, <1>4, <1>5 DEF InTime
  <2>2. \A i, j \in 1..Len(trades') : i < j => trades'[i].at <= trades'[j].at
    <3> SUFFICES ASSUME NEW i \in 1..Len(trades'), NEW j \in 1..Len(trades'), i < j
                 PROVE  trades'[i].at <= trades'[j].at
      OBVIOUS
    <3>1. i \in 1..Len(trades)
      BY <1>4
    <3>2. CASE j \in 1..Len(trades)
      BY <1>2, <1>4, <3>1, <3>2 DEF InTime
    <3>3. CASE j = Len(trades) + 1
      BY <1>2, <1>3, <1>4, <3>1, <3>3 DEF InTime
    <3> QED
      BY <1>5, <3>2, <3>3
  <2> QED
    BY <1>1, <1>2, <2>1, <2>2 DEF InTime
<1>9. Shown'
  BY <1>1 DEF SessionInv, Shown
<1>l. \A x : /\ TradedTo(trades', Len(trades'), x)
                   = TradedTo(trades, Len(trades), x) + (IF x = o THEN size ELSE 0)
             /\ TradedTo(trades, Len(trades), x) \in Int
  <2> TAKE x
  <2>1. Len(trades) \in 0..Len(trades) /\ Len(trades) \in 0..Len(trades') /\ Len(trades) < Len(trades')
    BY <1>4
  <2>2. TradedTo(trades', Len(trades), x) = TradedTo(trades, Len(trades), x)
    BY <1>1, <1>2, <1>3, <2>1, TradedBefore
  <2>3. TradedTo(trades', Len(trades) + 1, x)
          = TradedTo(trades', Len(trades), x)
            + (IF trades'[Len(trades) + 1].order = x THEN trades'[Len(trades) + 1].size ELSE 0)
        /\ TradedTo(trades', Len(trades), x) \in Int
    BY <1>4, <2>1, TradedNext
  <2> QED
    BY <1>3, <1>4, <2>2, <2>3
<1>c. Capped'
  <2> SUFFICES ASSUME NEW x PROVE TradedTo(trades', Len(trades'), x) <= OrderSize
    BY DEF Capped
  <2>1. TradedTo(trades, Len(trades), x) <= OrderSize /\ OrderSize \in Nat
    BY SizesAssumption DEF SessionInv, Capped
  <2>2. x = o => TradedTo(trades, Len(trades), x) + size <= OrderSize
    <3>1. Unfilled(o) = OrderSize - TradedTo(trades, Len(trades), o)
      BY <1>2, OrderFields, TradedOfIs DEF Unfilled
    <3> QED
      BY <1>1, <1>l, <2>1, <3>1
  <2> QED
    BY <1>l, <2>1, <2>2
<1>10. Agrees'
  <2> SUFFICES ASSUME NEW x \in DOMAIN orders PROVE OrderFits(orders[x], trades', read, x)
    BY <1>1 DEF Agrees, AllFit
  <2>1. OrderFits(orders[x], trades, read, x)
    BY <1>2 DEF Agrees, AllFit
  <2>2. TradedTo(trades', read, x) = TradedTo(trades, read, x)
    BY <1>1, <1>2, <1>3, TradedBefore
  <2>3. \A i \in 1..read : trades'[i] = trades[i]
    BY <1>2, <1>4
  <2>b. ASSUME NEW i \in 1..read PROVE TradedTo(trades', i, x) = TradedTo(trades, i, x)
    <3>1. i \in 0..Len(trades)
      BY <1>2, <1>4
    <3> QED
      BY <1>1, <1>2, <1>3, <3>1, TradedBefore
  <2>4. x # o => TradedTo(trades', Len(trades'), x) = TradedTo(trades, Len(trades), x)
    BY <1>l
  <2>5. x = o => orders[x].state # "cancelled"
    BY <1>1
  <2>6. orders[x].state = "filled" =>
          \E i \in 1..read : /\ trades'[i].order = x /\ orders[x].ended = trades'[i].at
                             /\ TradedTo(trades', i, x) >= OrderSize
    BY <2>1, <2>3, <2>b DEF OrderFits
  <2> QED
    BY <2>1, <2>2, <2>4, <2>5, <2>6 DEF OrderFits
<1>11. Unbroken' /\ Reproduces'
  BY <1>1 DEF SessionInv, Unbroken, Reproduces, Replayed, Before
<1> QED
  BY <1>7, <1>8, <1>9, <1>10, <1>11, <1>c DEF SessionInv

\* The orders move: more may be placed, none is changed in what a quote is opened from, and one
\* that ended stays as it ended.
Moves(os, more) ==
    /\ OrdersOK(more) /\ Keeps(os, more)
    /\ \A o \in DOMAIN os : os[o].state \in FinalStates =>
         more[o].state = os[o].state /\ more[o].ended = os[o].ended
    /\ \A o \in DOMAIN more : o \notin DOMAIN os => more[o].acked = now

\* The orders moved, and fit the trades read.
Moved ==
    /\ Moves(orders, orders') /\ AllFit(orders', trades, read') /\ read' \in 0..Len(trades)
    /\ dirty' \subseteq DOMAIN orders'

\* The shadow fills of the iteration are kept, saved, or lost with their tick.
Saves ==
    /\ fills' \subseteq fills /\ stored' \union fills' \subseteq stored \union fills
    /\ lost \subseteq lost'
    /\ \A f \in stored \union fills : f \in stored' \union fills' \/ f.tick \in lost'
    /\ fills' # {} => pc' = "quoting"

LEMMA MoveStep ==
    ASSUME SessionInv, Moved, Saves, rows' \subseteq DOMAIN orders',
           pc' \in {"idle", "quoting", "stopped"},
           UNCHANGED <<now, trades, books, points, seq, lastSnapAt, ticks, gap>>
    PROVE  SessionInv'
<1>1. SessionType /\ InTime /\ OrdersOK(orders) /\ TradesOK(trades, orders) /\ TicksOK(ticks)
      /\ OpensIn(ticks, orders) /\ now \in Nat
  BY DEF SessionInv, SessionType
<1>m. Moves(orders, orders') /\ AllFit(orders', trades, read') /\ read' \in 0..Len(trades)
      /\ dirty' \subseteq DOMAIN orders'
  BY DEF Moved
<1>2. OrdersOK(orders') /\ Keeps(orders, orders') /\ DOMAIN orders \subseteq DOMAIN orders'
  BY <1>m DEF Moves, Keeps
<1>3. TradesOK(trades, orders') /\ OpensIn(ticks, orders')
  BY <1>1, <1>2 DEF TradesOK, OpensIn
<1>4. SessionType'
  BY <1>1, <1>2, <1>3, <1>m DEF SessionType
<1>5. InTime'
  <2>1. \A o \in DOMAIN orders' : orders'[o].acked <= now
    <3> SUFFICES ASSUME NEW o \in DOMAIN orders' PROVE orders'[o].acked <= now
      OBVIOUS
    <3>1. CASE o \in DOMAIN orders
      BY <1>1, <1>2, <3>1 DEF InTime, Keeps
    <3>2. CASE o \notin DOMAIN orders
      BY <1>1, <1>m, <3>2 DEF Moves
    <3> QED
      BY <3>1, <3>2
  <2> QED
    BY <1>1, <2>1 DEF InTime
<1>6. Shown'
  <2> SUFFICES ASSUME gap = None, NEW o \in DOMAIN orders', NEW i \in 1..Len(ticks),
                      Live(orders', ticks, o, i)
               PROVE  o \in ticks[i].open
    BY DEF Shown
  <2>1. CASE o \in DOMAIN orders
    <3>1. Live(orders, ticks, o, i)
      BY <1>2, <1>m, <2>1 DEF Live, Moves, Keeps, FinalStates
    <3> QED
      BY <2>1, <3>1 DEF SessionInv, Shown
  <2>2. CASE o \notin DOMAIN orders
    <3>1. orders'[o].acked = now /\ now < ticks[i].at
      BY <1>m, <2>2 DEF Moves, Live
    <3>2. ticks[i].at <= lastSnapAt /\ lastSnapAt <= now /\ lastSnapAt \in Int
      BY <1>1 DEF InTime, SessionType
    <3>3. ticks[i] \in TickType
      BY <1>1 DEF TicksOK
    <3>4. ticks[i].at \in Nat
      BY <3>3 DEF TickType
    <3> QED
      BY <1>1, <3>1, <3>2, <3>4
  <2> QED
    BY <2>1, <2>2
<1>7. Replayed' = Replayed
  <2>1. ticks \in Seq(TickType) /\ Len(ticks) \in 0..Len(ticks)
    BY <1>1, TicksInSeq
  <2>2. Continues(ticks, ticks)
    BY <2>1 DEF Continues
  <2>3. ReplayedTicks(orders', ticks, FillModels, Calibrated)[Len(ticks)]
          = ReplayedTicks(orders, ticks, FillModels, Calibrated)[Len(ticks)]
    BY <1>1, <1>2, <2>1, <2>2, SameReplay
  <2> QED
    BY <2>3 DEF Replayed
<1>8. Reproduces'
  <2>1. Reproduces /\ \A f : Before(f)' <=> Before(f)
    BY DEF SessionInv, Before
  <2>2. \A f \in stored' \union fills' : f.tick \in Nat /\ (Before(f) => f \in Replayed.fills)
    BY <2>1 DEF Reproduces, Saves
  <2>3. \A f \in Replayed.fills : Before(f) => f \in stored' \union fills' \/ f.tick \in lost'
    BY <2>1 DEF Reproduces, Saves
  <2>4. \A f \in fills' : f.tick = seq /\ pc' = "quoting"
    BY <2>1 DEF Reproduces, Saves
  <2> QED
    BY <1>7, <2>1, <2>2, <2>3, <2>4 DEF Reproduces
<1>9. Unbroken' /\ Agrees' /\ Capped'
  BY <1>m DEF SessionInv, Unbroken, Agrees, Capped
<1> QED
  BY <1>4, <1>5, <1>6, <1>8, <1>9 DEF SessionInv

\* Outside _quote there are no fills to save.
LEMMA NothingToSave ==
    ASSUME SessionInv, pc # "quoting" \/ pc' = "quoting", UNCHANGED <<fills, stored, lost>> PROVE Saves
<1>1. fills # {} => pc = "quoting"
  BY DEF SessionInv, Reproduces
<1> QED
  BY <1>1 DEF Saves

LEMMA RecordsKept == ASSUME SessionInv, UNCHANGED <<orders, read>>, dirty' \subseteq DOMAIN orders PROVE Moved
BY DEF SessionInv, SessionType, Agrees, Moved, Moves, Keeps

LEMMA ReadsMoves == ASSUME NEW os, NEW more, Reads(os, more) PROVE Moves(os, more)
BY DEF Reads, Moves

\* The orders of trades that were not read.
LEMMA NewTradesOf ==
    ASSUME SessionInv PROVE \A i \in NewTrades : trades[i].order \in DOMAIN orders
<1>1. read \in 0..Len(trades) /\ TradesOK(trades, orders) /\ Len(trades) \in Nat
  BY DEF SessionInv, SessionType, TradesOK
<1>2. \A i \in NewTrades : i \in 1..Len(trades)
  BY <1>1 DEF NewTrades
<1> QED
  BY <1>1, <1>2 DEF TradesOK

LEMMA ReadTradesMoves ==
    ASSUME SessionInv, NEW ok, ReadTrades(ok) PROVE Moved /\ DOMAIN orders' = DOMAIN orders
<1>1. OrdersOK(orders) /\ TradesOK(trades, orders) /\ read \in 0..Len(trades)
      /\ AllFit(orders, trades, read) /\ dirty \subseteq DOMAIN orders
  BY DEF SessionInv, SessionType, Agrees
<1>2. orders' = ReadFills(orders) /\ read' = Len(trades)
      /\ dirty' = dirty \union {trades[i].order : i \in NewTrades}
  BY DEF ReadTrades
<1>3. Reads(orders, orders') /\ AllFit(orders', trades, read')
  BY <1>1, <1>2, ReadFillsFits
<1>4. DOMAIN orders' = DOMAIN orders /\ Moves(orders, orders')
  BY <1>3, ReadsMoves DEF Reads
<1>5. read' \in 0..Len(trades)
  BY <1>1, <1>2
<1>6. dirty' \subseteq DOMAIN orders
  BY <1>1, <1>2, NewTradesOf
<1> QED
  BY <1>3, <1>4, <1>5, <1>6 DEF Moved

\* Some orders, with something left on the exchange, are cancelled now.
Cancels(os, more) ==
    /\ Len(more) = Len(os) /\ DOMAIN more = DOMAIN os
    /\ \A o \in DOMAIN os :
         \/ more[o] = os[o]
         \/ /\ more[o] = [os[o] EXCEPT !.state = "cancelled", !.ended = now]
            /\ os[o].state # "cancelled" /\ TradedTo(trades, Len(trades), o) < OrderSize

LEMMA CancelsMoves ==
    ASSUME now \in Nat, trades \in Seq(TradeType), NEW os, OrdersOK(os), NEW n \in 0..Len(trades),
           AllFit(os, trades, n), NEW more \in Seq(OrderType), Cancels(os, more)
    PROVE  Moves(os, more) /\ AllFit(more, trades, n)
<1>1. Len(more) = Len(os)
  BY DEF Cancels
<1>2. OrdersOK(more)
  BY <1>1 DEF OrdersOK
<1>3. ASSUME NEW o \in DOMAIN os
      PROVE  /\ more[o].side = os[o].side /\ more[o].price = os[o].price
             /\ more[o].size = os[o].size /\ more[o].acked = os[o].acked
             /\ os[o].state \in FinalStates =>
                  more[o].state = os[o].state /\ more[o].ended = os[o].ended
             /\ OrderFits(more[o], trades, n, o)
  <2>0. os[o] \in OrderType /\ OrderFits(os[o], trades, n, o)
    BY OrderFields DEF AllFit
  <2>1. CASE more[o] = os[o]
    BY <2>0, <2>1
  <2>2. CASE /\ more[o] = [os[o] EXCEPT !.state = "cancelled", !.ended = now]
             /\ os[o].state # "cancelled" /\ TradedTo(trades, Len(trades), o) < OrderSize
    <3>1. /\ more[o].side = os[o].side /\ more[o].price = os[o].price
          /\ more[o].size = os[o].size /\ more[o].acked = os[o].acked
          /\ more[o].state = "cancelled" /\ more[o].ended = now /\ more[o].filled = os[o].filled
      BY <2>0, <2>2 DEF OrderType
    <3>2. OrderFits(more[o], trades, n, o)
      BY <2>0, <2>2, <3>1 DEF OrderFits, FinalStates
    <3>3. os[o].state # "filled"
      <4>1. TradedTo(trades, n, o) <= TradedTo(trades, Len(trades), o) /\ TradedTo(trades, n, o) \in Nat
        BY TradedGrows
      <4>2. TradedTo(trades, Len(trades), o) \in Int /\ OrderSize \in Nat
        <5>1. Len(trades) \in 0..Len(trades)
          OBVIOUS
        <5> QED
          BY <5>1, TradedInt, SizesAssumption
      <4> QED
        BY <2>0, <2>2, <4>1, <4>2 DEF OrderFits
    <3> QED
      BY <2>2, <3>1, <3>2, <3>3 DEF FinalStates
  <2> QED
    BY <2>1, <2>2 DEF Cancels
<1>4. Keeps(os, more)
  BY <1>3 DEF Keeps, Cancels
<1>5. Moves(os, more)
  BY <1>2, <1>3, <1>4 DEF Moves, Cancels
<1>6. AllFit(more, trades, n)
  BY <1>3 DEF AllFit, Cancels
<1> QED
  BY <1>5, <1>6

LEMMA UnfilledIs ==
    ASSUME OrdersOK(orders), trades \in Seq(TradeType), NEW o \in DOMAIN orders
    PROVE  /\ Unfilled(o) <= 0 <=> ~(TradedTo(trades, Len(trades), o) < OrderSize)
           /\ TradedTo(trades, Len(trades), o) \in Int
<1>1. Unfilled(o) = OrderSize - TradedTo(trades, Len(trades), o)
  BY OrderFields, TradedOfIs DEF Unfilled
<1>2. TradedTo(trades, Len(trades), o) \in Int /\ OrderSize \in Nat
  <2>1. Len(trades) \in 0..Len(trades)
    OBVIOUS
  <2> QED
    BY <2>1, TradedInt, SizesAssumption
<1> QED
  BY <1>1, <1>2

LEMMA CancelledOrder ==
    ASSUME OrdersOK(orders), now \in Nat, NEW o \in DOMAIN orders
    PROVE  [orders[o] EXCEPT !.state = "cancelled", !.ended = now] \in OrderType
<1>1. orders[o] \in OrderType /\ "cancelled" \in States
  BY OrderFields DEF States, FinalStates
<1>2. now \in Int
  OBVIOUS
<1> QED
  BY <1>1, <1>2 DEF OrderType

LEMMA CancelStep ==
    ASSUME SessionInv, NEW o \in DOMAIN orders, Cancel(o) PROVE SessionInv'
<1>1. /\ pc = "quoting" /\ pc' = "quoting" /\ Open(o)
      /\ UNCHANGED <<now, trades, rows, books, points, seq, lastSnapAt, fills, ticks, stored, lost, gap>>
  BY DEF Cancel, exchange, shadows, saved
<1>2. OrdersOK(orders) /\ TradesOK(trades, orders) /\ read \in 0..Len(trades) /\ now \in Nat
      /\ AllFit(orders, trades, read) /\ trades \in Seq(TradeType) /\ orders \in Seq(OrderType)
      /\ dirty \subseteq DOMAIN orders /\ rows \subseteq DOMAIN orders
  BY DEF SessionInv, SessionType, Agrees, TradesOK, OrdersOK
<1>3. Moved /\ DOMAIN orders' = DOMAIN orders
  <2>1. CASE ~Late(o) /\ orders' = [orders EXCEPT ![o].state = "cancelled", ![o].ended = now]
             /\ dirty' = dirty \union {o} /\ UNCHANGED read
    <3> DEFINE x == [orders[o] EXCEPT !.state = "cancelled", !.ended = now]
    <3>1. orders' = [orders EXCEPT ![o] = x]
      <4>1. o \in DOMAIN orders /\ orders[o] \in OrderType
        BY <1>2, OrderFields
      <4> QED
        BY <1>2, <2>1, <4>1
    <3>2. x \in OrderType
      BY <1>2, CancelledOrder
    <3>3. TradedTo(trades, Len(trades), o) < OrderSize /\ orders[o].state # "cancelled"
      BY <1>1, <1>2, <2>1, UnfilledIs DEF Late, Open, FinalStates
    <3>4. orders' \in Seq(OrderType) /\ DOMAIN orders' = DOMAIN orders /\ orders'[o] = x
          /\ Len(orders') = Len(orders)
          /\ \A y \in DOMAIN orders : y # o => orders'[y] = orders[y]
      <4> HIDE DEF x
      <4> QED
        BY <1>2, <3>1, <3>2
    <3>5. Cancels(orders, orders')
      BY <3>3, <3>4 DEF Cancels
    <3>6. Moves(orders, orders') /\ AllFit(orders', trades, read)
      BY <1>2, <3>4, <3>5, CancelsMoves
    <3> QED
      BY <1>2, <2>1, <3>4, <3>6 DEF Moved
  <2>2. CASE ReadTrades(TRUE)
    BY <2>2, ReadTradesMoves
  <2> QED
    BY <2>1, <2>2 DEF Cancel
<1>4. Saves
  BY <1>1, NothingToSave
<1> QED
  BY <1>1, <1>2, <1>3, <1>4, MoveStep

LEMMA PlaceStep ==
    ASSUME SessionInv, NEW side \in {"bid", "ask"}, NEW price \in Prices[side], Place(side, price)
    PROVE  SessionInv'
<1> DEFINE x == [side |-> side, price |-> price, size |-> OrderSize, state |-> "open", filled |-> 0,
                 acked |-> now, ended |-> None]
<1>1. /\ pc = "quoting" /\ pc' = "quoting" /\ orders' = Append(orders, x) /\ read' = read
      /\ Len(orders) < MaxOrders /\ dirty' = dirty \union {Len(orders) + 1}
      /\ UNCHANGED <<now, trades, rows, books, points, seq, lastSnapAt, fills, ticks, stored, lost, gap>>
  BY DEF Place, exchange, shadows, saved
<1>2. OrdersOK(orders) /\ TradesOK(trades, orders) /\ read \in 0..Len(trades) /\ now \in Nat
      /\ AllFit(orders, trades, read) /\ dirty \subseteq DOMAIN orders /\ rows \subseteq DOMAIN orders
  BY DEF SessionInv, SessionType, Agrees
<1>3. trades \in Seq(TradeType) /\ orders \in Seq(OrderType) /\ MaxOrders \in Nat
      /\ OrderSize \in Nat \ {0}
  BY <1>2, SizesAssumption DEF TradesOK, OrdersOK
<1>4. x \in OrderType /\ x.acked = now /\ x.filled = 0 /\ x.state = "open" /\ x.ended = None
  <2>1. price \in AllPrices /\ "open" \in States /\ None \in Int
    BY DEF AllPrices, States, None
  <2> QED
    BY <1>2, <1>3, <2>1 DEF OrderType
<1> HIDE DEF x
<1>5. /\ orders' \in Seq(OrderType) /\ Len(orders') = Len(orders) + 1 /\ Len(orders) \in Nat
      /\ DOMAIN orders = 1..Len(orders) /\ DOMAIN orders' = 1..(Len(orders) + 1)
      /\ \A i \in DOMAIN orders : orders'[i] = orders[i]
      /\ orders'[Len(orders) + 1] = x
  BY <1>1, <1>3, <1>4
<1>6. /\ DOMAIN orders \subseteq DOMAIN orders'
      /\ \A i \in DOMAIN orders' : i \in DOMAIN orders \/ i = Len(orders) + 1
      /\ Len(orders) + 1 \notin DOMAIN orders /\ Len(orders) + 1 \in DOMAIN orders'
  BY <1>5
<1>7. OrdersOK(orders')
  BY <1>1, <1>3, <1>5 DEF OrdersOK
<1>8. Moves(orders, orders')
  BY <1>4, <1>5, <1>6, <1>7 DEF Moves, Keeps
<1>9. AllFit(orders', trades, read)
  <2> DEFINE n == Len(orders) + 1
  <2>1. \A o \in DOMAIN orders : OrderFits(orders'[o], trades, read, o)
    BY <1>2, <1>5 DEF AllFit
  <2>2. TradedTo(trades, read, n) = 0
    <3>1. \A i \in 1..read : trades[i].order \in DOMAIN orders
      BY <1>2, <1>3 DEF TradesOK
    <3>2. OfOrder(trades, read, n) = {}
      BY <1>6, <3>1 DEF OfOrder
    <3> QED
      BY <3>2, SumEmpty DEF TradedTo
  <2>3. OrderFits(x, trades, read, n)
    BY <1>3, <1>4, <2>2 DEF OrderFits, FinalStates
  <2> QED
    BY <1>5, <1>6, <2>1, <2>3 DEF AllFit
<1>10. Moved
  BY <1>1, <1>2, <1>6, <1>8, <1>9 DEF Moved
<1>11. Saves
  BY <1>1, NothingToSave
<1>12. rows' \subseteq DOMAIN orders'
  BY <1>1, <1>2, <1>6
<1> QED
  BY <1>1, <1>10, <1>11, <1>12, MoveStep

\* What cancelling the orders up to the m-th does to them, and what it marks.
LEMMA CancelUpToMoves ==
    ASSUME SessionInv, NEW m, NEW ok, CancelUpTo(m, ok)
    PROVE  /\ Moves(orders, orders') /\ AllFit(orders', trades, read') /\ read' \in 0..Len(trades)
           /\ DOMAIN orders' = DOMAIN orders /\ MarkedUpTo(m) \subseteq DOMAIN orders
<1> DEFINE late == \E o \in Reached(m) : Late(o)
           os == IF late THEN ReadFills(orders) ELSE orders
           n == IF late THEN Len(trades) ELSE read
           C(o) == o \in Reached(m) /\ ~Late(o)
           more == [o \in DOMAIN os |-> IF C(o) THEN [os[o] EXCEPT !.state = "cancelled", !.ended = now]
                                        ELSE os[o]]
<1>1. orders' = more /\ read' = n
  BY DEF CancelUpTo
<1>2. OrdersOK(orders) /\ TradesOK(trades, orders) /\ read \in 0..Len(trades) /\ now \in Nat
      /\ AllFit(orders, trades, read) /\ trades \in Seq(TradeType) /\ dirty \subseteq DOMAIN orders
  BY DEF SessionInv, SessionType, Agrees, TradesOK
<1>3. Reads(orders, os) /\ AllFit(os, trades, n) /\ n \in 0..Len(trades)
  <2>1. CASE late
    BY <1>2, <2>1, ReadFillsFits
  <2>2. CASE ~late
    BY <1>2, <2>2, ReadsSelf
  <2> QED
    BY <2>1, <2>2
<1>r. Reached(m) \subseteq DOMAIN orders /\ \A o \in Reached(m) : Open(o)
  BY DEF Reached
<1>d. MarkedUpTo(m) \subseteq DOMAIN orders
  BY <1>2, <1>r, NewTradesOf DEF MarkedUpTo
<1> HIDE DEF late, os, n
<1>4. OrdersOK(os) /\ DOMAIN os = DOMAIN orders /\ os \in Seq(OrderType)
      /\ \A o \in DOMAIN os : os[o].state = "cancelled" => orders[o].state = "cancelled"
  BY <1>3 DEF Reads, OrdersOK
<1>5. ASSUME NEW o \in DOMAIN os, C(o)
      PROVE  os[o].state # "cancelled" /\ TradedTo(trades, Len(trades), o) < OrderSize
  <2>1. Open(o) /\ ~(Unfilled(o) <= 0) /\ o \in DOMAIN orders
    BY <1>5, <1>r DEF Late
  <2> QED
    BY <1>2, <1>4, <1>5, <2>1, UnfilledIs DEF Open, FinalStates
<1>6. \A o \in DOMAIN os : [os[o] EXCEPT !.state = "cancelled", !.ended = now] \in OrderType
                           /\ os[o] \in OrderType
  <2> SUFFICES ASSUME NEW o \in DOMAIN os
               PROVE  [os[o] EXCEPT !.state = "cancelled", !.ended = now] \in OrderType
                      /\ os[o] \in OrderType
    OBVIOUS
  <2>1. os[o] \in OrderType /\ "cancelled" \in States
    BY <1>4, OrderFields DEF States, FinalStates
  <2>2. now \in Int
    BY <1>2
  <2> QED
    BY <2>1, <2>2 DEF OrderType
<1> HIDE DEF C
<1>7. more \in Seq(OrderType) /\ Len(more) = Len(os) /\ DOMAIN more = DOMAIN os
  <2>1. DOMAIN os = 1..Len(os) /\ Len(os) \in Nat
    BY <1>4
  <2>2. DOMAIN more = 1..Len(os) /\ \A o \in 1..Len(os) : more[o] \in OrderType
    BY <1>6, <2>1
  <2>3. more = [o \in 1..Len(os) |-> more[o]]
    BY <2>1
  <2> HIDE DEF more
  <2>4. more \in [1..Len(os) -> OrderType]
    BY <2>2, <2>3
  <2> QED
    BY <2>1, <2>2, <2>4
<1>8. Cancels(os, more)
  <2>1. \A o \in DOMAIN os :
          \/ more[o] = os[o]
          \/ /\ more[o] = [os[o] EXCEPT !.state = "cancelled", !.ended = now]
             /\ os[o].state # "cancelled" /\ TradedTo(trades, Len(trades), o) < OrderSize
    BY <1>5
  <2> HIDE DEF more
  <2> QED
    BY <1>7, <2>1 DEF Cancels
<1> HIDE DEF more
<1>9. Moves(os, more) /\ AllFit(more, trades, n)
  BY <1>2, <1>3, <1>4, <1>7, <1>8, CancelsMoves
<1>10. Moves(orders, more)
  BY <1>3, <1>9 DEF Moves, Reads, Keeps
<1> QED
  BY <1>1, <1>3, <1>4, <1>7, <1>9, <1>10, <1>d

LEMMA FlushRows ==
    ASSUME NEW marked, NEW ok, Flush(marked, ok) PROVE dirty' = {} /\ rows' \subseteq rows \union marked
BY DEF Flush

\* What Pause and Stop do to the orders.
LEMMA CancelAllMoves ==
    ASSUME SessionInv, CancelAll PROVE Moved /\ rows' \subseteq DOMAIN orders'
<1>0. rows \subseteq DOMAIN orders
  BY DEF SessionInv, SessionType
<1>1. CASE CancelUpTo(Len(orders), TRUE) /\ \E ok \in BOOLEAN : Flush(MarkedUpTo(Len(orders)), ok)
  <2>1. /\ Moves(orders, orders') /\ AllFit(orders', trades, read') /\ read' \in 0..Len(trades)
        /\ DOMAIN orders' = DOMAIN orders /\ MarkedUpTo(Len(orders)) \subseteq DOMAIN orders
    BY <1>1, CancelUpToMoves
  <2>2. dirty' = {} /\ rows' \subseteq rows \union MarkedUpTo(Len(orders))
    BY <1>1, FlushRows
  <2> QED
    BY <1>0, <2>1, <2>2 DEF Moved
<1>2. CASE UNCHANGED rows /\ \E n \in DOMAIN orders : CancelUpTo(n, FALSE) /\ dirty' = MarkedUpTo(n)
  <2>1. PICK n \in DOMAIN orders : CancelUpTo(n, FALSE) /\ dirty' = MarkedUpTo(n)
    BY <1>2
  <2>2. /\ Moves(orders, orders') /\ AllFit(orders', trades, read') /\ read' \in 0..Len(trades)
        /\ DOMAIN orders' = DOMAIN orders /\ MarkedUpTo(n) \subseteq DOMAIN orders
    BY <2>1, CancelUpToMoves
  <2> QED
    BY <1>0, <1>2, <2>1, <2>2 DEF Moved
<1> QED
  BY <1>1, <1>2 DEF CancelAll

LEMMA PauseStopStep == ASSUME SessionInv, Pause \/ Stop PROVE SessionInv'
<1>1. /\ CancelAll /\ pc = "idle" /\ pc' \in {"idle", "stopped"}
      /\ UNCHANGED <<now, trades, books, points, seq, lastSnapAt, fills, ticks, stored, lost, gap>>
  BY DEF Pause, Stop, exchange, shadows, saved
<1>2. Moved /\ rows' \subseteq DOMAIN orders'
  BY <1>1, CancelAllMoves
<1>3. Saves
  BY <1>1, NothingToSave
<1> QED
  BY <1>1, <1>2, <1>3, MoveStep

LEMMA SyncFailsStep == ASSUME SessionInv, SyncFails PROVE SessionInv'
<1>1. /\ pc = "synced" /\ pc' = "idle" /\ (UNCHANGED records \/ \E ok \in BOOLEAN : ReadTrades(ok))
      /\ UNCHANGED <<now, trades, rows, books, points, seq, lastSnapAt, fills, ticks, stored, lost, gap>>
  BY DEF SyncFails, exchange, shadows, saved
<1>2. Moved /\ DOMAIN orders' = DOMAIN orders
  <2>1. CASE UNCHANGED records
    <3>1. UNCHANGED <<orders, read>> /\ dirty' \subseteq DOMAIN orders
      BY <2>1 DEF records, SessionInv, SessionType
    <3> QED
      BY <3>1, RecordsKept
  <2>2. CASE \E ok \in BOOLEAN : ReadTrades(ok)
    BY <2>2, ReadTradesMoves
  <2> QED
    BY <1>1, <2>1, <2>2
<1>3. Saves
  BY <1>1, NothingToSave
<1>4. rows' \subseteq DOMAIN orders'
  BY <1>1, <1>2 DEF SessionInv, SessionType
<1> QED
  BY <1>1, <1>2, <1>3, <1>4, MoveStep

LEMMA SaveStep == ASSUME SessionInv, NEW ok, SaveShadowFills(ok) PROVE SessionInv'
<1>1. /\ pc' = "idle" /\ stored' = stored \union fills /\ fills' = {} /\ Flush(dirty, ok)
      /\ UNCHANGED <<now, trades, orders, read, books, points, seq, lastSnapAt, ticks, lost, gap>>
  BY DEF SaveShadowFills, StoredWith, exchange, shadows
<1>2. dirty' = {} /\ rows' \subseteq rows \union dirty
  BY <1>1, FlushRows
<1>3. rows' \subseteq DOMAIN orders'
  BY <1>1, <1>2 DEF SessionInv, SessionType
<1>4. Moved
  BY <1>1, <1>2, RecordsKept
<1>5. Saves
  BY <1>1 DEF Saves
<1> QED
  BY <1>1, <1>3, <1>4, <1>5, MoveStep

LEMMA QuoteFailsStep == ASSUME SessionInv, QuoteFails PROVE SessionInv'
<1>1. /\ pc = "quoting" /\ pc' = "idle"
      /\ lost' = (IF fills = {} THEN lost ELSE lost \union {seq}) /\ fills' = {}
      /\ UNCHANGED <<now, trades, rows, books, points, seq, lastSnapAt, ticks, stored, gap>>
      /\ \/ UNCHANGED <<orders, read, dirty>>
         \/ UNCHANGED <<orders, read>> /\ \E o \in DOMAIN orders : dirty' = dirty \union {o}
         \/ ReadTrades(FALSE)
  BY DEF QuoteFails, exchange, shadows, records
<1>0. rows \subseteq DOMAIN orders /\ dirty \subseteq DOMAIN orders
  BY DEF SessionInv, SessionType
<1>2. Moved /\ DOMAIN orders' = DOMAIN orders
  <2>1. CASE UNCHANGED <<orders, read>> /\ dirty' \subseteq DOMAIN orders
    BY <2>1, RecordsKept
  <2>2. CASE ReadTrades(FALSE)
    BY <2>2, ReadTradesMoves
  <2> QED
    BY <1>0, <1>1, <2>1, <2>2
<1>3. Saves
  <2>1. \A f \in fills : f.tick = seq
    BY DEF SessionInv, Reproduces
  <2> QED
    BY <1>1, <2>1 DEF Saves
<1>4. rows' \subseteq DOMAIN orders'
  BY <1>0, <1>1, <1>2
<1> QED
  BY <1>1, <1>2, <1>3, <1>4, MoveStep

\* The snapshot a session shows to its books, and the tick it saves.
LEMMA TickAgain ==
    ASSUME NEW os, NEW w, w \subseteq DOMAIN os, NEW s \in [at : Nat, book : Books], NEW n, NEW calibrated,
           NEW st
    PROVE  LET e == Evaluate(st.books, st.points, calibrated, s, w, os, n)
               r == ReplayTick(os, st, TickRecord(n, s, w), calibrated)
           IN  /\ r.books = BooksOfStep(e.step) /\ r.points = e.points
               /\ r.fills = st.fills \union FillsOfStep(e.step)
<1> DEFINE t == TickRecord(n, s, w)
           e == Evaluate(st.books, st.points, calibrated, s, w, os, n)
           r == ReplayTick(os, st, t, calibrated)
<1>1. t.seq = n /\ t.at = s.at /\ t.book = s.book /\ t.open = w
  BY DEF TickRecord
<1>2. [at |-> t.at, book |-> t.book] = s
  BY <1>1
<1>3. t.open \cap DOMAIN os = w
  BY <1>1
<1> HIDE DEF t
<1>4. r = [books |-> BooksOfStep(e.step), points |-> e.points,
           fills |-> st.fills \union FillsOfStep(e.step)]
  BY <1>1, <1>2, <1>3 DEF ReplayTick
<1> HIDE DEF e, r
<1>5. r.books = BooksOfStep(e.step) /\ r.points = e.points /\ r.fills = st.fills \union FillsOfStep(e.step)
  BY <1>4
<1> QED
  BY <1>5 DEF t, e, r

LEMMA FillsOfTick ==
    ASSUME NEW os, NEW st, NEW tick, NEW calibrated
    PROVE  LET r == ReplayTick(os, st, tick, calibrated)
           IN  /\ st.fills \subseteq r.fills
               /\ \A f \in r.fills : f \in st.fills \/ f.tick = tick.seq
<1> DEFINE r == ReplayTick(os, st, tick, calibrated)
           S(m) == StepOf(os, st, tick, calibrated, m)
<1>1. r.fills = st.fills \union UNION {S(m).fills : m \in DOMAIN st.books}
  BY ReplayTickFields
<1>2. \A m : \A f \in S(m).fills : f.tick = tick.seq
  BY FillsOfModel
<1> HIDE DEF S, r
<1>3. st.fills \subseteq r.fills /\ \A f \in r.fills : f \in st.fills \/ f.tick = tick.seq
  BY <1>1, <1>2
<1> QED
  BY <1>3 DEF r

\* One more tick of the recording.
LEMMA ReplayAppend ==
    ASSUME NEW os, NEW more, Keeps(os, more), NEW ts \in Seq(TickType), OpensIn(ts, os),
           NEW t \in TickType, NEW models, NEW calibrated
    PROVE  ReplayedTicks(more, Append(ts, t), models, calibrated)[Len(ts) + 1]
             = ReplayTick(more, ReplayedTicks(os, ts, models, calibrated)[Len(ts)], t, calibrated)
<1> DEFINE ls == Append(ts, t)
           A == ReplayedTicks(more, ls, models, calibrated)
           B == ReplayedTicks(os, ts, models, calibrated)
           N == Len(ts)
<1>1. ls \in Seq(TickType) /\ Len(ls) = N + 1 /\ N \in Nat /\ ls[N + 1] = t
      /\ \A i \in 1..N : ls[i] = ts[i]
  OBVIOUS
<1>2. Continues(ls, ts)
  BY <1>1 DEF Continues
<1> HIDE DEF ls
<1>3. Replays(A, more, ls, models, calibrated)
  BY <1>1, ReplayRec
<1>4. A[N] = B[N]
  <2>1. N \in 0..N
    BY <1>1
  <2> QED
    BY <1>1, <1>2, <2>1, SameReplay
<1> HIDE DEF A, B
<1>5. A[N + 1] = ReplayTick(more, A[(N + 1) - 1], ls[N + 1], calibrated) /\ (N + 1) - 1 = N
  BY <1>1, <1>3 DEF Replays
<1>6. A[N + 1] = ReplayTick(more, B[N], t, calibrated)
  BY <1>1, <1>4, <1>5
<1> QED
  BY <1>6 DEF A, B, ls

\* What both outcomes of EvaluateShadows share.
Evaluated(w) ==
    /\ pc = "synced"
    /\ ReadTrades(TRUE)
    /\ w = {o \in DOMAIN orders : InWindow(orders'[o], snap.at, lastSnapAt)}
    /\ seq' = seq + 1 /\ lastSnapAt' = snap.at
    /\ UNCHANGED <<now, trades, rows, stored, lost>>

LEMMA EvaluatedFacts ==
    ASSUME SessionInv, NEW w, Evaluated(w)
    PROVE  /\ snap \in [at : Nat, book : Books] /\ w \subseteq DOMAIN orders /\ fills = {}
           /\ Reads(orders, orders') /\ AllFit(orders', trades, Len(trades))
           /\ OrdersOK(orders') /\ DOMAIN orders' = DOMAIN orders /\ Keeps(orders, orders')
           /\ TradesOK(trades, orders') /\ Len(trades) \in Nat /\ OpensIn(ticks, orders')
           /\ ticks \in Seq(TickType) /\ TicksOK(ticks) /\ OpensIn(ticks, orders) /\ Len(ticks) \in Nat
           /\ now \in Nat /\ seq \in Nat /\ gap \in Int /\ lastSnapAt \in Int
           /\ lastSnapAt < snap.at /\ snap.at <= now /\ snap.at \in Nat
           /\ TickRecord(seq + 1, snap, w) \in TickType
           /\ read' = Len(trades) /\ dirty' \subseteq DOMAIN orders /\ rows' \subseteq DOMAIN orders
<1>r. orders' = ReadFills(orders) /\ read' = Len(trades)
  BY DEF Evaluated, ReadTrades
<1>1. /\ OrdersOK(orders) /\ TradesOK(trades, orders) /\ read \in 0..Len(trades)
      /\ AllFit(orders, trades, read) /\ TicksOK(ticks) /\ OpensIn(ticks, orders)
      /\ now \in Nat /\ seq \in Nat /\ gap \in Int /\ lastSnapAt \in Int
      /\ snap \in [at : Nat, book : Books] /\ lastSnapAt < snap.at /\ snap.at <= now
  BY DEF SessionInv, SessionType, InTime, Agrees, Evaluated
<1>2. Reads(orders, orders') /\ AllFit(orders', trades, Len(trades))
  BY <1>1, <1>r, ReadFillsFits
<1>3. OrdersOK(orders') /\ DOMAIN orders' = DOMAIN orders /\ Keeps(orders, orders')
  BY <1>2 DEF Reads
<1>4. TradesOK(trades, orders') /\ Len(trades) \in Nat /\ OpensIn(ticks, orders')
  BY <1>1, <1>3 DEF TradesOK, OpensIn
<1>5. ticks \in Seq(TickType) /\ Len(ticks) \in Nat
  BY <1>1, TicksInSeq
<1>6. fills = {}
  BY DEF SessionInv, Reproduces, Evaluated
<1>7. w \subseteq DOMAIN orders
  BY DEF Evaluated
<1>8. TickRecord(seq + 1, snap, w) \in TickType
  <2>1. \A o \in DOMAIN orders : o \in Nat
    BY <1>1, OrderFields
  <2>2. w \in OpenSets
    BY <1>7, <2>1 DEF OpenSets
  <2>3. seq + 1 \in Nat \ {0} /\ snap.at \in Nat /\ snap.book \in Books
    BY <1>1
  <2> QED
    BY <2>2, <2>3 DEF TickRecord, TickType
<1>9. dirty' \subseteq DOMAIN orders /\ rows' \subseteq DOMAIN orders
  <2>1. Moved
    BY ReadTradesMoves DEF Evaluated
  <2> QED
    BY <1>3, <2>1 DEF Moved, Evaluated, SessionInv, SessionType
<1> QED
  BY <1>1, <1>2, <1>3, <1>4, <1>5, <1>6, <1>7, <1>8, <1>9, <1>r

\* The tick could not be saved.
LEMMA UnsavedStep ==
    ASSUME SessionInv, NEW w, Evaluated(w), ticks' = ticks, fills' = {}, pc' = "idle",
           gap' = IF gap # None THEN gap ELSE seq + 1
    PROVE  SessionInv'
<1>1. /\ w \subseteq DOMAIN orders /\ fills = {} /\ AllFit(orders', trades, Len(trades))
      /\ OrdersOK(orders') /\ DOMAIN orders' = DOMAIN orders /\ Keeps(orders, orders')
      /\ TradesOK(trades, orders') /\ Len(trades) \in Nat /\ OpensIn(ticks, orders')
      /\ ticks \in Seq(TickType) /\ TicksOK(ticks) /\ OpensIn(ticks, orders) /\ Len(ticks) \in Nat
      /\ now \in Nat /\ seq \in Nat /\ gap \in Int /\ lastSnapAt \in Int
      /\ lastSnapAt < snap.at /\ snap.at <= now /\ snap.at \in Nat
      /\ read' = Len(trades) /\ dirty' \subseteq DOMAIN orders /\ rows' \subseteq DOMAIN orders
  BY EvaluatedFacts
<1>2. /\ seq' = seq + 1 /\ lastSnapAt' = snap.at
      /\ UNCHANGED <<now, trades, stored, lost>>
  BY DEF Evaluated
<1>3. None = -1 /\ gap' # None /\ gap' \in Int /\ (gap = None => gap' = seq + 1)
      /\ (gap # None => gap' = gap)
  BY <1>1 DEF None
<1>4. SessionType'
  BY <1>1, <1>2, <1>3 DEF SessionType
<1>t. \A i \in 1..Len(ticks) : ticks[i].at \in Nat /\ ticks[i].seq \in Nat
  <2>1. \A i \in 1..Len(ticks) : ticks[i] \in TickType
    BY <1>1
  <2> QED
    BY <2>1 DEF TickType
<1>5. InTime'
  <2>1. InTime
    BY DEF SessionInv
  <2>2. \A o \in DOMAIN orders' : orders'[o].acked <= now
    BY <1>1, <2>1 DEF InTime, Keeps
  <2>3. \A i \in 1..Len(ticks) : ticks[i].at <= snap.at /\ ticks[i].seq <= seq + 1
    <3>1. lastSnapAt \in Int /\ lastSnapAt < snap.at /\ snap.at \in Nat /\ seq \in Nat
      BY <1>1
    <3>2. \A i \in 1..Len(ticks) : ticks[i].at <= lastSnapAt /\ ticks[i].seq <= seq
      BY <2>1 DEF InTime
    <3> QED
      BY <1>t, <3>1, <3>2
  <2> QED
    BY <1>1, <1>2, <2>1, <2>2, <2>3 DEF InTime
<1>6. Unbroken' /\ Shown' /\ Agrees' /\ Capped'
  <2>1. gap' \in 1..(seq + 1)
    BY <1>1, <1>3 DEF SessionInv, Unbroken
  <2>2. Capped'
    BY <1>2 DEF SessionInv, Capped
  <2> QED
    BY <1>1, <1>2, <1>3, <2>1, <2>2 DEF Unbroken, Shown, Agrees
<1>7. Replayed' = Replayed
  <2>1. Continues(ticks, ticks) /\ Len(ticks) \in 0..Len(ticks)
    BY <1>1 DEF Continues
  <2>2. ReplayedTicks(orders', ticks, FillModels, Calibrated)[Len(ticks)]
          = ReplayedTicks(orders, ticks, FillModels, Calibrated)[Len(ticks)]
    BY <1>1, <2>1, SameReplay
  <2> QED
    BY <2>2 DEF Replayed
<1>8. Reproduces'
  <2>1. Reproduces /\ \A f : Before(f)' => Before(f)
    BY <1>3 DEF SessionInv, Before
  <2> QED
    BY <1>1, <1>2, <1>3, <1>7, <2>1 DEF Reproduces
<1> QED
  BY <1>4, <1>5, <1>6, <1>8 DEF SessionInv

\* The tick was saved.
LEMMA SavedStep ==
    ASSUME SessionInv, NEW w, Evaluated(w), pc' = "quoting", gap' = gap,
           ticks' = Append(ticks, TickRecord(seq + 1, snap, w)),
           NEW e, e = Evaluate(books, points, Calibrated, snap, w, orders', seq + 1),
           books' = BooksOfStep(e.step), points' = e.points, fills' = FillsOfStep(e.step)
    PROVE  SessionInv'
<1> DEFINE t == TickRecord(seq + 1, snap, w)
           N == Len(ticks)
<1>1. /\ snap \in [at : Nat, book : Books] /\ w \subseteq DOMAIN orders /\ fills = {}
      /\ Reads(orders, orders') /\ AllFit(orders', trades, Len(trades))
      /\ OrdersOK(orders') /\ DOMAIN orders' = DOMAIN orders /\ Keeps(orders, orders')
      /\ TradesOK(trades, orders') /\ Len(trades) \in Nat /\ OpensIn(ticks, orders')
      /\ ticks \in Seq(TickType) /\ TicksOK(ticks) /\ OpensIn(ticks, orders) /\ N \in Nat
      /\ now \in Nat /\ seq \in Nat /\ gap \in Int /\ lastSnapAt \in Int
      /\ lastSnapAt < snap.at /\ snap.at <= now /\ snap.at \in Nat
      /\ t \in TickType
      /\ read' = Len(trades) /\ dirty' \subseteq DOMAIN orders /\ rows' \subseteq DOMAIN orders
  BY EvaluatedFacts
<1>2. /\ seq' = seq + 1 /\ lastSnapAt' = snap.at
      /\ UNCHANGED <<now, trades, stored, lost>>
  BY DEF Evaluated
<1>3. t.seq = seq + 1 /\ t.at = snap.at /\ t.book = snap.book /\ t.open = w
  BY DEF TickRecord
<1>i. InTime /\ Unbroken /\ Shown /\ Reproduces
  BY DEF SessionInv
<1>a. ticks' = Append(ticks, t)
  OBVIOUS
<1> HIDE DEF t
<1>4. /\ ticks' \in Seq(TickType) /\ Len(ticks') = N + 1 /\ ticks'[N + 1] = t
      /\ \A i \in 1..N : ticks'[i] = ticks[i]
      /\ \A i \in 1..(N + 1) : i \in 1..N \/ i = N + 1
  BY <1>1, <1>a
<1>t. \A i \in 1..N : ticks[i].at \in Nat /\ ticks[i].seq \in Nat
                      /\ ticks[i].at <= lastSnapAt /\ ticks[i].seq <= seq
  <2>1. \A i \in 1..N : ticks[i] \in TickType
    BY <1>1
  <2> QED
    BY <1>i, <2>1 DEF TickType, InTime
<1>5. TicksOK(ticks')
  <2> SUFFICES ASSUME NEW i \in 1..(N + 1), NEW j \in 1..(N + 1), i < j
               PROVE  ticks'[i].seq < ticks'[j].seq
    BY <1>4 DEF TicksOK
  <2>1. i \in 1..N
    BY <1>1
  <2>2. CASE j \in 1..N
    BY <1>1, <1>4, <2>1, <2>2 DEF TicksOK
  <2>3. CASE j = N + 1
    BY <1>1, <1>3, <1>4, <1>t, <2>1, <2>3
  <2> QED
    BY <1>4, <2>2, <2>3
<1>6. OpensIn(ticks', orders')
  BY <1>1, <1>3, <1>4 DEF OpensIn
<1>7. SessionType'
  BY <1>1, <1>2, <1>5, <1>6 DEF SessionType
<1>8. InTime'
  <2>1. \A o \in DOMAIN orders' : orders'[o].acked <= now
    BY <1>1, <1>i DEF InTime, Keeps
  <2>2. \A i \in 1..(N + 1) : ticks'[i].at <= snap.at /\ ticks'[i].seq <= seq + 1
    BY <1>1, <1>3, <1>4, <1>t
  <2>3. ASSUME NEW i \in 1..(N + 1), NEW j \in 1..(N + 1), i < j
        PROVE  ticks'[i].at < ticks'[j].at
    <3>1. i \in 1..N
      BY <1>1, <2>3
    <3>2. CASE j \in 1..N
      BY <1>4, <1>i, <2>3, <3>1, <3>2 DEF InTime
    <3>3. CASE j = N + 1
      BY <1>1, <1>3, <1>4, <1>t, <3>1, <3>3
    <3> QED
      BY <1>4, <3>2, <3>3
  <2> QED
    BY <1>1, <1>2, <1>4, <1>i, <2>1, <2>2, <2>3 DEF InTime
<1>9. Unbroken'
  <2>1. LastAt(ticks') = snap.at
    BY <1>1, <1>3, <1>4 DEF LastAt
  <2> QED
    BY <1>1, <1>2, <1>4, <1>i, <2>1 DEF Unbroken
<1>10. Shown'
  <2> SUFFICES ASSUME gap = None, NEW o \in DOMAIN orders, NEW i \in 1..(N + 1),
                      Live(orders', ticks', o, i)
               PROVE  o \in ticks'[i].open
    BY <1>1, <1>2, <1>4 DEF Shown
  <2>1. CASE i \in 1..N
    <3>1. AtBefore(ticks', i) = AtBefore(ticks, i) /\ ticks'[i] = ticks[i]
      <4>1. i # 1 => i - 1 \in 1..N
        BY <1>1, <2>1
      <4> QED
        BY <1>4, <2>1, <4>1 DEF AtBefore
    <3>2. Live(orders, ticks, o, i)
      BY <1>1, <3>1 DEF Live, Reads, Keeps, FinalStates
    <3> QED
      BY <1>i, <2>1, <3>1, <3>2 DEF Shown
  <2>2. CASE i = N + 1
    <3>1. AtBefore(ticks', i) = lastSnapAt
      <4>1. lastSnapAt = LastAt(ticks)
        BY <1>i DEF Unbroken
      <4>2. CASE N = 0
        BY <2>2, <4>1, <4>2 DEF AtBefore, LastAt
      <4>3. CASE N # 0
        <5>1. i # 1 /\ i - 1 = N /\ N \in 1..N
          BY <1>1, <2>2, <4>3
        <5> QED
          BY <1>4, <4>1, <4>3, <5>1 DEF AtBefore, LastAt
      <4> QED
        BY <4>2, <4>3
    <3>2. /\ orders'[o].acked < snap.at
          /\ orders'[o].state = "filled" => lastSnapAt < orders'[o].ended
          /\ orders'[o].state = "cancelled" => snap.at < orders'[o].ended
      BY <1>3, <1>4, <2>2, <3>1 DEF Live
    <3>3. orders'[o] \in OrderType
      BY <1>1, OrderFields
    <3>4. orders'[o].acked \in Nat /\ orders'[o].state \in States /\ orders'[o].ended \in Int
      BY <3>3 DEF OrderType
    <3>6. InWindow(orders'[o], snap.at, lastSnapAt)
      BY <1>1, <3>2, <3>4 DEF InWindow, FinalStates
    <3>7. o \in w
      BY <3>6 DEF Evaluated
    <3> QED
      BY <1>3, <1>4, <2>2, <3>7
  <2> QED
    BY <1>4, <2>1, <2>2
<1>11. Agrees' /\ Capped'
  BY <1>1, <1>2 DEF SessionInv, Agrees, Capped
<1>12. Replayed' = ReplayTick(orders', Replayed, t, Calibrated)
  <2>1. ReplayedTicks(orders', Append(ticks, t), FillModels, Calibrated)[N + 1]
          = ReplayTick(orders', ReplayedTicks(orders, ticks, FillModels, Calibrated)[N], t, Calibrated)
    BY <1>1, ReplayAppend
  <2> QED
    BY <1>4, <1>a, <2>1 DEF Replayed
<1>13. \A f \in fills' : f.tick = seq + 1
  <2> DEFINE st == [books |-> books, points |-> points, fills |-> {}]
             r == ReplayTick(orders', st, t, Calibrated)
  <2>1. st.books = books /\ st.points = points /\ st.fills = {}
    OBVIOUS
  <2>2. r.fills = st.fills \union FillsOfStep(Evaluate(st.books, st.points, Calibrated, snap, w,
                                                       orders', seq + 1).step)
    BY <1>1, TickAgain DEF t
  <2>3. \A f \in r.fills : f \in st.fills \/ f.tick = t.seq
    BY FillsOfTick
  <2> QED
    BY <1>3, <2>1, <2>2, <2>3
<1>14. /\ Replayed.fills \subseteq Replayed'.fills
       /\ \A f \in Replayed'.fills : f \in Replayed.fills \/ f.tick = seq + 1
  BY <1>3, <1>12, FillsOfTick
<1>15. ASSUME gap = None
       PROVE  /\ Replayed'.books = books' /\ Replayed'.points = points'
              /\ Replayed'.fills = Replayed.fills \union fills'
  <2>1. Replayed.books = books /\ Replayed.points = points
    BY <1>15, <1>i DEF Reproduces
  <2> DEFINE st == Replayed
             r == ReplayTick(orders', st, t, Calibrated)
             d == Evaluate(st.books, st.points, Calibrated, snap, w, orders', seq + 1)
  <2>2. d = e
    BY <2>1
  <2> HIDE DEF st
  <2>3. /\ r.books = BooksOfStep(d.step) /\ r.points = d.points
        /\ r.fills = st.fills \union FillsOfStep(d.step)
    BY <1>1, TickAgain DEF t
  <2> HIDE DEF d, r
  <2>4. Replayed' = r
    BY <1>12 DEF r, st
  <2> QED
    BY <2>2, <2>3, <2>4 DEF st
<1>16. Reproduces'
  <2>1. CASE gap = None
    BY <1>1, <1>2, <1>13, <1>15, <1>i, <2>1 DEF Reproduces, Before
  <2>2. CASE gap # None
    <3>1. gap <= seq
      BY <1>1, <1>i, <2>2 DEF Unbroken
    <3>2. \A f : f.tick = seq + 1 => ~(f.tick < gap)
      BY <1>1, <3>1
    <3> QED
      BY <1>1, <1>2, <1>13, <1>14, <1>i, <2>2, <3>2 DEF Reproduces, Before
  <2> QED
    BY <2>1, <2>2
<1> QED
  BY <1>7, <1>8, <1>9, <1>10, <1>11, <1>16 DEF SessionInv

LEMMA EvaluateStep == ASSUME SessionInv, NEW ok \in BOOLEAN, EvaluateShadows(ok) PROVE SessionInv'
<1> DEFINE w == {o \in DOMAIN orders : InWindow(orders'[o], snap.at, lastSnapAt)}
           e == Evaluate(books, points, Calibrated, snap, w, orders', seq + 1)
<1>1. Evaluated(w)
  BY DEF EvaluateShadows, Evaluated, exchange
<1>2. ShowShadows(orders', w, ok)
  BY DEF EvaluateShadows
<1>3. /\ books' = BooksOfStep(e.step) /\ points' = e.points
      /\ fills' = IF ok THEN FillsOfStep(e.step) ELSE {}
      /\ ticks' = IF ok THEN Append(ticks, TickRecord(seq + 1, snap, w)) ELSE ticks
  BY <1>2 DEF ShowShadows, Recorded
<1>4. pc' = (IF ok THEN "quoting" ELSE "idle") /\ gap' = IF ok \/ gap # None THEN gap ELSE seq + 1
  BY DEF EvaluateShadows
<1>e. e = Evaluate(books, points, Calibrated, snap, w, orders', seq + 1)
  OBVIOUS
<1> HIDE DEF w, e
<1>5. CASE ok
  BY <1>1, <1>3, <1>4, <1>5, <1>e, SavedStep
<1>6. CASE ~ok
  BY <1>1, <1>3, <1>4, <1>6, UnsavedStep
<1> QED
  BY <1>5, <1>6

LEMMA SessionStep == ASSUME SessionInv, [Next]_vars PROVE SessionInv'
<1>1. CASE Advance
  BY <1>1, AdvanceStep
<1>2. CASE \E o \in DOMAIN orders, size \in 1..OrderSize : Trade(o, size)
  BY <1>2, TradeStep
<1>3. CASE \E book \in Books : Snapshot(book)
  BY <1>3, SnapshotStep
<1>4. CASE SyncFails \/ QuoteFails \/ \E ok \in BOOLEAN : SaveShadowFills(ok)
  BY <1>4, SyncFailsStep, QuoteFailsStep, SaveStep
<1>5. CASE \E ok \in BOOLEAN : EvaluateShadows(ok)
  BY <1>5, EvaluateStep
<1>6. CASE \E o \in DOMAIN orders : Cancel(o)
  BY <1>6, CancelStep
<1>7. CASE \E side \in {"bid", "ask"} : \E price \in Prices[side] : Place(side, price)
  BY <1>7, PlaceStep
<1>8. CASE Pause \/ Stop
  BY <1>8, PauseStopStep
<1>9. CASE UNCHANGED vars
  <2>1. UNCHANGED <<now, orders, trades, read, dirty, rows, pc, snap, books, points, seq, lastSnapAt,
                    fills, ticks, stored, lost, gap>>
    BY <1>9 DEF vars
  <2>2. SessionType' /\ InTime' /\ Unbroken' /\ Shown' /\ Agrees' /\ Capped'
    BY <2>1 DEF SessionInv, SessionType, InTime, Unbroken, Shown, Agrees, Capped
  <2>3. Reproduces'
    BY <2>1 DEF SessionInv, Reproduces, Replayed, Before
  <2> QED
    BY <2>2, <2>3 DEF SessionInv
<1> QED
  BY <1>1, <1>2, <1>3, <1>4, <1>5, <1>6, <1>7, <1>8, <1>9 DEF Next

\* The records of a session agree with the exchange and with its recording, whatever the
\* interleaving of trades, snapshots, orders and failed calls (TestnetTrader._iterate).
THEOREM SessionInvariant == Spec => []SessionInv
<1>1. Init => SessionInv
  BY SessionStart
<1>2. SessionInv /\ [Next]_vars => SessionInv'
  BY SessionStep
<1> QED
  BY <1>1, <1>2, PTL DEF Spec

\* Whatever the session recorded, a stricter fill model never fills more of an order than a
\* looser one, and none more than the order (fill_model.detect_fills, comparison.compare).
THEOREM SessionModelsAreOrdered == Spec => []ModelsAreOrdered
<1>1. SessionInv => ModelsAreOrdered
  BY OrderedInState DEF SessionInv, SessionType
<1> QED
  BY <1>1, SessionInvariant, PTL

\* Replaying the recording gives the stored fills of every model, and completes a recording
\* made without the calibrated one, but for ticks that could not be saved, fills lost with the
\* iteration that made them, and orders whose row never was (replay.py).
THEOREM SessionReplayReproduces == Spec => []ReplayReproduces
<1>1. ASSUME SessionInv PROVE ReplayReproduces
  <2> DEFINE C == "calibrated"
             only == {C}
             R == ReplayShadows(FillModels, Calibrated)
             P == ReplayShadows(only, Calibrated)
             Q == ReplayedTicks(orders, ticks, only, Calibrated)[Len(ticks)]
  <2> SUFFICES ASSUME pc = "stopped",
                      NEW recorded \in {stored, CompleteRecording(LegacyShadowModels)},
                      NEW f \in ReplayMismatches(recorded)
               PROVE  f.tick \in lost \/ (gap # None /\ f.tick >= gap) \/ f.order \notin rows
    BY DEF ReplayReproduces
  <2>0. OrdersOK(orders) /\ ticks \in Seq(TickType) /\ rows \subseteq DOMAIN orders
    BY <1>1, TicksInSeq DEF SessionInv, SessionType
  <2>1. Reproduces /\ fills = {} /\ \A x : x \in R <=> x \in Replayed.fills /\ x.order \in rows
    BY <1>1, <2>0, ReplayOfRows DEF SessionInv, Reproduces, Replayed
  <2>2. Alone(Replayed, Q, C)
    <3>1. C \in FillModels /\ only = {C}
      BY DEF FillModels
    <3> HIDE DEF only, C
    <3> QED
      BY <2>0, <3>1, AloneAll DEF Replayed
  <2>3. \A x : x \in P <=> x \in R /\ x.model = C
    <3>1. \A x : x \in P <=> x \in Q.fills /\ x.order \in rows
      <4> HIDE DEF only
      <4> QED
        BY <2>0, ReplayOfRows
    <3>2. \A x : x \in Q.fills <=> x \in Replayed.fills /\ x.model = C
      BY <2>2 DEF Alone
    <3> HIDE DEF P, Q, R, C
    <3> QED
      BY <2>1, <3>1, <3>2
  <2>4. CompleteRecording(LegacyShadowModels) = {x \in stored : x.model \in LegacyShadowModels} \union P
    <3>1. FillModels \ LegacyShadowModels = only
      BY DEF FillModels, LegacyShadowModels
    <3> QED
      BY <3>1 DEF CompleteRecording
  <2>5. \A x \in R : x.model \in FillModels
    <3>1. DOMAIN Replayed.books = FillModels
      <4>1. Len(ticks) \in 0..Len(ticks) /\ OrdersOK(orders) /\ TicksOK(ticks)
        BY <1>1, TicksInSeq DEF SessionInv, SessionType
      <4> QED
        BY <4>1, TallyAll DEF Replayed
    <3> QED
      BY <2>1, <2>2, <3>1 DEF Alone
  <2>6. (f \in recorded /\ f \notin R) \/ (f \in R /\ f \notin recorded)
    BY DEF ReplayMismatches
  <2>7. ~Before(f) \/ f.tick \in lost \/ f.order \notin rows
    <3>1. \A x \in stored : Before(x) /\ x.order \in rows => x \in R
      BY <2>1 DEF Reproduces
    <3>2. \A x \in R : Before(x) => x \in stored \/ x.tick \in lost
      BY <2>1 DEF Reproduces
    <3>3. FillModels = LegacyShadowModels \union {C}
      BY DEF FillModels, LegacyShadowModels
    <3> HIDE DEF R, P, C
    <3>4. CASE recorded = stored
      BY <2>6, <3>1, <3>2, <3>4
    <3>5. CASE recorded = CompleteRecording(LegacyShadowModels)
      BY <2>3, <2>4, <2>5, <2>6, <3>1, <3>2, <3>3, <3>5
    <3> QED
      BY <3>4, <3>5
  <2> QED
    <3>1. gap \in Int /\ (~Before(f) => gap # None /\ ~(f.tick < gap))
      BY <1>1 DEF SessionInv, SessionType, Before
    <3>2. f.tick \in Nat
      <4>1. \A x \in stored : x.tick \in Nat
        BY <2>1 DEF Reproduces
      <4>2. \A x \in R : x.tick \in Nat
        <5>1. Len(ticks) \in 0..Len(ticks) /\ OrdersOK(orders) /\ TicksOK(ticks)
          BY <1>1, TicksInSeq DEF SessionInv, SessionType
        <5>2. Tally(Replayed, orders, LastSeq(ticks, Len(ticks)))
          BY <5>1, TallyAll DEF Replayed
        <5> QED
          BY <2>1, <5>2 DEF Tally
      <4>3. f \in stored \/ f \in R
        BY <2>3, <2>4, <2>6
      <4> QED
        BY <4>1, <4>2, <4>3
    <3> QED
      BY <2>7, <3>1, <3>2
<1> QED
  BY <1>1, SessionInvariant, PTL

-----------------------------------------------------------------------------
(* A real fill is the event of exactly one look *)

Looks(E) ==
    /\ E[0] = [last |-> [o \in rows |-> None], looks |-> {}]
    /\ \A n \in 0..Len(ticks) : n < Len(ticks) => E[n + 1] = EvaluateTick(E[n], ticks[n + 1])

LEMMA LooksRec == ASSUME Len(ticks) \in Nat PROVE Looks(EvaluatedTicks)
<1> DEFINE N == Len(ticks)
           Next1(r, n) == EvaluateTick(r, ticks[n])
           start == [last |-> [o \in rows |-> None], looks |-> {}]
           Good == {m \in 0..N : \E g : g = [n \in 0..m |-> IF n = 0 THEN start
                                                            ELSE Next1(g[n - 1], n)]}
           R == CHOOSE g : g = [n \in 0..N |-> IF n = 0 THEN start ELSE Next1(g[n - 1], n)]
<1>1. N \in Nat
  OBVIOUS
<1>2. EvaluatedTicks = R
  BY DEF EvaluatedTicks
<1> HIDE DEF N, Next1, start
<1>3. 0 \in Good
  <2> DEFINE h == [n \in 0..0 |-> start]
  <2>1. h = [n \in 0..0 |-> IF n = 0 THEN start ELSE Next1(h[n - 1], n)]
    OBVIOUS
  <2> HIDE DEF h
  <2> QED
    BY <1>1, <2>1
<1>4. ASSUME NEW m \in 0..N, m \in Good, m < N PROVE m + 1 \in Good
  <2>1. PICK g : g = [n \in 0..m |-> IF n = 0 THEN start ELSE Next1(g[n - 1], n)]
    BY <1>4
  <2> DEFINE h == [n \in 0..(m + 1) |-> IF n = m + 1 THEN Next1(g[m], m + 1) ELSE g[n]]
  <2>2. ASSUME NEW n \in 0..(m + 1)
        PROVE  h[n] = IF n = 0 THEN start ELSE Next1(h[n - 1], n)
    <3>1. CASE n = m + 1
      <4>1. h[m] = g[m]
        BY <1>1
      <4>2. h[n] = Next1(g[m], n) /\ n # 0 /\ n - 1 = m
        BY <1>1, <3>1
      <4> HIDE DEF h
      <4> QED
        BY <4>1, <4>2
    <3>2. CASE n # m + 1 /\ n # 0
      <4>1. n \in 0..m /\ n - 1 \in 0..m /\ n - 1 # m + 1 /\ n - 1 \in 0..(m + 1)
        BY <1>1, <3>2
      <4>2. h[n] = g[n] /\ h[n - 1] = g[n - 1]
        BY <3>2, <4>1
      <4>3. g[n] = Next1(g[n - 1], n)
        BY <2>1, <3>2, <4>1
      <4> HIDE DEF h
      <4> QED
        BY <3>2, <4>2, <4>3
    <3>3. CASE n # m + 1 /\ n = 0
      <4>1. n \in 0..m
        BY <1>1, <3>3
      <4>2. h[n] = g[n] /\ g[n] = start
        BY <2>1, <3>3, <4>1
      <4> HIDE DEF h
      <4> QED
        BY <3>3, <4>2
    <3> QED
      BY <3>1, <3>2, <3>3
  <2>3. h = [n \in 0..(m + 1) |-> IF n = 0 THEN start ELSE Next1(h[n - 1], n)]
    BY <2>2
  <2>4. m + 1 \in 0..N
    BY <1>1, <1>4
  <2> HIDE DEF h
  <2> QED
    BY <2>3, <2>4
<1>5. N \in Good
  <2>1. 0..N \subseteq Good
    <3> HIDE DEF Good
    <3>1. 0 \in Int /\ N \in Int
      BY <1>1
    <3> QED
      BY <1>3, <1>4, <3>1, UpTo
  <2> HIDE DEF Good
  <2> QED
    BY <1>1, <2>1
<1>6. R = [n \in 0..N |-> IF n = 0 THEN start ELSE Next1(R[n - 1], n)]
  BY <1>5
<1> HIDE DEF R
<1>7. R[0] = start
  BY <1>1, <1>6
<1>8. ASSUME NEW n \in 0..N, n < N PROVE R[n + 1] = Next1(R[n], n + 1)
  <2>1. n + 1 \in 0..N /\ n + 1 # 0 /\ (n + 1) - 1 = n
    BY <1>1, <1>8
  <2>2. R[n + 1] = Next1(R[(n + 1) - 1], n + 1)
    BY <1>6, <2>1
  <2> QED
    BY <2>1, <2>2
<1> QED
  BY <1>2, <1>7, <1>8 DEF Looks, Next1, N, start

\* A tick as evaluations sees it.
LookedAt(st, tick, o) ==
    LET r == EvaluateTick(st, tick)
        since == IF st.last[o] = None THEN orders[o].acked ELSE st.last[o]
        l == LookAt(st, tick, o)
    IN  /\ DOMAIN r.last = DOMAIN st.last
        /\ l.order = o /\ l.tick = tick.seq /\ l.event = Event(FirstFill(o), since, tick.at)
        /\ ~(TwoSided(tick.book) /\ o \in tick.open) =>
             /\ r.last[o] = st.last[o]
             /\ \A x \in r.looks : x.order = o => x \in st.looks
             /\ st.looks \subseteq r.looks
        /\ TwoSided(tick.book) /\ o \in tick.open =>
             /\ r.last[o] = tick.at /\ l \in r.looks
             /\ \A x \in r.looks : x.order = o => x \in st.looks \/ x = l
             /\ st.looks \subseteq r.looks

LEMMA LookFields ==
    ASSUME NEW st, NEW tick, NEW o \in rows, DOMAIN st.last = rows
    PROVE  LookedAt(st, tick, o)
<1> DEFINE r == EvaluateTick(st, tick)
           l == LookAt(st, tick, o)
           L(x) == LookAt(st, tick, x)
           new == [x \in DOMAIN st.last |-> IF x \in tick.open THEN tick.at ELSE st.last[x]]
           all == st.looks \union {L(x) : x \in tick.open \cap rows}
           since == IF st.last[o] = None THEN orders[o].acked ELSE st.last[o]
<1>1. l.order = o /\ l.tick = tick.seq /\ l.event = Event(FirstFill(o), since, tick.at)
  BY DEF LookAt
<1>2. \A x : L(x).order = x
  BY DEF LookAt
<1> HIDE DEF since
<1>3. CASE ~TwoSided(tick.book)
  <2>1. r = st
    BY <1>3 DEF EvaluateTick
  <2> QED
    BY <1>1, <1>3, <2>1 DEF since, LookedAt
<1>4. CASE TwoSided(tick.book)
  <2>1. r = [last |-> new, looks |-> all]
    BY <1>4 DEF EvaluateTick
  <2>2. DOMAIN new = DOMAIN st.last /\ new[o] = IF o \in tick.open THEN tick.at ELSE st.last[o]
    OBVIOUS
  <2>3. l = L(o)
    OBVIOUS
  <2> HIDE DEF new, all, r, L, l
  <2>4. r.last = new /\ r.looks = all
    BY <2>1
  <2>5. st.looks \subseteq all /\ \A x \in all : x \in st.looks \/ \E y \in tick.open \cap rows : x = L(y)
    BY DEF all
  <2>6. \A x \in all : x.order = o => x \in st.looks \/ (o \in tick.open /\ x = l)
    BY <1>2, <2>3, <2>5
  <2>7. o \in tick.open => l \in all
    BY <2>3 DEF all
  <2> QED
    BY <1>1, <1>4, <2>2, <2>4, <2>5, <2>6, <2>7 DEF r, l, since, LookedAt
<1> QED
  BY <1>3, <1>4

\* Tick k is the first at or after the first real fill of the order, and was looked at.
Labels(o, k) ==
    LET first == FirstFill(o)
    IN  /\ o \in rows /\ k \in 1..Len(ticks) /\ Len(ticks) \in Nat
        /\ first \in Nat /\ orders[o].acked \in Nat /\ orders[o].acked < first
        /\ \A i \in 1..Len(ticks) : ticks[i].at \in Nat
        /\ \A i \in 1..Len(ticks) : i < k => ticks[i].at < first
        /\ \A i \in 1..Len(ticks) : k <= i => first <= ticks[i].at
        /\ TwoSided(ticks[k].book) /\ o \in ticks[k].open

FillLook(l, o) == l.order = o /\ l.event = "fill"

\* The looks after n ticks.
LooksSoFar(st, o, k, n) ==
    /\ DOMAIN st.last = rows /\ st.last[o] \in Int
    /\ n < k => st.last[o] < FirstFill(o) /\ \A l \in st.looks : ~FillLook(l, o)
    /\ k <= n => /\ FirstFill(o) <= st.last[o]
                 /\ \E l \in st.looks : FillLook(l, o)
                 /\ \A l \in st.looks : FillLook(l, o) => l.tick = ticks[k].seq

LEMMA LooksNext ==
    ASSUME NEW o, NEW k, Labels(o, k), NEW n \in 0..Len(ticks), n < Len(ticks), NEW st,
           LooksSoFar(st, o, k, n)
    PROVE  LooksSoFar(EvaluateTick(st, ticks[n + 1]), o, k, n + 1)
<1> DEFINE tick == ticks[n + 1]
           r == EvaluateTick(st, tick)
           l == LookAt(st, tick, o)
           since == IF st.last[o] = None THEN orders[o].acked ELSE st.last[o]
           first == FirstFill(o)
           see == TwoSided(tick.book) /\ o \in tick.open
<1>1. /\ o \in rows /\ k \in 1..Len(ticks) /\ Len(ticks) \in Nat
      /\ first \in Nat /\ orders[o].acked \in Nat /\ orders[o].acked < first
      /\ TwoSided(ticks[k].book) /\ o \in ticks[k].open
  BY DEF Labels
<1>2. n + 1 \in 1..Len(ticks) /\ n \in Nat
  BY <1>1
<1>3. /\ tick.at \in Nat /\ (n + 1 < k => tick.at < first) /\ (k <= n + 1 => first <= tick.at)
  BY <1>2 DEF Labels
<1>4. DOMAIN st.last = rows /\ st.last[o] \in Int
  BY DEF LooksSoFar
<1>5. LookedAt(st, tick, o)
  BY <1>1, <1>4, LookFields
<1>6. /\ DOMAIN r.last = rows
      /\ l.order = o /\ l.tick = tick.seq /\ l.event = Event(first, since, tick.at)
      /\ st.looks \subseteq r.looks
      /\ ~see => r.last[o] = st.last[o] /\ \A x \in r.looks : x.order = o => x \in st.looks
      /\ see => /\ r.last[o] = tick.at /\ l \in r.looks
                /\ \A x \in r.looks : x.order = o => x \in st.looks \/ x = l
  BY <1>4, <1>5 DEF LookedAt
<1>7. r.last[o] \in Int
  BY <1>3, <1>4, <1>6
<1>8. since \in Int /\ None = -1
  BY <1>1, <1>4 DEF None
<1>9. n < k => since < first
  BY <1>1, <1>4 DEF LooksSoFar
<1>10. k <= n => since = st.last[o] /\ first <= since
  BY <1>1, <1>4, <1>8 DEF LooksSoFar
<1>11. /\ first <= since => l.event = "after"
       /\ since < first /\ first <= tick.at => l.event = "fill"
       /\ since < first /\ tick.at < first => l.event = "none"
  BY <1>1, <1>3, <1>6, <1>8 DEF Event
<1> HIDE DEF tick, r, l, since, first
<1>12. CASE n + 1 < k
  <2>1. n < k /\ st.last[o] < first /\ \A x \in st.looks : ~FillLook(x, o)
    BY <1>1, <1>2, <1>12 DEF LooksSoFar, first
  <2>2. l.event # "fill"
    BY <1>3, <1>9, <1>11, <1>12, <2>1
  <2>3. r.last[o] < first
    BY <1>3, <1>6, <1>12, <2>1
  <2>4. \A x \in r.looks : ~FillLook(x, o)
    BY <1>6, <2>1, <2>2 DEF FillLook
  <2>5. ~(k <= n + 1)
    BY <1>1, <1>2, <1>12
  <2>6. LooksSoFar(r, o, k, n + 1)
    BY <1>6, <1>7, <2>3, <2>4, <2>5 DEF LooksSoFar, first
  <2> QED
    BY <2>6 DEF r, tick
<1>13. CASE n + 1 = k
  <2>1. n < k /\ st.last[o] < first /\ \A x \in st.looks : ~FillLook(x, o)
    BY <1>1, <1>2, <1>13 DEF LooksSoFar, first
  <2>2. see
    BY <1>1, <1>13 DEF tick
  <2>3. l.event = "fill" /\ l \in r.looks
    BY <1>1, <1>2, <1>3, <1>6, <1>9, <1>11, <1>13, <2>1, <2>2
  <2>4. FillLook(l, o) /\ \A x \in r.looks : FillLook(x, o) => x = l
    BY <1>6, <2>1, <2>2, <2>3 DEF FillLook
  <2>5. first <= r.last[o] /\ ~(n + 1 < k)
    BY <1>1, <1>2, <1>3, <1>6, <1>13, <2>2
  <2>6. l.tick = ticks[k].seq
    BY <1>6, <1>13 DEF tick
  <2>7. LooksSoFar(r, o, k, n + 1)
    BY <1>6, <1>7, <2>3, <2>4, <2>5, <2>6 DEF LooksSoFar, first
  <2> QED
    BY <2>7 DEF r, tick
<1>14. CASE k < n + 1
  <2>1. k <= n /\ first <= st.last[o]
        /\ (\E x \in st.looks : FillLook(x, o))
        /\ \A x \in st.looks : FillLook(x, o) => x.tick = ticks[k].seq
    BY <1>1, <1>2, <1>14 DEF LooksSoFar, first
  <2>2. l.event # "fill"
    BY <1>10, <1>11, <2>1
  <2>3. first <= r.last[o] /\ ~(n + 1 < k)
    BY <1>1, <1>2, <1>3, <1>6, <1>14, <2>1
  <2>4. \A x \in r.looks : FillLook(x, o) => x \in st.looks
    BY <1>6, <2>2 DEF FillLook
  <2>5. LooksSoFar(r, o, k, n + 1)
    BY <1>6, <1>7, <2>1, <2>3, <2>4 DEF LooksSoFar, first
  <2> QED
    BY <2>5 DEF r, tick
<1> QED
  BY <1>1, <1>2, <1>12, <1>13, <1>14

LEMMA OneFillLook ==
    ASSUME NEW o, NEW k, Labels(o, k)
    PROVE  {l.tick : l \in {x \in Evaluations : x.order = o /\ x.event = "fill"}} = {ticks[k].seq}
<1> DEFINE E == EvaluatedTicks
           N == Len(ticks)
           Good == {n \in 0..N : LooksSoFar(E[n], o, k, n)}
<1>1. N \in Nat /\ k \in 1..N /\ o \in rows /\ FirstFill(o) \in Nat
  BY DEF Labels
<1>2. Looks(E)
  BY <1>1, LooksRec
<1> HIDE DEF E
<1>3. 0 \in Good
  <2> DEFINE last == [x \in rows |-> None]
  <2>1. E[0] = [last |-> last, looks |-> {}]
    BY <1>2 DEF Looks
  <2>2. DOMAIN last = rows /\ last[o] = -1
    BY <1>1 DEF None
  <2> HIDE DEF last
  <2>3. E[0].last = last /\ E[0].looks = {}
    BY <2>1
  <2>4. 0 \in 0..N /\ 0 < k /\ ~(k <= 0) /\ -1 < FirstFill(o) /\ -1 \in Int
    BY <1>1
  <2> QED
    BY <2>2, <2>3, <2>4 DEF LooksSoFar
<1>4. ASSUME NEW n \in 0..N, n \in Good, n < N PROVE n + 1 \in Good
  <2>1. E[n + 1] = EvaluateTick(E[n], ticks[n + 1])
    BY <1>2, <1>4 DEF Looks
  <2>2. LooksSoFar(E[n], o, k, n)
    BY <1>4
  <2>3. LooksSoFar(E[n + 1], o, k, n + 1)
    BY <1>4, <2>1, <2>2, LooksNext
  <2>4. n + 1 \in 0..N
    BY <1>1, <1>4
  <2> QED
    BY <2>3, <2>4
<1>5. 0..N \subseteq Good
  <2> HIDE DEF Good, N
  <2>1. 0 \in Int /\ N \in Int
    BY <1>1
  <2> QED
    BY <1>3, <1>4, <2>1, UpTo
<1>6. LooksSoFar(E[N], o, k, N) /\ k <= N
  BY <1>1, <1>5
<1>7. Evaluations = E[N].looks
  BY DEF Evaluations, E
<1>8. /\ \E l \in Evaluations : FillLook(l, o)
      /\ \A l \in Evaluations : FillLook(l, o) => l.tick = ticks[k].seq
  BY <1>6, <1>7 DEF LooksSoFar
<1> QED
  BY <1>8 DEF FillLook

\* The first recorded fill is that of a trade.
LEMMA FirstFillIs ==
    ASSUME SessionInv, NEW o, FirstFill(o) # None
    PROVE  /\ FirstFill(o) \in Nat
           /\ \E j \in 1..read : trades[j].order = o /\ FirstFill(o) = trades[j].at
<1> DEFINE I == RecordedFills(o)
           S == {trades[i].at : i \in I}
<1>1. trades \in Seq(TradeType) /\ read \in 0..Len(trades) /\ Len(trades) \in Nat
  BY DEF SessionInv, SessionType, TradesOK
<1>2. \A i \in 1..Len(trades) : trades[i].at \in Nat
  <2>1. \A i \in 1..Len(trades) : trades[i] \in TradeType
    BY <1>1
  <2> QED
    BY <2>1 DEF TradeType
<1>3. I # {} /\ FirstFill(o) = Min(S)
  BY DEF FirstFill
<1>4. \A i \in I : i \in 1..read /\ i \in 1..Len(trades) /\ trades[i].order = o
  BY <1>1 DEF RecordedFills
<1>5. S \in SUBSET Nat /\ S # {}
  BY <1>2, <1>3, <1>4
<1>6. \E x \in S : \A y \in S : x <= y
  <2> HIDE DEF S
  <2> QED
    BY <1>5, LeastNatural
<1>7. Min(S) \in S
  <2> HIDE DEF S
  <2> QED
    BY <1>6 DEF Min
<1> HIDE DEF S
<1>8. PICK j \in I : FirstFill(o) = trades[j].at
  BY <1>3, <1>7 DEF S
<1> QED
  BY <1>2, <1>4, <1>8

\* An order that filled did so with its last trade.
LEMMA FilledLast ==
    ASSUME SessionInv, NEW o \in DOMAIN orders, orders[o].state = "filled",
           NEW j \in 1..read, trades[j].order = o
    PROVE  trades[j].at <= orders[o].ended
<1>1. trades \in Seq(TradeType) /\ read \in 0..Len(trades) /\ Len(trades) \in Nat
      /\ OrderFits(orders[o], trades, read, o) /\ InTime
      /\ TradedTo(trades, Len(trades), o) <= OrderSize
  BY DEF SessionInv, SessionType, TradesOK, Agrees, AllFit, Capped
<1>2. PICK i \in 1..read : /\ orders[o].ended = trades[i].at /\ TradedTo(trades, i, o) >= OrderSize
  BY <1>1 DEF OrderFits
<1>3. i \in 1..Len(trades) /\ j \in 1..Len(trades)
  BY <1>1
<1>4. \A k \in 1..Len(trades) : trades[k].at \in Nat
  <2>1. \A k \in 1..Len(trades) : trades[k] \in TradeType
    BY <1>1
  <2> QED
    BY <2>1 DEF TradeType
<1>5. ~(i < j)
  <2> SUFFICES ASSUME i < j PROVE FALSE
    OBVIOUS
  <2> DEFINE X(k) == TradedTo(trades, k, o)
  <2>1. j - 1 \in 0..Len(trades) /\ j - 1 < Len(trades) /\ (j - 1) + 1 = j /\ j - 1 \in i..Len(trades)
        /\ j \in 0..Len(trades) /\ i \in 0..Len(trades)
    BY <1>1, <1>3
  <2>2. X(j) = X(j - 1) + trades[j].size /\ X(j - 1) \in Int
    <3>1. X((j - 1) + 1) = X(j - 1) + (IF trades[(j - 1) + 1].order = o THEN trades[(j - 1) + 1].size ELSE 0)
          /\ X(j - 1) \in Int
      BY <1>1, <2>1, TradedNext
    <3> QED
      BY <2>1, <3>1
  <2>3. X(i) <= X(j - 1) /\ X(j) <= X(Len(trades))
    BY <1>1, <2>1, TradedGrows
  <2>4. trades[j].size \in Nat \ {0}
    BY <1>1, <1>3, SizesFit
  <2>5. OrderSize \in Nat /\ X(i) \in Int /\ X(j) \in Int /\ X(Len(trades)) \in Int
    <3>1. Len(trades) \in 0..Len(trades)
      BY <1>1
    <3> QED
      BY <1>1, <2>1, <3>1, TradedInt, SizesAssumption
  <2>6. X(i) >= OrderSize /\ X(Len(trades)) <= OrderSize
    BY <1>1, <1>2
  <2> HIDE DEF X
  <2> QED
    BY <2>2, <2>3, <2>4, <2>5, <2>6
<1>6. i = j \/ j < i
  BY <1>3, <1>5
<1> QED
  BY <1>1, <1>2, <1>3, <1>4, <1>6 DEF InTime

\* The first snapshot at or after an order's first recorded fill is the only one that labels
\* it, if it was recorded with both sides while the order was open, whichever other fills and
\* orders could not be saved (replay.evaluations).
THEOREM SessionFillsAreLabelled == Spec => []FillsAreLabelled
<1>1. ASSUME SessionInv PROVE FillsAreLabelled
  <2> DEFINE First(o) == FirstFill(o)
             Later(o) == TicksFrom(First(o))
             Tick(o) == FirstTick(Later(o))
  <2> SUFFICES ASSUME gap = None, NEW o \in rows, First(o) > orders[o].acked, Later(o) # {},
                      TwoSided(Tick(o).book),
                      orders[o].state = "filled" \/ orders[o].ended > Tick(o).at
               PROVE  {l.tick : l \in {x \in Evaluations : x.order = o /\ x.event = "fill"}}
                        = {Tick(o).seq}
    BY DEF FillsAreLabelled
  <2>1. OrdersOK(orders) /\ TicksOK(ticks) /\ InTime /\ Shown /\ ticks \in Seq(TickType)
        /\ Len(ticks) \in Nat /\ o \in DOMAIN orders
    BY <1>1, TicksInSeq DEF SessionInv, SessionType
  <2>2. orders[o].acked \in Nat /\ orders[o].ended \in Int
    BY <2>1, OrderFields DEF OrderType
  <2>3. First(o) # None
    BY <2>2 DEF None
  <2>4. /\ First(o) \in Nat
        /\ \E j \in 1..read : trades[j].order = o /\ First(o) = trades[j].at
    BY <1>1, <2>3, FirstFillIs
  <2>5. \A i \in 1..Len(ticks) : ticks[i].at \in Nat /\ ticks[i].seq \in Nat
    <3>1. \A i \in 1..Len(ticks) : ticks[i] \in TickType
      BY <2>1
    <3> QED
      BY <3>1 DEF TickType
  <2> HIDE DEF First
  <2>6. \A t : t \in Later(o) <=> \E i \in 1..Len(ticks) : t = ticks[i] /\ t.at >= First(o)
    BY <2>1 DEF TicksFrom, ToSet
  <2>7. Tick(o) \in Later(o) /\ \A u \in Later(o) : Tick(o).seq <= u.seq
    <3> DEFINE S == {t.seq : t \in Later(o)}
    <3>1. S \in SUBSET Nat /\ S # {}
      BY <2>5, <2>6
    <3>2. \E x \in S : \A y \in S : x <= y
      <4> HIDE DEF S
      <4> QED
        BY <3>1, LeastNatural
    <3>3. \E t \in Later(o) : \A u \in Later(o) : t.seq <= u.seq
      <4> HIDE DEF Later
      <4> QED
        BY <3>2
    <3> HIDE DEF Later
    <3> QED
      BY <3>3 DEF FirstTick
  <2> HIDE DEF Later, Tick
  <2>8. PICK k \in 1..Len(ticks) : Tick(o) = ticks[k] /\ First(o) <= ticks[k].at
    BY <2>4, <2>5, <2>6, <2>7
  <2>9. \A i \in 1..Len(ticks) : i < k => ticks[i].at < First(o)
    <3> SUFFICES ASSUME NEW i \in 1..Len(ticks), i < k, ~(ticks[i].at < First(o)) PROVE FALSE
      OBVIOUS
    <3>1. ticks[i] \in Later(o)
      BY <2>4, <2>5, <2>6
    <3>2. ticks[k].seq <= ticks[i].seq
      BY <2>7, <2>8, <3>1
    <3>3. ticks[i].seq < ticks[k].seq
      BY <2>1 DEF TicksOK
    <3> QED
      BY <2>5, <3>2, <3>3
  <2>10. \A i \in 1..Len(ticks) : k <= i => First(o) <= ticks[i].at
    <3> SUFFICES ASSUME NEW i \in 1..Len(ticks), k <= i PROVE First(o) <= ticks[i].at
      OBVIOUS
    <3>1. k = i \/ ticks[k].at < ticks[i].at
      BY <2>1 DEF InTime
    <3> QED
      BY <2>4, <2>5, <2>8, <3>1
  <2>11. Live(orders, ticks, o, k)
    <3>1. orders[o].acked < ticks[k].at
      BY <2>2, <2>4, <2>5, <2>8
    <3>2. AtBefore(ticks, k) < First(o) /\ AtBefore(ticks, k) \in Int
      <4>1. CASE k = 1
        BY <2>4, <4>1 DEF AtBefore, None
      <4>2. CASE k # 1
        <5>1. k - 1 \in 1..Len(ticks) /\ k - 1 < k
          BY <2>1, <4>2
        <5> QED
          BY <2>5, <2>9, <4>2, <5>1 DEF AtBefore
      <4> QED
        BY <4>1, <4>2
    <3>3. orders[o].state = "filled" => AtBefore(ticks, k) < orders[o].ended
      <4> SUFFICES ASSUME orders[o].state = "filled" PROVE AtBefore(ticks, k) < orders[o].ended
        OBVIOUS
      <4>1. First(o) <= orders[o].ended
        BY <1>1, <2>1, <2>4, FilledLast
      <4> QED
        BY <2>2, <2>4, <3>2, <4>1
    <3>4. orders[o].state = "cancelled" => ticks[k].at < orders[o].ended
      BY <2>2, <2>5, <2>8
    <3> QED
      BY <3>1, <3>3, <3>4 DEF Live
  <2>12. o \in ticks[k].open
    BY <2>1, <2>11 DEF Shown
  <2>13. Labels(o, k)
    BY <2>1, <2>2, <2>4, <2>5, <2>8, <2>9, <2>10, <2>12 DEF Labels, First
  <2> QED
    BY <2>8, <2>13, OneFillLook
<1> QED
  BY <1>1, SessionInvariant, PTL
=============================================================================
