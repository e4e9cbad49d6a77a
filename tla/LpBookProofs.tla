---------------------------- MODULE LpBookProofs ----------------------------
(***************************************************************************)
(* Theorems about the paper book of a liquidity position, for every pool,  *)
(* price, range, capital, gas and sequence of swaps, mints, burns and      *)
(* faults: a mint never takes more than is in hand, the parts of the       *)
(* profit explain the value, and fees reported as exact are exact.  They   *)
(* rest on the lemmas of PoolMathProofs.                                   *)
(***************************************************************************)
EXTENDS LpBook, PoolMathProofs

-----------------------------------------------------------------------------
(* The units of the book *)

LEMMA Widths ==
    /\ Q32 \in Positive /\ Q96 \in Positive /\ Q128 \in Positive /\ U256 \in Positive
    /\ Unit \in Positive /\ Spacing \in Positive /\ UnitLiquidity \in Positive
    /\ WordBits \in Positive /\ MaxTick \in Nat
BY MathWidths, LpConstants DEF Positive

-----------------------------------------------------------------------------
(* The strategy's range *)

LEMMA FloorSpacing ==
    ASSUME NEW t \in Int
    PROVE  /\ FloorToSpacing(t, Spacing) \in Int /\ FloorToSpacing(t, Spacing) <= t
           /\ \A u \in Int : t <= u => FloorToSpacing(t, Spacing) <= FloorToSpacing(u, Spacing)
<1>1. \A u \in Int : /\ u \div Spacing \in Int /\ Spacing * (u \div Spacing) <= u
                     /\ FloorToSpacing(u, Spacing) = Spacing * (u \div Spacing)
                     /\ Spacing * (u \div Spacing) \in Int
  <2>1. SUFFICES ASSUME NEW u \in Int
                 PROVE  /\ u \div Spacing \in Int /\ Spacing * (u \div Spacing) <= u
                        /\ FloorToSpacing(u, Spacing) = Spacing * (u \div Spacing)
                        /\ Spacing * (u \div Spacing) \in Int
    OBVIOUS
  <2>2. u \div Spacing \in Int /\ Spacing * (u \div Spacing) <= u
    BY DivBound, Widths
  <2> DEFINE q == u \div Spacing
  <2> HIDE DEF q
  <2>3. q \in Int => q * Spacing = Spacing * q /\ Spacing * q \in Int
    BY Widths DEF Positive
  <2> QED
    BY <2>2, <2>3 DEF q, FloorToSpacing
<1>2. ASSUME NEW u \in Int, t <= u PROVE FloorToSpacing(t, Spacing) <= FloorToSpacing(u, Spacing)
  <2>1. Spacing * (t \div Spacing) <= u
    BY <1>1, <1>2
  <2>2. t \div Spacing <= u \div Spacing
    BY <1>1, <2>1, DivLargest, Widths
  <2> QED
    BY <1>1, <2>2, Scale, Widths
<1> QED
  BY <1>1, <1>2

LEMMA CeilIsFloor ==
    ASSUME NEW t \in Int
    PROVE  CeilToSpacing(t, Spacing) = -FloorToSpacing(-t, Spacing)
<1>1. -t \in Int /\ (-t) \div Spacing \in Int /\ Spacing \in Int
  BY DivBound, Widths DEF Positive
<1> DEFINE q == (-t) \div Spacing
<1> HIDE DEF q
<1>2. q \in Int => (-q) * Spacing = -(q * Spacing)
  BY <1>1
<1> QED
  BY <1>1, <1>2 DEF q, CeilToSpacing, FloorToSpacing

LEMMA CeilSpacing ==
    ASSUME NEW t \in Int
    PROVE  /\ CeilToSpacing(t, Spacing) \in Int /\ t <= CeilToSpacing(t, Spacing)
           /\ \A u \in Int : t <= u => CeilToSpacing(t, Spacing) <= CeilToSpacing(u, Spacing)
<1>1. ASSUME NEW u \in Int
      PROVE  /\ CeilToSpacing(u, Spacing) = -FloorToSpacing(-u, Spacing)
             /\ -u \in Int /\ FloorToSpacing(-u, Spacing) \in Int
             /\ FloorToSpacing(-u, Spacing) <= -u
  BY CeilIsFloor, FloorSpacing
<1>2. ASSUME NEW u \in Int, t <= u
      PROVE  FloorToSpacing(-u, Spacing) <= FloorToSpacing(-t, Spacing)
  <2>1. -u <= -t /\ -u \in Int /\ -t \in Int
    BY <1>2
  <2> QED
    BY <2>1, FloorSpacing
<1> QED
  BY <1>1, <1>2

LEMMA UsableTicks ==
    /\ MinUsable(Spacing) \in Int /\ MaxUsable(Spacing) \in Int
    /\ MinTick <= MinUsable(Spacing) /\ MinUsable(Spacing) <= MaxUsable(Spacing)
    /\ MaxUsable(Spacing) <= MaxTick
<1>1. MinTick \in Int /\ MaxTick \in Int /\ MinTick <= MaxTick /\ -MinTick = MaxTick /\ 0 <= MaxTick
      /\ 0 \in Int
  BY TickFacts DEF MinTick
<1>2. FloorToSpacing(0, Spacing) = 0
  <2>1. 0 \div Spacing = 0 /\ 0 * Spacing = 0
    BY Widths DEF Positive
  <2> QED
    BY <2>1 DEF FloorToSpacing
<1>3. /\ MaxUsable(Spacing) \in Int /\ MaxUsable(Spacing) <= MaxTick
      /\ 0 <= MaxUsable(Spacing)
  BY <1>1, <1>2, FloorSpacing DEF MaxUsable
<1>4. MinUsable(Spacing) = -MaxUsable(Spacing)
  BY <1>1, CeilIsFloor DEF MinUsable, MaxUsable
<1> QED
  BY <1>1, <1>3, <1>4

\* The initialized tick that is chosen is one of those that qualify.
LEMMA NearestFacts ==
    ASSUME NEW snap, WindowOK(snap.window), NEW tick \in Int, NEW above \in Int, NEW below \in Int
    PROVE  LET t == NearestInitialized(snap, tick, above, below)
           IN  t = tick \/ (t \in Int /\ above < t /\ t < below)
<1> DEFINE near == {t \in DOMAIN snap.window.infos :
                      /\ Abs(t - tick) <= SnapTolerance * Spacing
                      /\ above < t
                      /\ t < below}
           Closer(t, u) == \/ Abs(t - tick) < Abs(u - tick)
                           \/ Abs(t - tick) = Abs(u - tick) /\ t <= u
           S == {k \in Nat : tick - k \in near \/ tick + k \in near}
<1>1. CASE near = {}
  BY <1>1 DEF NearestInitialized
<1>2. CASE near # {}
  <2>1. near \in SUBSET Int /\ \A t \in near : above < t /\ t < below
    BY DEF WindowOK
  <2>2. NearestInitialized(snap, tick, above, below)
          = CHOOSE t \in near : \A u \in near : Closer(t, u)
    BY <1>2 DEF NearestInitialized
  <2> HIDE DEF near
  <2>3. \A t \in near : Abs(t - tick) \in S /\ (t = tick - Abs(t - tick) \/ t = tick + Abs(t - tick))
    <3>1. SUFFICES ASSUME NEW t \in near
                   PROVE  Abs(t - tick) \in S /\ (t = tick - Abs(t - tick) \/ t = tick + Abs(t - tick))
      OBVIOUS
    <3>2. t \in Int
      BY <2>1
    <3>3. Abs(t - tick) \in Nat /\ (t = tick - Abs(t - tick) \/ t = tick + Abs(t - tick))
      BY <3>2 DEF Abs
    <3> QED
      BY <3>1, <3>3
  <2>4. S \in SUBSET Nat /\ S # {}
    BY <1>2, <2>3
  <2>5. PICK k \in S : \A j \in S : k <= j
    <3> HIDE DEF S
    <3> QED
      BY <2>4, LeastNatural
  <2>6. k \in Nat /\ (tick - k \in near \/ tick + k \in near)
    BY <2>5
  <2>7. \E t \in near : \A u \in near : Closer(t, u)
    <3> DEFINE t == IF tick - k \in near THEN tick - k ELSE tick + k
    <3>1. t \in near /\ t \in Int /\ Abs(t - tick) = k
      BY <2>6 DEF Abs
    <3>2. ASSUME NEW u \in near PROVE Closer(t, u)
      <4>1. u \in Int /\ Abs(u - tick) \in Nat /\ k <= Abs(u - tick)
            /\ (u = tick - Abs(u - tick) \/ u = tick + Abs(u - tick))
        BY <2>1, <2>3, <2>4, <2>5
      <4>2. CASE k < Abs(u - tick)
        BY <3>1, <4>2
      <4>3. CASE k = Abs(u - tick)
        <5>1. t <= u
          BY <2>6, <3>2, <4>1, <4>3
        <5> QED
          BY <3>1, <4>3, <5>1
      <4> QED
        BY <2>6, <4>1, <4>2, <4>3
    <3> HIDE DEF t, Closer
    <3> QED
      BY <3>1, <3>2
  <2> HIDE DEF Closer
  <2>8. (CHOOSE t \in near : \A u \in near : Closer(t, u)) \in near
    BY <2>7
  <2> QED
    BY <2>1, <2>2, <2>8
<1> QED
  BY <1>1, <1>2

\* A range of the strategy: ticks that have a price, in order.
RangeOK(r) == r.lower \in Ticks /\ r.upper \in Ticks /\ r.lower <= r.upper /\ r.center \in Int

LEMMA PriceToTickType == ASSUME NEW price PROVE PriceToTick(price) \in Ticks
<1> DEFINE below == {t \in MinTick..MaxTick :
                       IF base0 THEN SqrtRatio[t] * SqrtRatio[t] * Unit <= price * Q96 * Q96
                                ELSE SqrtRatio[t] * SqrtRatio[t] * price <= Q96 * Q96 * Unit}
<1>1. PriceToTick(price) = IF below = {} THEN MinTick ELSE Max(below)
  BY DEF PriceToTick
<1>2. below \in SUBSET Ticks /\ below \in SUBSET Int /\ MaxTick \in Int /\ \A t \in below : t <= MaxTick
  BY TickFacts DEF Ticks
<1> HIDE DEF below
<1>3. below # {} => Max(below) \in below
  BY <1>2, MaxBelow
<1> QED
  BY <1>1, <1>2, <1>3, TickFacts

LEMMA SnappedOK ==
    ASSUME NEW snap, WindowOK(snap.window), snap.tick \in Int, NEW center \in Int,
           NEW lower \in Ticks, NEW upper \in Ticks, lower <= upper
    PROVE  RangeOK(Snapped(snap, center, lower, upper))
<1> DEFINE newLower == NearestInitialized(snap, lower, MinTick - 1, upper)
           newUpper == NearestInitialized(snap, upper, newLower, MaxTick + 1)
<1>1. lower \in Int /\ upper \in Int /\ MinTick - 1 \in Int /\ MaxTick + 1 \in Int
  BY TickFacts
<1>2. newLower \in Ticks /\ newLower \in Int
  <2>1. newLower = lower \/ (newLower \in Int /\ MinTick - 1 < newLower /\ newLower < upper)
    BY <1>1, NearestFacts
  <2> HIDE DEF newLower
  <2> QED
    BY <1>1, <2>1, TickFacts DEF Ticks
<1>3. newUpper \in Ticks
  <2> HIDE DEF newLower
  <2>1. newUpper = upper \/ (newUpper \in Int /\ newLower < newUpper /\ newUpper < MaxTick + 1)
    BY <1>1, <1>2, NearestFacts
  <2> HIDE DEF newUpper
  <2> QED
    BY <1>1, <1>2, <2>1, TickFacts DEF Ticks
<1>4. Snapped(snap, center, lower, upper)
        = IF newLower < newUpper /\ InRange(snap.tick, newLower, newUpper)
          THEN [lower |-> newLower, upper |-> newUpper, center |-> center]
          ELSE [lower |-> lower, upper |-> upper, center |-> center]
  BY DEF Snapped
<1> HIDE DEF newLower, newUpper
<1> QED
  BY <1>1, <1>2, <1>3, <1>4, TickFacts DEF RangeOK

LEMMA ClippedOK ==
    ASSUME NEW floor \in Int, NEW ceil \in Int,
           floor <= MaxUsable(Spacing), MinUsable(Spacing) <= ceil
    PROVE  LET lower == MaxOf(floor, MinUsable(Spacing))
               upper == MinOf(IF ceil <= floor THEN floor + Spacing ELSE ceil, MaxUsable(Spacing))
           IN  lower \in Ticks /\ upper \in Ticks /\ lower <= upper
<1>1. Spacing \in Nat /\ MinTick \in Int /\ MaxTick \in Int
  BY Widths, TickFacts DEF Positive
<1> QED
  BY <1>1, UsableTicks DEF MaxOf, MinOf, Ticks

LEMMA RangeAroundOK ==
    ASSUME NEW snap, WindowOK(snap.window), snap.tick \in Int, NEW center \in Int
    PROVE  RangeOK(RangeAround(center, snap))
<1> DEFINE a == PriceToTick((center * (Percent - HalfWidth)) \div Percent)
           b == PriceToTick((center * (Percent + HalfWidth)) \div Percent)
           floor == FloorToSpacing(MinOf(a, b), Spacing)
           ceil == CeilToSpacing(MaxOf(a, b), Spacing)
           lower == MaxOf(floor, MinUsable(Spacing))
           upper == MinOf(IF ceil <= floor THEN floor + Spacing ELSE ceil, MaxUsable(Spacing))
<1>1. RangeAround(center, snap) = Snapped(snap, center, lower, upper)
  BY DEF RangeAround
<1>2. a \in Ticks /\ b \in Ticks
  BY PriceToTickType
<1> HIDE DEF a, b
<1>3. /\ MinOf(a, b) \in Int /\ MaxOf(a, b) \in Int
      /\ MinOf(a, b) <= MaxTick /\ MinTick <= MaxOf(a, b) /\ MinTick \in Int /\ MaxTick \in Int
  BY <1>2, TickFacts DEF MinOf, MaxOf, Ticks
<1>4. floor \in Int /\ floor <= MaxUsable(Spacing)
  BY <1>3, FloorSpacing DEF MaxUsable
<1>5. ceil \in Int /\ MinUsable(Spacing) <= ceil
  BY <1>3, CeilSpacing DEF MinUsable
<1> HIDE DEF floor, ceil
<1>6. lower \in Ticks /\ upper \in Ticks /\ lower <= upper
  BY <1>4, <1>5, ClippedOK
<1> HIDE DEF lower, upper
<1> QED
  BY <1>1, <1>6, SnappedOK

LEMMA TargetOK ==
    ASSUME NEW snap, WindowOK(snap.window), snap.tick \in Int, NEW center \in Int,
           Price(snap.price) \in Int
    PROVE  RangeOK(TargetRange(center, snap))
<1>1. TargetRange(center, snap) \in {RangeAround(center, snap), RangeAround(Price(snap.price), snap)}
  BY DEF TargetRange
<1> QED
  BY <1>1, RangeAroundOK

-----------------------------------------------------------------------------
(* The types of the pool, of what is read of it, and of the ledger *)

Ranges == Others \union {BaseRange}
Pairs == Int \X Int

Outs == [BoundTicks -> Pairs]
MintedSets == SUBSET Ranges

PoolType ==
    [price : SqrtPrices, tick : Int, g0 : Int, g1 : Int, minted : MintedSets, block : Nat,
     out : Outs]

Bounds == {None} \union [tick : Int, initialized : BOOLEAN, out : Pairs]

Seen ==
    [price : SqrtPrices, tick : Int, liq : Nat, g0 : Int, g1 : Int, block : Nat,
     lower : Bounds, upper : Bounds]

MaybeWindow(w) == w = None \/ WindowOK(w)

\* A snapshot that is not stale.
SnapOK(s) ==
    /\ DOMAIN s = {"price", "tick", "liq", "g0", "g1", "block", "lower", "upper", "window",
                    "baseFee", "stale"}
    /\ s.price \in SqrtPrices /\ s.tick \in Int /\ s.liq \in Nat /\ s.g0 \in Int /\ s.g1 \in Int
    /\ s.block \in Nat /\ s.lower \in Bounds /\ s.upper \in Bounds
    /\ MaybeWindow(s.window) /\ ~s.stale

\* What the ledger keeps of a snapshot.
SeenOf(snap) == [f \in DOMAIN snap \ {"window", "baseFee", "stale"} |-> snap[f]]

LEMMA SeenOfType ==
    ASSUME NEW snap, SnapOK(snap)
    PROVE  /\ SeenOf(snap) \in Seen /\ SeenOf(snap) # None
           /\ SeenOf(snap).price = snap.price /\ SeenOf(snap).tick = snap.tick
           /\ SeenOf(snap).liq = snap.liq /\ SeenOf(snap).g0 = snap.g0 /\ SeenOf(snap).g1 = snap.g1
           /\ SeenOf(snap).lower = snap.lower /\ SeenOf(snap).upper = snap.upper
<1> DEFINE s == SeenOf(snap)
<1>1. DOMAIN snap \ {"window", "baseFee", "stale"}
        = {"price", "tick", "liq", "g0", "g1", "block", "lower", "upper"}
  BY DEF SnapOK
<1>2. s = [f \in {"price", "tick", "liq", "g0", "g1", "block", "lower", "upper"} |-> snap[f]]
  BY <1>1 DEF SeenOf
<1>3. s = [price |-> snap.price, tick |-> snap.tick, liq |-> snap.liq, g0 |-> snap.g0,
           g1 |-> snap.g1, block |-> snap.block, lower |-> snap.lower, upper |-> snap.upper]
  BY <1>2
<1>4. s \in Seen
  BY <1>3 DEF Seen, SnapOK
<1>5. s # None
  <2>1. DOMAIN None = {"none"} /\ "price" \in DOMAIN s
    BY <1>3 DEF None
  <2> QED
    BY <2>1
<1> QED
  BY <1>3, <1>4, <1>5

LEMMA RangeFacts ==
    /\ IsFiniteSet(Ranges)
    /\ \A r \in Ranges : r.lower \in Int /\ r.upper \in Int /\ r.liq \in Nat
    /\ BoundTicks \in SUBSET Int
    /\ \A m \in SUBSET Ranges : Initialized(m) \in SUBSET BoundTicks
<1>1. IsFiniteSet(Ranges)
  BY LpConstants, FS_AddElement DEF Ranges
<1>2. \A r \in Ranges : r.lower \in Int /\ r.upper \in Int /\ r.liq \in Nat
  BY LpConstants DEF Ranges
<1>3. BoundTicks \in SUBSET Int
  BY <1>2 DEF BoundTicks, Ranges
<1>4. \A m \in SUBSET Ranges : Initialized(m) \in SUBSET BoundTicks
  BY DEF BoundTicks, Initialized, Ranges
<1> QED
  BY <1>1, <1>2, <1>3, <1>4

\* The liquidity in range is a natural number.
LEMMA LiquidityType == ASSUME pool \in PoolType PROVE Liquidity \in Nat
<1> DEFINE v == [r \in pool.minted |-> r.liq]
           S == {r \in pool.minted : InRange(pool.tick, r.lower, r.upper)}
<1>1. S \in SUBSET Ranges /\ S \in SUBSET pool.minted /\ pool.minted \in SUBSET Ranges
  BY DEF PoolType, MintedSets
<1>2. IsFiniteSet(S)
  BY <1>1, RangeFacts, FS_Subset
<1>3. \A x \in S : v[x] \in Int /\ v[x] >= 0
  BY <1>1, RangeFacts
<1>4. Liquidity = SumFunctionOnSet(v, S)
  BY DEF Liquidity
<1> HIDE DEF v, S
<1>5. Liquidity \in Int /\ Liquidity >= 0
  BY <1>2, <1>3, <1>4, SumType
<1> QED
  BY <1>5

LEMMA NetType == ASSUME pool \in PoolType, NEW t PROVE Net(t) \in Int
<1> DEFINE v == [r \in pool.minted |-> IF r.lower = t THEN r.liq ELSE -r.liq]
           S == {r \in pool.minted : t \in {r.lower, r.upper}}
<1>1. S \in SUBSET Ranges /\ S \in SUBSET pool.minted /\ pool.minted \in SUBSET Ranges
  BY DEF PoolType, MintedSets
<1>2. IsFiniteSet(S)
  BY <1>1, RangeFacts, FS_Subset
<1>3. \A x \in S : v[x] \in Int
  BY <1>1, RangeFacts
<1>4. Net(t) = SumFunctionOnSet(v, S)
  BY DEF Net
<1> HIDE DEF v, S
<1> QED
  BY <1>2, <1>3, <1>4, SumType

LEMMA WordType == ASSUME NEW t \in Int PROVE WordPositionForTick(t, Spacing) \in Int
BY Widths, FloorBound DEF WordPositionForTick, WordOf, Compress

LEMMA RefreshedOK ==
    ASSUME pool \in PoolType, MaybeWindow(src.window), NEW fault
    PROVE  MaybeWindow(MaybeRefreshWindow(fault).window)
<1> DEFINE center == WordPositionForTick(pool.tick, Spacing)
           span == IF fault = "words" THEN 0 ELSE WindowWords
           loaded == {t \in Initialized(pool.minted) :
                        WordPositionForTick(t, Spacing) \in center - span .. center + span}
           known == IF fault = "ticks" THEN {} ELSE loaded
           w == LoadWindow(fault)
<1>1. center \in Int /\ span \in Nat
  BY WordType, LpConstants DEF PoolType
<1>2. loaded \in SUBSET Int /\ known \in SUBSET Int
  BY RangeFacts DEF PoolType, MintedSets
<1>3. w = [minWord |-> center - span, maxWord |-> center + span, spacing |-> Spacing,
           ticks |-> loaded, infos |-> [t \in known |-> Net(t)]]
  BY DEF LoadWindow
<1>4. \A t \in known : Net(t) \in Int
  BY NetType
<1>5. center - span \in Int /\ center + span \in Int
  BY <1>1
<1> HIDE DEF center, span, loaded, known, w
<1>6. w.infos = [t \in known |-> Net(t)]
  BY <1>3
<1>7. DOMAIN w.infos = known /\ \A t \in known : w.infos[t] = Net(t)
  BY <1>6
<1>8. WindowOK(w)
  BY <1>2, <1>3, <1>4, <1>5, <1>7, Widths DEF WindowOK
<1> QED
  BY <1>8 DEF MaybeRefreshWindow, MaybeWindow, w

LEMMA TickInfoType ==
    ASSUME pool \in PoolType, NEW t \in Int
    PROVE  TickInfo(t) \in Bounds
<1>1. pool.out \in [BoundTicks -> Pairs] /\ <<0, 0>> \in Pairs
  BY DEF PoolType, Pairs, Outs
<1>2. (IF t \in BoundTicks THEN pool.out[t] ELSE <<0, 0>>) \in Pairs
  BY <1>1
<1> QED
  BY <1>2 DEF TickInfo, Bounds

LEMMA ReadOK ==
    ASSUME pool \in PoolType, MaybeWindow(src.window), ledger.lower \in Int, ledger.upper \in Int,
           NEW fault
    PROVE  LET snap == ReadOnce(fault, MaybeRefreshWindow(fault))
           IN  /\ SnapOK(snap) /\ "stale" \in DOMAIN snap
               /\ snap.price = pool.price /\ snap.tick = pool.tick
               /\ snap.g0 = pool.g0 /\ snap.g1 = pool.g1
               /\ snap.lower \in {None, TickInfo(ledger.lower)}
               /\ snap.upper \in {None, TickInfo(ledger.upper)}
<1> DEFINE window == MaybeRefreshWindow(fault).window
           bounds == ledger.liq > 0 /\ fault # "bounds"
           lower == IF bounds THEN TickInfo(ledger.lower) ELSE None
           upper == IF bounds THEN TickInfo(ledger.upper) ELSE None
           fee == BaseFee(fault)
           snap == ReadOnce(fault, MaybeRefreshWindow(fault))
<1>1. snap = [price |-> pool.price, tick |-> pool.tick, liq |-> Liquidity,
              g0 |-> pool.g0, g1 |-> pool.g1, block |-> pool.block,
              lower |-> lower, upper |-> upper, window |-> window, baseFee |-> fee,
              stale |-> FALSE]
  BY DEF ReadOnce
<1>2. MaybeWindow(window) /\ Liquidity \in Nat
  BY RefreshedOK, LiquidityType
<1>3. lower \in Bounds /\ upper \in Bounds
  BY TickInfoType DEF Bounds
<1>4. lower \in {None, TickInfo(ledger.lower)} /\ upper \in {None, TickInfo(ledger.upper)}
  OBVIOUS
<1> HIDE DEF window, bounds, lower, upper, fee, snap
<1>5. /\ snap.price = pool.price /\ snap.tick = pool.tick /\ snap.liq = Liquidity
      /\ snap.g0 = pool.g0 /\ snap.g1 = pool.g1 /\ snap.block = pool.block
      /\ snap.lower = lower /\ snap.upper = upper /\ snap.window = window /\ snap.stale = FALSE
      /\ DOMAIN snap = {"price", "tick", "liq", "g0", "g1", "block", "lower", "upper", "window",
                         "baseFee", "stale"}
  BY <1>1
<1>6. SnapOK(snap)
  BY <1>2, <1>3, <1>5 DEF SnapOK, PoolType
<1> QED
  BY <1>4, <1>5, <1>6 DEF snap

-----------------------------------------------------------------------------
(* The ledger, and what accruing does to it *)

Notes == {"none", "stale", "waiting for window", "below minimum", "swap hit limit"}
Accuracies == {"none", "exact", "approximate"}

LedgerType ==
    [ready : BOOLEAN, idleB : Nat, idleQ : Nat, liq : Nat, lower : Ticks, upper : Ticks,
     center : Int, openB : Nat, openQ : Nat, feesB : Nat, feesQ : Nat, fees : Int,
     il : Int, hodl : Int, swap : Int, gas : Int, epoch : Nat, lastAt : Nat,
     acc : Accuracies, note : Notes, last : Seen \union {None}]

\* A book that has seen no snapshot holds its capital and nothing else; one
\* without liquidity has nothing in the pool.
Consistent(l) ==
    /\ l.lower <= l.upper
    /\ l.liq = 0 => l.openB = 0 /\ l.openQ = 0
    /\ l.last # None => l.ready
    /\ l.last = None =>
         /\ l.liq = 0 /\ l.idleB = 0 /\ l.idleQ = IF l.ready THEN Capital ELSE 0
         /\ l.feesB = 0 /\ l.feesQ = 0 /\ l.fees = 0 /\ l.il = 0 /\ l.hodl = 0 /\ l.swap = 0
         /\ l.acc = "none"

LEMMA PriceType ==
    ASSUME base0 \in BOOLEAN, NEW s \in SqrtPrices
    PROVE  Price(s) \in Nat
<1>1. s \in Positive /\ Q96 \in Positive /\ Unit \in Positive
  BY SqrtPriceFacts, Widths
<1>2. s * s \in Positive /\ Q96 * Q96 \in Positive /\ Unit * s \in Positive
      /\ Unit * Q96 \in Positive
  BY <1>1, Product
<1>3. (Unit * s) * s \in Nat /\ (Unit * Q96) * Q96 \in Nat
  BY <1>1, <1>2, Product DEF Positive
<1>4. ((Unit * s) * s) \div (Q96 * Q96) \in Nat /\ ((Unit * Q96) * Q96) \div (s * s) \in Nat
  BY <1>2, <1>3, DivNat
<1> QED
  BY <1>4 DEF Price

LEMMA OrientedType ==
    ASSUME base0 \in BOOLEAN, NEW p \in Nat \X Nat
    PROVE  /\ Oriented(p) \in Nat \X Nat /\ Oriented(Oriented(p)) = p
           /\ \A q \in Nat \X Nat : p[1] <= q[1] /\ p[2] <= q[2] =>
                Oriented(p)[1] <= Oriented(q)[1] /\ Oriented(p)[2] <= Oriented(q)[2]
BY DEF Oriented

LEMMA WrapType == ASSUME NEW a \in Int, NEW b \in Int PROVE WrapSub(a, b) \in 0..(U256 - 1)
<1>1. a - b \in Int /\ U256 \in Positive
  BY Widths
<1> QED
  BY <1>1, ModBound DEF WrapSub

LEMMA WrapNat == ASSUME NEW a \in Int, NEW b \in Int PROVE WrapSub(a, b) \in Nat
BY WrapType, Widths DEF Positive

LEMMA OwedType ==
    ASSUME NEW liq \in Nat, NEW growth \in Nat
    PROVE  FeesOwed(liq, growth) \in Nat
BY Factors, DivNat, Widths DEF FeesOwed, MulDiv

LEMMA HalvedType ==
    ASSUME NEW fee \in Nat, NEW halves \in Nat
    PROVE  (fee * halves) \div 2 \in Nat
<1>1. fee * halves \in Nat /\ 2 \in Positive
  BY Factors DEF Positive
<1> QED
  BY <1>1, DivNat

LEMMA DilutedType ==
    ASSUME NEW l, l.liq \in Nat, NEW prev, prev.liq \in Nat, NEW cur, cur.liq \in Nat,
           NEW fee \in Nat
    PROVE  Diluted(l, prev, cur, fee) \in Nat
<1> DEFINE wasIn == InRange(prev.tick, l.lower, l.upper)
           nowIn == InRange(cur.tick, l.lower, l.upper)
           poolLiq == CASE wasIn = nowIn -> (prev.liq + cur.liq) \div 2
                        [] wasIn /\ ~nowIn -> prev.liq
                        [] ~wasIn /\ nowIn -> cur.liq
<1>1. (prev.liq + cur.liq) \div 2 \in Nat
  BY DivNat DEF Positive
<1>2. wasIn \in BOOLEAN /\ nowIn \in BOOLEAN
  BY DEF InRange
<1>3. poolLiq \in Nat
  <2> HIDE DEF wasIn, nowIn
  <2>1. CASE wasIn = nowIn
    BY <1>1, <2>1
  <2>2. CASE wasIn /\ ~nowIn
    BY <2>2
  <2>3. CASE ~wasIn /\ nowIn
    BY <2>3
  <2> QED
    BY <1>2, <2>1, <2>2, <2>3
<1>4. Diluted(l, prev, cur, fee)
        = IF poolLiq + l.liq > 0 THEN (fee * poolLiq) \div (poolLiq + l.liq) ELSE fee
  BY DEF Diluted
<1> HIDE DEF poolLiq
<1>5. fee * poolLiq \in Nat
  BY <1>3, Factors
<1>6. poolLiq + l.liq > 0 => (fee * poolLiq) \div (poolLiq + l.liq) \in Nat
  BY <1>3, <1>5, DivNat DEF Positive
<1> QED
  BY <1>4, <1>6

LEMMA DilutedSame ==
    ASSUME NEW l, NEW m, m.liq = l.liq, m.lower = l.lower, m.upper = l.upper,
           NEW prev, NEW cur, NEW mark, mark.tick = cur.tick, mark.liq = cur.liq, NEW fee
    PROVE  Diluted(m, prev, mark, fee) = Diluted(l, prev, cur, fee)
<1> DEFINE wasIn == InRange(prev.tick, l.lower, l.upper)
           nowIn == InRange(cur.tick, l.lower, l.upper)
<1>1. InRange(prev.tick, m.lower, m.upper) = wasIn /\ InRange(mark.tick, m.lower, m.upper) = nowIn
  OBVIOUS
<1> HIDE DEF wasIn, nowIn
<1> QED
  BY <1>1 DEF Diluted, wasIn, nowIn

\* The growth of both tokens inside the range that a snapshot shows.
LEMMA InsideType ==
    ASSUME NEW l, NEW s, s.lower \in Bounds, s.upper \in Bounds, s.lower # None, s.upper # None,
           s.g0 \in Int, s.g1 \in Int
    PROVE  Inside(l, s)[1] \in Nat /\ Inside(l, s)[2] \in Nat
<1>1. /\ s.lower.out[1] \in Int /\ s.lower.out[2] \in Int
      /\ s.upper.out[1] \in Int /\ s.upper.out[2] \in Int
  BY DEF Bounds, Pairs
<1>2. ASSUME NEW ol \in Int, NEW oh \in Int, NEW g \in Int
      PROVE  FeeGrowthInside(s.tick, l.lower, l.upper, ol, oh, g) \in Nat
  <2> DEFINE below == IF s.tick >= l.lower THEN ol ELSE WrapSub(g, ol)
             above == IF s.tick < l.upper THEN oh ELSE WrapSub(g, oh)
  <2>1. below \in Int /\ above \in Int
    <3>1. WrapSub(g, ol) \in Nat
      BY WrapNat
    <3>2. WrapSub(g, oh) \in Nat
      BY WrapNat
    <3> QED
      BY <3>1, <3>2
  <2>2. FeeGrowthInside(s.tick, l.lower, l.upper, ol, oh, g) = WrapSub(WrapSub(g, below), above)
    BY DEF FeeGrowthInside
  <2> HIDE DEF below, above
  <2>3. WrapSub(g, below) \in Int
    BY <2>1, WrapNat
  <2> QED
    BY <2>1, <2>2, <2>3, WrapNat
<1> QED
  BY <1>1, <1>2 DEF Inside

\* Growth known exactly, when both ends show both bounds.
LEMMA GrowthInsideType ==
    ASSUME NEW l, NEW prev \in Seen, NEW cur, SnapOK(cur), GrowthInside(l, prev, cur) # None
    PROVE  /\ BoundInfos(l, prev) /\ BoundInfos(l, cur)
           /\ GrowthInside(l, prev, cur)
                = <<WrapSub(Inside(l, cur)[1], Inside(l, prev)[1]),
                    WrapSub(Inside(l, cur)[2], Inside(l, prev)[2])>>
           /\ GrowthInside(l, prev, cur) \in Nat \X Nat
<1>1. BoundInfos(l, prev) /\ BoundInfos(l, cur)
  BY DEF GrowthInside
<1>2. GrowthInside(l, prev, cur)
        = <<WrapSub(Inside(l, cur)[1], Inside(l, prev)[1]),
            WrapSub(Inside(l, cur)[2], Inside(l, prev)[2])>>
  BY <1>1 DEF GrowthInside
<1>3. /\ Inside(l, prev)[1] \in Nat /\ Inside(l, prev)[2] \in Nat
      /\ Inside(l, cur)[1] \in Nat /\ Inside(l, cur)[2] \in Nat
  BY <1>1, InsideType DEF BoundInfos, Seen, SnapOK
<1>4. /\ WrapSub(Inside(l, cur)[1], Inside(l, prev)[1]) \in Nat
      /\ WrapSub(Inside(l, cur)[2], Inside(l, prev)[2]) \in Nat
  <2> DEFINE a == Inside(l, cur)[1]
             b == Inside(l, prev)[1]
             c == Inside(l, cur)[2]
             d == Inside(l, prev)[2]
  <2>1. a \in Int /\ b \in Int /\ c \in Int /\ d \in Int
    BY <1>3
  <2> HIDE DEF a, b, c, d
  <2>2. WrapSub(a, b) \in Nat /\ WrapSub(c, d) \in Nat
    BY <2>1, WrapNat
  <2> QED
    BY <2>2 DEF a, b, c, d
<1> QED
  BY <1>1, <1>2, <1>4

Hodl(l, prev, cur) ==
    (l.openB + l.idleB + l.feesB) * (Price(cur.price) - Price(prev.price))

\* The ledger with a fee, its value and the move of the price booked.
Booked(l, cur, fee, acc) ==
    [l EXCEPT !.acc = acc, !.feesB = @ + fee[1], !.feesQ = @ + fee[2],
              !.fees = @ + Value(fee[1], fee[2], Price(cur.price)),
              !.hodl = @ + Hodl(l, l.last, cur)]

IsExact(l, prev, cur) ==
    LET inside == GrowthInside(l, prev, cur)
    IN  /\ l.liq # 0 /\ inside # None
        /\ inside[1] <= WrapSub(cur.g0, prev.g0)
        /\ inside[2] <= WrapSub(cur.g1, prev.g1)

LEMMA AccrueBooks ==
    ASSUME base0 \in BOOLEAN, NEW l \in LedgerType, l.last # None, NEW cur, SnapOK(cur)
    PROVE  \E fee \in Nat \X Nat, acc \in Accuracies :
             /\ Accrue(l, l.last, cur) = Booked(l, cur, fee, acc)
             /\ acc = "exact" => /\ IsExact(l, l.last, cur)
                                 /\ fee = FeesOf(l, l.last, cur, GrowthInside(l, l.last, cur))
<1> DEFINE prev == l.last
           h == Hodl(l, prev, cur)
           v == [l EXCEPT !.hodl = @ + h]
           global == <<WrapSub(cur.g0, prev.g0), WrapSub(cur.g1, prev.g1)>>
           inside == GrowthInside(l, prev, cur)
           halves == Cardinality({s \in {<<1, prev.tick>>, <<2, cur.tick>>} :
                                    InRange(s[2], l.lower, l.upper)})
<1>1. prev \in Seen
  BY DEF LedgerType
<1>2. Accrue(l, prev, cur) =
        IF l.liq <= 0 THEN [v EXCEPT !.acc = "none"]
        ELSE AccrueFees(v, prev, cur, global, inside)
  BY DEF Accrue, Hodl
<1>3. /\ l.liq \in Nat /\ l.feesB \in Nat /\ l.feesQ \in Nat /\ l.fees \in Int /\ l.hodl \in Int
      /\ l.openB \in Nat /\ l.idleB \in Nat /\ prev.liq \in Nat /\ cur.liq \in Nat
      /\ prev.g0 \in Int /\ prev.g1 \in Int /\ cur.g0 \in Int /\ cur.g1 \in Int
  BY <1>1 DEF LedgerType, Seen, SnapOK
<1>4. Price(cur.price) \in Nat /\ Price(prev.price) \in Nat
  BY <1>1, PriceType DEF Seen, SnapOK
<1>h. h \in Int
  BY <1>3, <1>4 DEF Hodl
<1>5. v.liq = l.liq /\ v.lower = l.lower /\ v.upper = l.upper
  BY DEF LedgerType
<1>6. \A fee, acc : Credited(v, fee, Price(cur.price), acc) = Booked(l, cur, fee, acc)
  <2> SUFFICES ASSUME NEW fee, NEW acc
               PROVE  Credited(v, fee, Price(cur.price), acc) = Booked(l, cur, fee, acc)
    OBVIOUS
  <2> DEFINE val == Value(fee[1], fee[2], Price(cur.price))
             hodl == l.hodl + h
  <2>1. v.feesB = l.feesB /\ v.feesQ = l.feesQ /\ v.fees = l.fees
    BY DEF LedgerType
  <2>2. Credited(v, fee, Price(cur.price), acc)
          = [v EXCEPT !.acc = acc, !.feesB = l.feesB + fee[1], !.feesQ = l.feesQ + fee[2],
                      !.fees = l.fees + val]
    BY <2>1 DEF Credited
  <2>3. Booked(l, cur, fee, acc)
          = [l EXCEPT !.acc = acc, !.feesB = l.feesB + fee[1], !.feesQ = l.feesQ + fee[2],
                      !.fees = l.fees + val, !.hodl = hodl]
    BY DEF Booked
  <2>4. v = [l EXCEPT !.hodl = hodl]
    OBVIOUS
  <2> HIDE DEF v, val, hodl, h
  <2> QED
    BY <2>2, <2>3, <2>4 DEF LedgerType
<1>7. CASE l.liq = 0
  <2>1. Accrue(l, prev, cur) = [v EXCEPT !.acc = "none"]
    BY <1>2, <1>7
  <2>2. <<0, 0>> \in Nat \X Nat /\ "none" \in Accuracies /\ "none" # "exact"
    BY DEF Accuracies
  <2>3. l.feesB + 0 = l.feesB /\ l.feesQ + 0 = l.feesQ
        /\ l.fees + Value(0, 0, Price(cur.price)) = l.fees
    <3>1. 0 * Price(cur.price) = 0 /\ 0 * Unit = 0
      BY <1>4, Widths DEF Positive
    <3> QED
      BY <1>3, <3>1 DEF Value
  <2>4. [v EXCEPT !.acc = "none"] = Booked(l, cur, <<0, 0>>, "none")
    <3> HIDE DEF h
    <3>1. Booked(l, cur, <<0, 0>>, "none")
            = [l EXCEPT !.acc = "none", !.feesB = l.feesB + 0, !.feesQ = l.feesQ + 0,
                        !.fees = l.fees + Value(0, 0, Price(cur.price)), !.hodl = l.hodl + h]
      BY DEF Booked, h
    <3> QED
      BY <2>3, <3>1 DEF LedgerType
  <2> QED
    BY <2>1, <2>2, <2>4
<1>8. CASE l.liq # 0
  <2> DEFINE exact == FeesOf(v, prev, cur, inside)
             approx == ApproximateFees(v, prev, cur, global)
  <2>1. Accrue(l, prev, cur) =
          IF inside # None /\ inside[1] <= global[1] /\ inside[2] <= global[2]
          THEN Booked(l, cur, exact, "exact") ELSE Booked(l, cur, approx, "approximate")
    <3> HIDE DEF v, global, inside, exact, approx
    <3>1. Accrue(l, prev, cur) = AccrueFees(v, prev, cur, global, inside)
      BY <1>2, <1>3, <1>8
    <3> QED
      BY <1>6, <3>1 DEF AccrueFees, exact, approx
  <2>2. global[1] \in Nat /\ global[2] \in Nat
    BY <1>3, WrapNat
  <2>3. exact = FeesOf(l, prev, cur, inside)
    <3> HIDE DEF v, inside
    <3>1. \A fee : Diluted(v, prev, cur, fee) = Diluted(l, prev, cur, fee)
      BY <1>5, DilutedSame
    <3> QED
      BY <1>5, <3>1 DEF FeesOf
  <2>4. CASE IsExact(l, prev, cur)
    <3>1. inside \in Nat \X Nat
      BY <1>1, <2>4, GrowthInsideType DEF IsExact
    <3>2. FeesOwed(l.liq, inside[1]) \in Nat /\ FeesOwed(l.liq, inside[2]) \in Nat
      BY <1>3, <3>1, OwedType
    <3>3. exact \in Nat \X Nat
      <4> DEFINE p == <<Diluted(l, prev, cur, FeesOwed(l.liq, inside[1])),
                        Diluted(l, prev, cur, FeesOwed(l.liq, inside[2]))>>
      <4>1. p \in Nat \X Nat
        BY <1>3, <3>2, DilutedType
      <4>2. exact = Oriented(p)
        BY <2>3 DEF FeesOf
      <4> HIDE DEF p, exact
      <4> QED
        BY <4>1, <4>2, OrientedType
    <3>4. Accrue(l, prev, cur) = Booked(l, cur, exact, "exact")
      BY <2>1, <2>4 DEF IsExact
    <3> QED
      BY <2>3, <2>4, <3>3, <3>4 DEF Accuracies
  <2>5. CASE ~IsExact(l, prev, cur)
    <3>1. Accrue(l, prev, cur) = Booked(l, cur, approx, "approximate")
      BY <1>8, <2>1, <2>5 DEF IsExact
    <3>2. halves \in Nat
      <4>1. IsFiniteSet({<<1, prev.tick>>, <<2, cur.tick>>})
        <5>1. IsFiniteSet({<<1, prev.tick>>} \union {<<2, cur.tick>>})
          BY FS_Singleton, FS_Union
        <5> QED
          BY <5>1
      <4> QED
        BY <4>1, FS_Subset, FS_CardinalityType
    <3> HIDE DEF halves
    <3>3. FeesOwed(l.liq, global[1]) \in Nat /\ FeesOwed(l.liq, global[2]) \in Nat
      BY <1>3, <2>2, OwedType
    <3> DEFINE f1 == (FeesOwed(l.liq, global[1]) * halves) \div 2
               f2 == (FeesOwed(l.liq, global[2]) * halves) \div 2
    <3>4. f1 \in Nat /\ f2 \in Nat
      BY <3>2, <3>3, HalvedType
    <3> DEFINE p == <<Diluted(v, prev, cur, f1), Diluted(v, prev, cur, f2)>>
    <3>5. approx = Oriented(p)
      BY <1>5 DEF ApproximateFees, halves
    <3> HIDE DEF f1, f2, approx
    <3>6. p \in Nat \X Nat
      BY <1>3, <1>5, <3>4, DilutedType
    <3> HIDE DEF p
    <3>7. approx \in Nat \X Nat
      BY <3>5, <3>6, OrientedType
    <3> QED
      BY <3>1, <3>7 DEF Accuracies
  <2> QED
    BY <2>4, <2>5
<1> QED
  BY <1>3, <1>7, <1>8

-----------------------------------------------------------------------------
(* A rebalance: nothing is sold or minted that is not in hand *)

LEMMA SqrtRange ==
    ASSUME NEW lower \in Ticks, NEW upper \in Ticks, lower <= upper
    PROVE  /\ SqrtRatio[lower] \in Positive /\ SqrtRatio[upper] \in Positive
           /\ SqrtRatio[lower] <= SqrtRatio[upper]
           /\ lower = upper \/ SqrtRatio[lower] < SqrtRatio[upper]
<1>1. SqrtRatio[lower] \in Positive /\ SqrtRatio[upper] \in Positive /\ lower \in Int /\ upper \in Int
  BY TickFacts
<1>2. CASE lower = upper
  BY <1>1, <1>2 DEF Positive
<1>3. CASE lower # upper
  <2>1. lower < upper
    BY <1>1, <1>3
  <2>2. SqrtRatio[lower] < SqrtRatio[upper]
    BY <2>1, RatiosOrdered
  <2> QED
    BY <1>1, <2>2 DEF Positive
<1> QED
  BY <1>2, <1>3

LEMMA PrincipalType ==
    ASSUME base0 \in BOOLEAN, NEW l \in LedgerType, l.lower <= l.upper,
           NEW mark, mark.price \in SqrtPrices
    PROVE  Principal(l, mark) \in Nat \X Nat /\ (l.liq = 0 => Principal(l, mark) = <<0, 0>>)
<1> DEFINE price == mark.price
           a == SqrtRatio[l.lower]
           b == SqrtRatio[l.upper]
           p == BurnAmounts(price, a, b, l.liq)
<1>1. l.lower \in Ticks /\ l.upper \in Ticks /\ l.liq \in Nat /\ price \in Positive
  BY SqrtPriceFacts DEF LedgerType
<1>2. a \in Positive /\ b \in Positive /\ a <= b
  BY <1>1, SqrtRange
<1>3. Principal(l, mark) = Oriented(p)
  BY DEF Principal, BurnAmounts
<1> HIDE DEF price, a, b
<1>4. p \in Nat \X Nat
  BY <1>1, <1>2, AmountsAreNatural
<1>5. l.liq = 0 => p = <<0, 0>>
  BY <1>1, <1>2, AmountCases
<1> HIDE DEF p
<1>6. Oriented(p) \in Nat \X Nat
  BY <1>4, OrientedType
<1>7. l.liq = 0 => Oriented(p) = <<0, 0>>
  BY <1>5 DEF Oriented
<1> QED
  BY <1>3, <1>6, <1>7

\* What one unit of liquidity in the target takes.
UnitOf(snap, target) ==
    Oriented(MintAmounts(snap.price, SqrtRatio[target.lower], SqrtRatio[target.upper],
                         UnitLiquidity))

\* A swap is possible only into a range that is not empty, and sells no more
\* than is in hand.
LEMMA SwapWantedOK ==
    ASSUME base0 \in BOOLEAN, NEW hand \in Nat \X Nat, NEW snap, snap.price \in SqrtPrices,
           NEW target, RangeOK(target), SwapWanted(hand, snap, target, Price(snap.price)).possible
    PROVE  LET wanted == SwapWanted(hand, snap, target, Price(snap.price))
           IN  /\ wanted.sellsBase \in BOOLEAN /\ wanted.amount \in Nat
               /\ wanted.sellsBase => wanted.amount <= hand[1]
               /\ ~wanted.sellsBase => wanted.amount <= hand[2]
               /\ SqrtRatio[target.lower] < SqrtRatio[target.upper]
<1> DEFINE price == Price(snap.price)
           a == SqrtRatio[target.lower]
           b == SqrtRatio[target.upper]
           mint == MintAmounts(snap.price, a, b, UnitLiquidity)
           unit == UnitOf(snap, target)
           before == Value(hand[1], hand[2], price)
           total == Value(unit[1], unit[2], price)
           excess == hand[1] * price - (before * unit[1] * price) \div total
           wanted == SwapWanted(hand, snap, target, price)
<1>1. price \in Nat /\ Unit \in Positive
  BY PriceType, Widths
<1>2. /\ a \in Positive /\ b \in Positive /\ a <= b /\ (target.lower = target.upper \/ a < b)
      /\ snap.price \in Positive
  BY SqrtRange, SqrtPriceFacts DEF RangeOK
<1>3. UnitLiquidity \in Nat /\ UnitLiquidity \in Positive
  BY Widths DEF Positive
<1>4. wanted = IF total <= 0 \/ before <= 0
               THEN [possible |-> FALSE, sellsBase |-> FALSE, amount |-> 0]
               ELSE SwapOf(hand, price, excess)
  BY DEF SwapWanted, UnitOf, MintAmounts
<1>5. unit = Oriented(mint)
  BY DEF UnitOf
<1> HIDE DEF a, b, price
<1>6. mint \in Nat \X Nat /\ (a = b => mint = <<0, 0>>)
  BY <1>2, <1>3, AmountsAreNatural
<1> HIDE DEF mint, unit
<1>7. unit \in Nat \X Nat /\ (a = b => unit = <<0, 0>>)
  BY <1>5, <1>6, OrientedType DEF Oriented
<1>8. total \in Nat /\ before \in Nat
  <2>1. \A p \in Nat \X Nat : Value(p[1], p[2], price) \in Nat
    <3> SUFFICES ASSUME NEW x \in Nat, NEW y \in Nat PROVE Value(x, y, price) \in Nat
      OBVIOUS
    <3>1. x * price \in Nat /\ y * Unit \in Nat
      BY <1>1, Factors DEF Positive
    <3> QED
      BY <3>1 DEF Value
  <2> QED
    BY <1>7, <2>1
<1>9. a = b => total = 0
  <2>1. 0 * price = 0 /\ 0 * Unit = 0
    BY <1>1 DEF Positive
  <2> QED
    BY <1>7, <2>1 DEF Value
<1>10. wanted.possible
  BY DEF price
<1>11. total > 0 /\ wanted = SwapOf(hand, price, excess)
  <2> HIDE DEF total, before, excess, wanted
  <2>1. ~(total <= 0 \/ before <= 0)
    BY <1>4, <1>10
  <2> QED
    BY <1>4, <1>8, <2>1
<1>12. a < b
  BY <1>2, <1>9, <1>11 DEF a, b
<1>13. excess \in Int /\ (price = 0 => excess = 0)
  <2> DEFINE n == before * unit[1] * price
  <2> HIDE DEF before, total
  <2>1. before * unit[1] \in Nat /\ hand[1] * price \in Nat
    BY <1>1, <1>7, <1>8, Factors
  <2>2. n \in Nat
    BY <1>1, <2>1, Factors
  <2>3. price = 0 => n = 0 /\ hand[1] * price = 0
    BY <1>1, <2>1
  <2> HIDE DEF n
  <2>4. total \in Positive
    BY <1>8, <1>11 DEF Positive
  <2>5. n \div total \in Nat
    BY <2>2, <2>4, DivNat
  <2>6. 0 \div total = 0
    BY <2>4 DEF Positive
  <2>7. excess = hand[1] * price - n \div total
    BY DEF n
  <2> HIDE DEF excess
  <2> QED
    BY <2>1, <2>3, <2>5, <2>6, <2>7
<1> HIDE DEF excess, wanted, total, before
<1>14. CASE excess > 0
  <2>1. price \in Positive
    BY <1>1, <1>13, <1>14 DEF Positive
  <2>2. excess \div price \in Nat
    BY <1>13, <1>14, <2>1, DivNat
  <2>3. wanted.sellsBase = TRUE /\ wanted.amount = MinOf(excess \div price, hand[1])
    BY <1>11, <1>14 DEF SwapOf
  <2>4. wanted.amount \in Nat /\ wanted.amount <= hand[1]
    BY <2>2, <2>3 DEF MinOf
  <2> QED
    BY <1>12, <2>3, <2>4 DEF wanted, price, a, b
<1>15. CASE ~(excess > 0)
  <2>1. -excess \in Nat
    BY <1>13, <1>15
  <2>2. (-excess) \div Unit \in Nat
    BY <1>1, <2>1, DivNat
  <2> DEFINE q == MinOf((-excess) \div Unit, hand[2])
  <2>s. (excess > 0) = FALSE
    BY <1>13, <1>15
  <2>w. wanted = [possible |-> TRUE, sellsBase |-> FALSE, amount |-> q]
    BY <1>11, <2>s DEF SwapOf
  <2>3. wanted.sellsBase = FALSE /\ wanted.amount = MinOf((-excess) \div Unit, hand[2])
    <3> HIDE DEF q
    <3>1. wanted.sellsBase = FALSE /\ wanted.amount = q
      BY <2>w
    <3> QED
      BY <3>1 DEF q
  <2>4. wanted.amount \in Nat /\ wanted.amount <= hand[2]
    BY <2>2, <2>3 DEF MinOf
  <2> QED
    BY <1>12, <2>3, <2>4 DEF wanted, price, a, b
<1> QED
  BY <1>14, <1>15

\* The largest liquidity is among those tried, and it fits.
LEMMA MintedOK ==
    ASSUME base0 \in BOOLEAN, NEW hand \in Nat \X Nat, NEW snap, snap.price \in SqrtPrices,
           NEW target, RangeOK(target), SqrtRatio[target.lower] < SqrtRatio[target.upper]
    PROVE  LET mint == Minted(hand, snap, target)
               need == Oriented(MintAmounts(snap.price, SqrtRatio[target.lower],
                                            SqrtRatio[target.upper], mint.liq))
           IN  /\ mint.ok /\ mint.liq \in Nat
               /\ need[1] <= hand[1] /\ need[2] <= hand[2]
<1> DEFINE a == SqrtRatio[target.lower]
           b == SqrtRatio[target.upper]
           price == snap.price
           avail == Oriented(hand)
           x == avail[1]
           y == avail[2]
           most == GetLiquidityForAmounts(price, a, b, x, y)
           Fits(m) == /\ MintAmounts(price, a, b, m)[1] <= x
                      /\ MintAmounts(price, a, b, m)[2] <= y
           fitting == {m \in most - 3 .. most : Fits(m)}
           mint == Minted(hand, snap, target)
           need == MintAmounts(price, a, b, most)
<1>1. a \in Positive /\ b \in Positive /\ a < b /\ price \in Positive
  BY TickFacts, SqrtPriceFacts DEF RangeOK
<1>2. mint = IF fitting = {} THEN [ok |-> FALSE, liq |-> 0]
             ELSE [ok |-> TRUE, liq |-> Max(fitting)]
  BY DEF Minted, MintAmounts
<1>3. avail \in Nat \X Nat /\ Oriented(avail) = hand
  BY OrientedType
<1> HIDE DEF a, b, price, avail
<1>4. x \in Nat /\ y \in Nat
  BY <1>3
<1> HIDE DEF x, y
<1>5. most \in Nat /\ need \in Nat \X Nat /\ need[1] <= x /\ need[2] <= y
  BY <1>1, <1>4, MostFits
<1> HIDE DEF most
<1>6. most \in fitting
  BY <1>5
<1>7. fitting \in SUBSET Int /\ \A m \in fitting : m <= most
  BY <1>5
<1> HIDE DEF fitting
<1>8. Max(fitting) \in fitting /\ \A m \in fitting : m <= Max(fitting)
  BY <1>5, <1>6, <1>7, MaxBelow
<1>9. Max(fitting) = most
  <2> DEFINE n == Max(fitting)
  <2>1. n \in fitting /\ most <= n
    BY <1>6, <1>8
  <2> HIDE DEF n
  <2>2. n \in Int /\ n <= most
    BY <1>7, <2>1
  <2>3. n = most
    BY <1>5, <2>1, <2>2
  <2> QED
    BY <2>3 DEF n
<1>10. mint.ok /\ mint.liq = most
  BY <1>2, <1>6, <1>9
<1>11. Oriented(need)[1] <= hand[1] /\ Oriented(need)[2] <= hand[2]
  <2> HIDE DEF need
  <2>1. need[1] <= avail[1] /\ need[2] <= avail[2]
    BY <1>5 DEF x, y
  <2> QED
    BY <1>3, <1>5, <2>1, OrientedType
<1> QED
  BY <1>5, <1>10, <1>11 DEF a, b, price

HandOf(l, snap) == Collected(l, Principal(l, snap))

\* The ledger with a new range, opened with `after' in hand.
NewRange(l, snap, target, after, liquidity) ==
    Opened(l, snap, target, after,
           Value(HandOf(l, snap)[1], HandOf(l, snap)[2], Price(snap.price))
             - Value(after[1], after[2], Price(snap.price)),
           RealizedIl(l, Principal(l, snap), Price(snap.price)), liquidity)

NeedOf(snap, target, liquidity) ==
    Oriented(MintAmounts(snap.price, SqrtRatio[target.lower], SqrtRatio[target.upper], liquidity))
OpenOf(snap, target, liquidity) ==
    Oriented(BurnAmounts(snap.price, SqrtRatio[target.lower], SqrtRatio[target.upper], liquidity))

Affordable(snap, target, after, liquidity) ==
    /\ RangeOK(target) /\ after \in Nat \X Nat /\ liquidity \in Positive
    /\ NeedOf(snap, target, liquidity)[1] <= after[1]
    /\ NeedOf(snap, target, liquidity)[2] <= after[2]

\* A rebalance raises, notes why it did nothing, or opens a range it can pay for.
LEMMA RebalanceCases ==
    ASSUME base0 \in BOOLEAN, NEW l \in LedgerType, Consistent(l), NEW snap, SnapOK(snap),
           NEW center \in Int
    PROVE  \/ Rebalance(l, snap, center) = [ledger |-> l, raised |-> TRUE]
           \/ \E note \in Notes : Rebalance(l, snap, center) = Noted(l, note)
           \/ \E target, after, liquidity :
                /\ Affordable(snap, target, after, liquidity)
                /\ Rebalance(l, snap, center) = Done(NewRange(l, snap, target, after, liquidity))
<1> DEFINE r == Rebalance(l, snap, center)
           price == Price(snap.price)
           target == TargetRange(center, snap)
           principal == Principal(l, snap)
           hand == Collected(l, principal)
           il == RealizedIl(l, principal, price)
           wanted == SwapWanted(hand, snap, target, price)
           quote == SwapQuote(snap, wanted)
           after == Swapped(hand, wanted, quote.out)
           mint == Minted(after, snap, target)
           cost == Value(hand[1], hand[2], price) - Value(after[1], after[2], price)
<1>1. CASE snap.window = None
  <2>1. r = Noted(l, "waiting for window")
    BY <1>1 DEF Rebalance
  <2> QED
    BY <2>1 DEF Notes
<1>2. CASE snap.window # None
  <2>1. r = IF ~wanted.possible THEN Noted(l, "below minimum")
            ELSE CASE quote.reason = "raised" -> [ledger |-> l, raised |-> TRUE]
                   [] quote.reason \in {"window_exhausted", "price_limit"} -> Noted(l, "swap hit limit")
                   [] OTHER -> MintAndOpen(l, snap, target, after, cost, il, mint)
    BY <1>2 DEF Rebalance
  <2>2. price \in Nat /\ snap.price \in SqrtPrices /\ snap.tick \in Int /\ snap.liq \in Nat
    BY PriceType DEF SnapOK
  <2>3. WindowOK(snap.window)
    BY <1>2 DEF SnapOK, MaybeWindow
  <2>4. RangeOK(target)
    BY <2>2, <2>3, TargetOK
  <2>5. principal \in Nat \X Nat
    BY <2>2, PrincipalType DEF Consistent
  <2>6. hand \in Nat \X Nat
    <3> HIDE DEF principal
    <3> QED
      BY <2>5 DEF Collected, LedgerType
  <2>7. CASE ~wanted.possible
    BY <2>1, <2>7 DEF Notes
  <2>8. CASE wanted.possible
    <3>1. /\ wanted.sellsBase \in BOOLEAN /\ wanted.amount \in Nat
          /\ wanted.sellsBase => wanted.amount <= hand[1]
          /\ ~wanted.sellsBase => wanted.amount <= hand[2]
          /\ SqrtRatio[target.lower] < SqrtRatio[target.upper]
      BY <2>2, <2>4, <2>6, <2>8, SwapWantedOK
    <3>r. r = CASE quote.reason = "raised" -> [ledger |-> l, raised |-> TRUE]
                [] quote.reason \in {"window_exhausted", "price_limit"} -> Noted(l, "swap hit limit")
                [] OTHER -> MintAndOpen(l, snap, target, after, cost, il, mint)
      <4> HIDE DEF r, wanted, quote, target, after, cost, il, mint
      <4> QED
        BY <2>1, <2>8
    <3>2. quote.out \in Nat
      <4> DEFINE state == [price |-> snap.price, tick |-> snap.tick, liquidity |-> snap.liq,
                           fee |-> FeePips]
                 zero == (wanted.sellsBase = base0)
                 amount == wanted.amount
      <4>1. CASE wanted.amount = 0
        BY <4>1 DEF SwapQuote
      <4>2. CASE wanted.amount # 0
        <5>1. quote = SimulateExactInput(state, snap.window, zero, amount)
          BY <4>2 DEF SwapQuote
        <5>2. zero \in BOOLEAN /\ amount \in Int
          BY <3>1
        <5>3. /\ state.price \in SqrtPrices /\ state.tick \in Int /\ state.liquidity \in Nat
              /\ state.fee = FeePips
          BY <2>2
        <5>4. FeeOK(state.fee)
          BY <5>3, LpConstants, MathConstants DEF FeeOK, Positive
        <5> HIDE DEF state, zero, amount, quote
        <5> QED
          BY <2>3, <5>1, <5>2, <5>3, <5>4, SwapOutIsNatural
      <4> QED
        BY <4>1, <4>2
    <3>3. after \in Nat \X Nat
      <4> HIDE DEF hand, wanted, quote
      <4>1. CASE wanted.sellsBase
        <5>1. after = <<hand[1] - wanted.amount, hand[2] + quote.out>>
          BY <4>1 DEF Swapped
        <5> QED
          BY <2>6, <3>1, <3>2, <4>1, <5>1
      <4>2. CASE ~wanted.sellsBase
        <5>1. after = <<hand[1] + quote.out, hand[2] - wanted.amount>>
          BY <4>2 DEF Swapped
        <5> QED
          BY <2>6, <3>1, <3>2, <4>2, <5>1
      <4> QED
        BY <4>1, <4>2
    <3> HIDE DEF after, target
    <3>4. /\ mint.ok /\ mint.liq \in Nat
          /\ NeedOf(snap, target, mint.liq)[1] <= after[1]
          /\ NeedOf(snap, target, mint.liq)[2] <= after[2]
      BY <2>2, <2>4, <3>1, <3>3, MintedOK DEF NeedOf
    <3> HIDE DEF mint, r, wanted, quote, cost, il, hand
    <3>5. CASE quote.reason = "raised"
      BY <3>r, <3>5 DEF r
    <3>6. CASE quote.reason \in {"window_exhausted", "price_limit"}
      <4>1. quote.reason # "raised"
        BY <3>6
      <4>2. r = Noted(l, "swap hit limit")
        BY <3>r, <3>6, <4>1
      <4> QED
        BY <4>2 DEF Notes, r
    <3>7. CASE quote.reason # "raised" /\ quote.reason \notin {"window_exhausted", "price_limit"}
      <4>1. r = MintAndOpen(l, snap, target, after, cost, il, mint)
        BY <3>r, <3>7
      <4>2. CASE mint.liq <= 0
        <5>1. r = Noted(l, "below minimum")
          BY <3>4, <4>1, <4>2 DEF MintAndOpen
        <5> QED
          BY <5>1 DEF Notes, r
      <4>3. CASE ~(mint.liq <= 0)
        <5>1. r = Done(Opened(l, snap, target, after, cost, il, mint.liq))
          BY <3>4, <4>1, <4>3 DEF MintAndOpen
        <5>2. Opened(l, snap, target, after, cost, il, mint.liq)
                = NewRange(l, snap, target, after, mint.liq)
          BY DEF NewRange, cost, il, hand, HandOf
        <5>3. Affordable(snap, target, after, mint.liq)
          BY <2>4, <3>3, <3>4, <4>3 DEF Affordable, Positive
        <5> QED
          BY <5>1, <5>2, <5>3 DEF r
      <4> QED
        BY <4>2, <4>3
    <3> QED
      BY <3>5, <3>6, <3>7
  <2> QED
    BY <2>7, <2>8
<1> QED
  BY <1>1, <1>2

-----------------------------------------------------------------------------
(* What the parts of the ledger leave unexplained, at a price *)

Gap(l, p) ==
    ((l.openB + l.idleB + l.feesB) * p + (l.openQ + l.idleQ + l.feesQ) * Unit + l.swap)
      - (Capital * Unit + l.fees + l.hodl + l.il)

LEMMA Distribute ==
    ASSUME NEW a \in Int, NEW b \in Int, NEW c \in Int, NEW k \in Int
    PROVE  (a + b + c) * k = a * k + b * k + c * k
OBVIOUS

LEMMA DistributeTwo ==
    ASSUME NEW a \in Int, NEW b \in Int, NEW k \in Int
    PROVE  (a + b) * k = a * k + b * k /\ (a - b) * k = a * k - b * k
OBVIOUS

LEMMA LedgerFields ==
    ASSUME NEW l \in LedgerType
    PROVE  /\ l.idleB \in Nat /\ l.idleQ \in Nat /\ l.liq \in Nat /\ l.openB \in Nat
           /\ l.openQ \in Nat /\ l.feesB \in Nat /\ l.feesQ \in Nat /\ l.fees \in Int
           /\ l.il \in Int /\ l.hodl \in Int /\ l.swap \in Int /\ l.gas \in Int
           /\ l.epoch \in Nat /\ l.lower \in Ticks /\ l.upper \in Ticks
           /\ l.last \in Seen \union {None}
BY DEF LedgerType

LEMMA CapitalType == Capital \in Nat /\ Unit \in Nat /\ Capital * Unit \in Nat
<1>1. Capital \in Nat /\ Unit \in Nat
  BY LpConstants, Widths DEF Positive
<1> QED
  BY <1>1, Factors

\* The error that the ledger reports is this gap at the last price.
LEMMA ErrorIsGap ==
    ASSUME base0 \in BOOLEAN, NEW l \in LedgerType, Consistent(l)
    PROVE  Error(l) = IF l.last = None THEN 0 ELSE Gap(l, Price(l.last.price))
<1>1. CASE l.last = None
  BY <1>1 DEF Error
<1>2. CASE l.last # None
  <2> DEFINE p == Price(l.last.price)
             pr == Principal(l, l.last)
             x == pr[1]
             y == pr[2]
             principal == Value(x, y, p)
             open == Value(l.openB, l.openQ, p)
             value == principal + Value(l.idleB, l.idleQ, p) + Value(l.feesB, l.feesQ, p) - l.gas
             expected == Capital * Unit + l.fees + l.hodl - l.swap - l.gas
                         + l.il + (IF l.liq > 0 THEN principal - open ELSE 0)
  <2>1. l.last.price \in SqrtPrices
    BY <1>2, LedgerFields DEF Seen
  <2>2. p \in Nat /\ pr \in Nat \X Nat /\ (l.liq = 0 => pr = <<0, 0>>)
    BY <2>1, PriceType, PrincipalType DEF Consistent
  <2>3. Error(l) = value - expected
    <3> DEFINE state == [value |-> value, expected |-> expected]
    <3>1. StateOf(l, l.last) = state
      BY DEF StateOf
    <3>2. state.value = value /\ state.expected = expected
      OBVIOUS
    <3> HIDE DEF state, value, expected
    <3> QED
      BY <1>2, <3>1, <3>2 DEF Error
  <2> HIDE DEF p, pr
  <2>4. x \in Nat /\ y \in Nat /\ (l.liq = 0 => x = 0 /\ y = 0)
    BY <2>2
  <2> HIDE DEF x, y
  <2> DEFINE ib == l.idleB * p
             fb == l.feesB * p
             ob == l.openB * p
             iq == l.idleQ * Unit
             fq == l.feesQ * Unit
             oq == l.openQ * Unit
             xp == x * p
             yu == y * Unit
  <2>5. /\ ib \in Int /\ fb \in Int /\ ob \in Int /\ iq \in Int /\ fq \in Int /\ oq \in Int
        /\ xp \in Int /\ yu \in Int
    BY <2>2, <2>4, LedgerFields, CapitalType
  <2>6. Gap(l, p) = ((ob + ib + fb) + (oq + iq + fq) + l.swap)
                    - (Capital * Unit + l.fees + l.hodl + l.il)
    <3>1. (l.openB + l.idleB + l.feesB) * p = ob + ib + fb
      BY <2>2, LedgerFields, Distribute
    <3>2. (l.openQ + l.idleQ + l.feesQ) * Unit = oq + iq + fq
      BY LedgerFields, CapitalType, Distribute
    <3> HIDE DEF ib, fb, ob, iq, fq, oq
    <3> QED
      BY <3>1, <3>2 DEF Gap
  <2>7. l.liq = 0 => xp = 0 /\ yu = 0 /\ ob = 0 /\ oq = 0
    BY <2>2, <2>4, CapitalType DEF Consistent
  <2>8. value = ((xp + yu) + (ib + iq) + (fb + fq)) - l.gas
    <3> HIDE DEF ib, fb, ob, iq, fq, oq, xp, yu
    <3> QED
      BY <2>5, LedgerFields DEF Value, ib, fb, ob, iq, fq, oq, xp, yu
  <2>9. expected = (Capital * Unit + l.fees + l.hodl - l.swap - l.gas) + l.il
                   + (IF l.liq > 0 THEN (xp + yu) - (ob + oq) ELSE 0)
    <3>1. principal = xp + yu /\ open = ob + oq
      BY DEF Value
    <3> HIDE DEF principal, open, xp, yu, ob, oq
    <3> QED
      BY <2>5, <3>1, LedgerFields, CapitalType
  <2> HIDE DEF value, expected, ib, fb, ob, iq, fq, oq, xp, yu
  <2>10. value - expected = Gap(l, p)
    <3> DEFINE cu == Capital * Unit
    <3>1. cu \in Int
      BY CapitalType
    <3> HIDE DEF cu
    <3>2. Gap(l, p) = ((ob + ib + fb) + (oq + iq + fq) + l.swap) - (cu + l.fees + l.hodl + l.il)
      BY <2>6 DEF cu
    <3>3. expected = (cu + l.fees + l.hodl - l.swap - l.gas) + l.il
                     + (IF l.liq > 0 THEN (xp + yu) - (ob + oq) ELSE 0)
      BY <2>9 DEF cu
    <3>4. /\ l.liq \in Nat /\ l.fees \in Int /\ l.hodl \in Int /\ l.il \in Int
          /\ l.swap \in Int /\ l.gas \in Int
      BY LedgerFields
    <3>5. CASE l.liq > 0
      <4>1. expected = (cu + l.fees + l.hodl - l.swap - l.gas) + l.il + ((xp + yu) - (ob + oq))
        BY <3>3, <3>5
      <4> QED
        BY <2>5, <2>8, <3>1, <3>2, <3>4, <4>1
    <3>6. CASE l.liq = 0
      <4>1. expected = (cu + l.fees + l.hodl - l.swap - l.gas) + l.il + 0
        BY <3>3, <3>6
      <4>2. xp = 0 /\ yu = 0 /\ ob = 0 /\ oq = 0
        BY <2>7, <3>6
      <4> QED
        BY <2>5, <2>8, <3>1, <3>2, <3>4, <4>1, <4>2
    <3> QED
      BY <3>4, <3>5, <3>6
  <2> QED
    BY <1>2, <2>3, <2>10 DEF p
<1> QED
  BY <1>1, <1>2

\* Booking a fee and a move of the price leaves the gap as it was.
LEMMA BookedGap ==
    ASSUME base0 \in BOOLEAN, NEW l \in LedgerType, l.last # None, NEW cur, SnapOK(cur),
           NEW fee \in Nat \X Nat, NEW acc \in Accuracies
    PROVE  /\ Booked(l, cur, fee, acc) \in LedgerType
           /\ Gap(Booked(l, cur, fee, acc), Price(cur.price)) = Gap(l, Price(l.last.price))
<1> DEFINE p == Price(cur.price)
           q == Price(l.last.price)
           v == Value(fee[1], fee[2], p)
           h == Hodl(l, l.last, cur)
           n == Booked(l, cur, fee, acc)
           b == l.openB + l.idleB + l.feesB
           f == fee[1]
           g == fee[2]
           cu == Capital * Unit
<1>1. p \in Nat /\ q \in Nat
  BY LedgerFields, PriceType DEF Seen, SnapOK
<1>2. f \in Nat /\ g \in Nat /\ b \in Nat
  BY LedgerFields
<1>3. v = f * p + g * Unit /\ h = b * (p - q)
  BY DEF Value, Hodl
<1>4. n = [l EXCEPT !.acc = acc, !.feesB = l.feesB + f, !.feesQ = l.feesQ + g,
                    !.fees = l.fees + v, !.hodl = l.hodl + h]
  BY DEF Booked
<1> HIDE DEF p, q, b, f, g, cu, v, h
<1>5. f * p \in Int /\ g * Unit \in Int /\ b * p \in Int /\ b * q \in Int /\ cu \in Int
  BY <1>1, <1>2, CapitalType DEF cu
<1>6. h = b * p - b * q
  BY <1>1, <1>2, <1>3
<1>7. v \in Int /\ h \in Int
  BY <1>3, <1>5, <1>6
<1> HIDE DEF n
<1>8. /\ n.openB = l.openB /\ n.idleB = l.idleB /\ n.feesB = l.feesB + f
      /\ n.openQ = l.openQ /\ n.idleQ = l.idleQ /\ n.feesQ = l.feesQ + g
      /\ n.swap = l.swap /\ n.il = l.il /\ n.fees = l.fees + v /\ n.hodl = l.hodl + h
  BY <1>4 DEF LedgerType
<1>9. n \in LedgerType
  <2>1. l.feesB + f \in Nat /\ l.feesQ + g \in Nat /\ l.fees + v \in Int /\ l.hodl + h \in Int
    BY <1>2, <1>7, LedgerFields
  <2> QED
    BY <1>4, <2>1 DEF LedgerType
<1>10. Gap(n, p) = Gap(l, q)
  <2>1. (l.openB + l.idleB + (l.feesB + f)) * p = b * p + f * p
    <3>1. l.openB + l.idleB + (l.feesB + f) = b + f
      BY <1>2, LedgerFields DEF b
    <3> QED
      BY <1>1, <1>2, <3>1, DistributeTwo
  <2> DEFINE c == l.openQ + l.idleQ + l.feesQ
  <2>2. (l.openQ + l.idleQ + (l.feesQ + g)) * Unit = c * Unit + g * Unit
    <3>1. l.openQ + l.idleQ + (l.feesQ + g) = c + g /\ c \in Nat
      BY <1>2, LedgerFields
    <3> HIDE DEF c
    <3> QED
      BY <1>2, <3>1, CapitalType, DistributeTwo
  <2>3. c * Unit \in Int
    BY LedgerFields, CapitalType
  <2>4. Gap(n, p) = ((b * p + f * p) + (c * Unit + g * Unit) + l.swap)
                    - (cu + (l.fees + v) + (l.hodl + h) + l.il)
    BY <1>8, <2>1, <2>2 DEF Gap, cu
  <2>5. Gap(l, q) = (b * q + c * Unit + l.swap) - (cu + l.fees + l.hodl + l.il)
    BY DEF Gap, cu, b
  <2> HIDE DEF c
  <2> QED
    BY <1>3, <1>5, <1>6, <1>7, <2>3, <2>4, <2>5, LedgerFields
<1> QED
  BY <1>9, <1>10 DEF n, p, q

\* Opening a range keeps the books, but for the dust of the mint.
LEMMA NewRangeOK ==
    ASSUME base0 \in BOOLEAN, NEW l \in LedgerType, Consistent(l), NEW snap, SnapOK(snap),
           NEW target, NEW after, NEW liquidity, Affordable(snap, target, after, liquidity)
    PROVE  LET n == NewRange(l, snap, target, after, liquidity)
               p == Price(snap.price)
           IN  /\ n \in LedgerType /\ n.lower <= n.upper /\ n.liq # 0 /\ n.epoch = l.epoch + 1
               /\ n.ready = l.ready /\ n.acc = l.acc /\ n.fees = l.fees
               /\ Gap(n, p) <= Gap(l, p) /\ Gap(n, p) >= Gap(l, p) - Unit - p
<1> DEFINE p == Price(snap.price)
           n == NewRange(l, snap, target, after, liquidity)
           pr == Principal(l, snap)
           x == pr[1]
           y == pr[2]
           hand == HandOf(l, snap)
           cost == Value(hand[1], hand[2], p) - Value(after[1], after[2], p)
           il == RealizedIl(l, pr, p)
           need == NeedOf(snap, target, liquidity)
           open == OpenOf(snap, target, liquidity)
           cu == Capital * Unit
           gas == GasCost(snap)
<1>1. p \in Nat /\ snap.price \in Positive /\ snap.price \in SqrtPrices
  BY PriceType, SqrtPriceFacts DEF SnapOK
<1>2. x \in Nat /\ y \in Nat /\ (l.liq = 0 => x = 0 /\ y = 0)
  <2>1. pr \in Nat \X Nat /\ (l.liq = 0 => pr = <<0, 0>>)
    BY <1>1, PrincipalType DEF Consistent
  <2> HIDE DEF pr
  <2> QED
    BY <2>1
<1>3. hand[1] = l.idleB + x + l.feesB /\ hand[2] = l.idleQ + y + l.feesQ
  BY DEF HandOf, Collected
<1>4. after[1] \in Nat /\ after[2] \in Nat /\ liquidity \in Nat /\ liquidity # 0
  BY DEF Affordable, Positive
<1>5. /\ need[1] \in Nat /\ need[2] \in Nat /\ open[1] \in Nat /\ open[2] \in Nat
      /\ need[1] <= after[1] /\ need[2] <= after[2]
      /\ open[1] <= need[1] /\ need[1] <= open[1] + 1
      /\ open[2] <= need[2] /\ need[2] <= open[2] + 1
  <2> DEFINE price == snap.price
             a == SqrtRatio[target.lower]
             b == SqrtRatio[target.upper]
             up == MintAmounts(price, a, b, liquidity)
             down == BurnAmounts(price, a, b, liquidity)
  <2>1. a \in Positive /\ b \in Positive /\ a <= b
    BY SqrtRange DEF Affordable, RangeOK
  <2>2. need = Oriented(up) /\ open = Oriented(down)
    BY DEF NeedOf, OpenOf
  <2>3. need[1] <= after[1] /\ need[2] <= after[2]
    BY DEF Affordable
  <2> HIDE DEF a, b, price, need, open
  <2>4. price \in Positive
    BY <1>1 DEF price
  <2>5. /\ up \in Nat \X Nat /\ down \in Nat \X Nat
        /\ down[1] <= up[1] /\ up[1] <= down[1] + 1
        /\ down[2] <= up[2] /\ up[2] <= down[2] + 1
    BY <1>4, <2>1, <2>4, AmountsAreNatural
  <2> HIDE DEF up, down
  <2> QED
    BY <2>2, <2>3, <2>5 DEF Oriented
<1>6. n = [l EXCEPT !.il = l.il + il, !.idleB = after[1] - need[1], !.idleQ = after[2] - need[2],
                    !.feesB = 0, !.feesQ = 0, !.liq = liquidity, !.lower = target.lower,
                    !.upper = target.upper, !.center = target.center,
                    !.openB = open[1], !.openQ = open[2], !.swap = l.swap + cost,
                    !.gas = l.gas + gas, !.epoch = l.epoch + 1, !.lastAt = snap.block]
  BY DEF NewRange, Opened, NeedOf, OpenOf, MintAmounts, BurnAmounts
<1>7. il = IF l.liq <= 0 THEN 0 ELSE (x * p + y * Unit) - (l.openB * p + l.openQ * Unit)
  BY DEF RealizedIl, Value
<1>8. gas \in Int
  <2>1. GasLive \in Nat /\ GasFallback \in Nat
    BY LpConstants
  <2>2. GasLive * p \in Nat /\ GasFallback * p \in Nat
    BY <1>1, <2>1, Factors
  <2>3. gas = GasLive * p \/ gas = GasFallback * p
    BY DEF GasCost
  <2> QED
    BY <2>2, <2>3
<1> DEFINE ib == l.idleB * p
           fb == l.feesB * p
           ob == l.openB * p
           iq == l.idleQ * Unit
           fq == l.feesQ * Unit
           oq == l.openQ * Unit
           xp == x * p
           yu == y * Unit
           ap == after[1] * p
           aq == after[2] * Unit
           db == (need[1] - open[1]) * p
           dq == (need[2] - open[2]) * Unit
<1>9. cost = (ib + xp + fb + (iq + yu + fq)) - (ap + aq)
  <2>1. (l.idleB + x + l.feesB) * p = ib + xp + fb
    BY <1>1, <1>2, LedgerFields, Distribute
  <2>2. (l.idleQ + y + l.feesQ) * Unit = iq + yu + fq
    BY <1>2, LedgerFields, CapitalType, Distribute
  <2> QED
    BY <1>3, <2>1, <2>2 DEF Value
<1> HIDE DEF p, n, x, y, hand, cost, il, need, open, gas, cu
<1>10. /\ ib \in Int /\ fb \in Int /\ ob \in Int /\ iq \in Int /\ fq \in Int /\ oq \in Int
       /\ xp \in Int /\ yu \in Int /\ ap \in Int /\ aq \in Int /\ cu \in Int
  BY <1>1, <1>2, <1>4, LedgerFields, CapitalType DEF cu
<1>11. l.liq = 0 => xp = 0 /\ yu = 0 /\ ob = 0 /\ oq = 0
  BY <1>1, <1>2, CapitalType DEF Consistent
<1>12. db \in 0..p /\ dq \in 0..Unit
  <2>1. need[1] - open[1] = 0 \/ need[1] - open[1] = 1
    BY <1>5
  <2>2. need[2] - open[2] = 0 \/ need[2] - open[2] = 1
    BY <1>5
  <2>3. db = 0 \/ db = p
    BY <1>1, <2>1
  <2>4. dq = 0 \/ dq = Unit
    BY <2>2, CapitalType
  <2> QED
    BY <1>1, <2>3, <2>4, CapitalType
<1>13. (open[1] + (after[1] - need[1]) + 0) * p = ap - db
  <2>1. open[1] + (after[1] - need[1]) + 0 = after[1] - (need[1] - open[1])
    BY <1>4, <1>5
  <2>2. need[1] - open[1] \in Int
    BY <1>5
  <2> QED
    BY <1>1, <1>4, <2>1, <2>2, DistributeTwo
<1>14. (open[2] + (after[2] - need[2]) + 0) * Unit = aq - dq
  <2>1. open[2] + (after[2] - need[2]) + 0 = after[2] - (need[2] - open[2])
    BY <1>4, <1>5
  <2>2. need[2] - open[2] \in Int
    BY <1>5
  <2> QED
    BY <1>4, <2>1, <2>2, CapitalType, DistributeTwo
<1>15. il = IF l.liq <= 0 THEN 0 ELSE (xp + yu) - (ob + oq)
  BY <1>7
<1>16. Gap(l, p) = ((ob + ib + fb) + (oq + iq + fq) + l.swap) - (cu + l.fees + l.hodl + l.il)
  <2>1. (l.openB + l.idleB + l.feesB) * p = ob + ib + fb
    BY <1>1, LedgerFields, Distribute
  <2>2. (l.openQ + l.idleQ + l.feesQ) * Unit = oq + iq + fq
    BY LedgerFields, CapitalType, Distribute
  <2> HIDE DEF ib, fb, ob, iq, fq, oq
  <2> QED
    BY <2>1, <2>2 DEF Gap, cu
<1> HIDE DEF ib, fb, ob, iq, fq, oq, xp, yu, ap, aq, db, dq
<1>17. il = (xp + yu) - (ob + oq) /\ il \in Int /\ cost \in Int
  <2>1. l.liq \in Nat
    BY LedgerFields
  <2>2. CASE l.liq = 0
    BY <1>9, <1>10, <1>11, <1>15, <2>2
  <2>3. CASE l.liq > 0
    <3>1. il = (xp + yu) - (ob + oq)
      BY <1>15, <2>1, <2>3
    <3> QED
      BY <1>9, <1>10, <3>1
  <2> QED
    BY <2>1, <2>2, <2>3
<1>18. /\ n.openB = open[1] /\ n.idleB = after[1] - need[1] /\ n.feesB = 0
       /\ n.openQ = open[2] /\ n.idleQ = after[2] - need[2] /\ n.feesQ = 0
       /\ n.swap = l.swap + cost /\ n.il = l.il + il /\ n.fees = l.fees /\ n.hodl = l.hodl
       /\ n.lower = target.lower /\ n.upper = target.upper /\ n.liq = liquidity
       /\ n.epoch = l.epoch + 1 /\ n.ready = l.ready /\ n.acc = l.acc
  BY <1>6 DEF LedgerType
<1>19. n \in LedgerType
  <2>1. /\ l.il + il \in Int /\ after[1] - need[1] \in Nat /\ after[2] - need[2] \in Nat
        /\ l.swap + cost \in Int /\ l.gas + gas \in Int /\ l.epoch + 1 \in Nat
    BY <1>4, <1>5, <1>8, <1>17, LedgerFields
  <2>2. target.lower \in Ticks /\ target.upper \in Ticks /\ target.center \in Int
    BY DEF Affordable, RangeOK
  <2>3. snap.block \in Nat /\ 0 \in Nat
    BY DEF SnapOK
  <2> QED
    BY <1>4, <1>5, <1>6, <2>1, <2>2, <2>3 DEF LedgerType
<1>20. n.lower <= n.upper
  BY <1>18 DEF Affordable, RangeOK
<1>21. Gap(n, p) = ((ap - db) + (aq - dq) + (l.swap + cost))
                   - (cu + l.fees + l.hodl + (l.il + il))
  BY <1>13, <1>14, <1>18 DEF Gap, cu
<1>22. Gap(n, p) = Gap(l, p) - (db + dq)
  <2>1. l.swap \in Int /\ l.fees \in Int /\ l.hodl \in Int /\ l.il \in Int /\ db \in Int /\ dq \in Int
    BY <1>1, <1>12, LedgerFields, CapitalType
  <2> QED
    BY <1>9, <1>10, <1>16, <1>17, <1>21, <2>1
<1>23. Gap(l, p) \in Int
  BY <1>10, <1>16, LedgerFields
<1>24. Gap(n, p) <= Gap(l, p) /\ Gap(n, p) >= Gap(l, p) - Unit - p
  BY <1>1, <1>12, <1>22, <1>23, CapitalType
<1> QED
  BY <1>4, <1>18, <1>19, <1>20, <1>24 DEF n, p

-----------------------------------------------------------------------------
(* One observation *)

CleanOf(l) ==
    [l EXCEPT !.ready = TRUE, !.note = "none", !.idleQ = IF l.ready THEN @ ELSE Capital]

LEMMA CleanOK ==
    ASSUME NEW l \in LedgerType, Consistent(l), NEW note \in Notes
    PROVE  LET c == [CleanOf(l) EXCEPT !.note = note]
           IN  /\ c \in LedgerType /\ Consistent(c) /\ c.ready /\ c.last = l.last
               /\ c.epoch = l.epoch /\ c.liq = l.liq /\ c.lower = l.lower /\ c.upper = l.upper
               /\ c.fees = l.fees /\ c.acc = l.acc
               /\ l.last # None => \A p : Gap(c, p) = Gap(l, p)
<1> DEFINE q == IF l.ready THEN l.idleQ ELSE Capital
           c == [CleanOf(l) EXCEPT !.note = note]
<1>1. q \in Nat /\ (l.last # None => q = l.idleQ) /\ (l.last = None => q = Capital)
  BY LedgerFields, CapitalType DEF Consistent
<1>2. c = [l EXCEPT !.ready = TRUE, !.note = note, !.idleQ = q]
  BY DEF CleanOf, LedgerType
<1> HIDE DEF q, c
<1>3. /\ c.idleB = l.idleB /\ c.idleQ = q /\ c.liq = l.liq /\ c.lower = l.lower
      /\ c.upper = l.upper /\ c.openB = l.openB /\ c.openQ = l.openQ /\ c.feesB = l.feesB
      /\ c.feesQ = l.feesQ /\ c.fees = l.fees /\ c.il = l.il /\ c.hodl = l.hodl
      /\ c.swap = l.swap /\ c.epoch = l.epoch /\ c.acc = l.acc /\ c.last = l.last
  BY <1>2 DEF LedgerType
<1>4. c.ready
  BY <1>2 DEF LedgerType
<1>5. c \in LedgerType
  BY <1>1, <1>2 DEF LedgerType
<1>6. Consistent(c)
  BY <1>1, <1>3, <1>4 DEF Consistent
<1>7. l.last # None => \A p : Gap(c, p) = Gap(l, p)
  BY <1>1, <1>3 DEF Gap
<1> QED
  BY <1>3, <1>4, <1>5, <1>6, <1>7 DEF c

\* The ledger after the snapshot is accrued.
Observed(c, snap) == IF c.last = None THEN c ELSE Accrue(c, c.last, snap)

LEMMA ObservedOK ==
    ASSUME base0 \in BOOLEAN, NEW c \in LedgerType, Consistent(c), c.ready, NEW snap, SnapOK(snap)
    PROVE  LET o == Observed(c, snap)
               fee == FeesOf(c, c.last, snap, GrowthInside(c, c.last, snap))
           IN  /\ o \in LedgerType /\ Consistent(o) /\ o.ready /\ o.last = c.last
               /\ o.epoch = c.epoch /\ o.liq = c.liq /\ o.lower = c.lower /\ o.upper = c.upper
               /\ Gap(o, Price(snap.price))
                    = IF c.last = None THEN 0 ELSE Gap(c, Price(c.last.price))
               /\ o.acc = "exact" =>
                    /\ c.last # None /\ IsExact(c, c.last, snap)
                    /\ o.fees = c.fees + Value(fee[1], fee[2], Price(snap.price))
<1> DEFINE o == Observed(c, snap)
<1>1. CASE c.last = None
  <2> DEFINE p == Price(snap.price)
  <2>1. o = c
    BY <1>1 DEF Observed
  <2>2. p \in Nat
    BY PriceType DEF SnapOK
  <2> HIDE DEF p
  <2>3. Gap(c, p) = (0 * p + Capital * Unit + 0) - (Capital * Unit + 0 + 0 + 0)
    <3>1. /\ c.openB + c.idleB + c.feesB = 0 /\ c.openQ + c.idleQ + c.feesQ = Capital
          /\ c.swap = 0 /\ c.fees = 0 /\ c.hodl = 0 /\ c.il = 0
      BY <1>1, CapitalType DEF Consistent
    <3> QED
      BY <3>1 DEF Gap
  <2>4. Gap(c, p) = 0
    BY <2>2, <2>3, CapitalType
  <2>5. c.acc # "exact"
    BY <1>1 DEF Consistent
  <2> QED
    BY <1>1, <2>1, <2>4, <2>5 DEF p
<1>2. CASE c.last # None
  <2>1. PICK fee \in Nat \X Nat, acc \in Accuracies :
          /\ Accrue(c, c.last, snap) = Booked(c, snap, fee, acc)
          /\ acc = "exact" => /\ IsExact(c, c.last, snap)
                              /\ fee = FeesOf(c, c.last, snap, GrowthInside(c, c.last, snap))
    BY <1>2, AccrueBooks
  <2>2. o = Booked(c, snap, fee, acc)
    BY <1>2, <2>1 DEF Observed
  <2>3. o \in LedgerType /\ Gap(o, Price(snap.price)) = Gap(c, Price(c.last.price))
    BY <1>2, <2>2, BookedGap
  <2> HIDE DEF o
  <2>4. /\ o.ready = c.ready /\ o.last = c.last /\ o.epoch = c.epoch /\ o.liq = c.liq
        /\ o.lower = c.lower /\ o.upper = c.upper /\ o.openB = c.openB /\ o.openQ = c.openQ
        /\ o.acc = acc /\ o.fees = c.fees + Value(fee[1], fee[2], Price(snap.price))
    BY <2>2 DEF Booked, LedgerType
  <2>5. Consistent(o) /\ o.ready
    BY <1>2, <2>4 DEF Consistent
  <2>6. o.acc = "exact" =>
          LET f == FeesOf(c, c.last, snap, GrowthInside(c, c.last, snap))
          IN  /\ IsExact(c, c.last, snap)
              /\ o.fees = c.fees + Value(f[1], f[2], Price(snap.price))
    BY <2>1, <2>4
  <2> QED
    BY <1>2, <2>3, <2>4, <2>5, <2>6 DEF o
<1> QED
  BY <1>1, <1>2

\* What an observation leaves, raised or not.
LEMMA StepOnce ==
    ASSUME base0 \in BOOLEAN, ledger \in LedgerType, Consistent(ledger), NEW snap, SnapOK(snap),
           NEW center \in Nat
    PROVE  LET r == Step(snap, center)
               o == Observed(CleanOf(ledger), snap)
               p == Price(snap.price)
           IN  \/ r = [ledger |-> o, raised |-> TRUE]
               \/ \E n \in LedgerType :
                    /\ r = Done([n EXCEPT !.last = SeenOf(snap)])
                    /\ n.lower <= n.upper /\ (n.liq = 0 => n.openB = 0 /\ n.openQ = 0)
                    /\ n.ready /\ n.acc = o.acc /\ n.fees = o.fees
                    /\ \/ n.epoch = o.epoch /\ Gap(n, p) = Gap(o, p)
                       \/ /\ n.epoch = o.epoch + 1
                          /\ Gap(n, p) <= Gap(o, p) /\ Gap(n, p) >= Gap(o, p) - Unit - p
<1> DEFINE c == CleanOf(ledger)
           o == Observed(c, snap)
           p == Price(snap.price)
           seen == SeenOf(snap)
           mid == IF center = 0 THEN p ELSE center
           tried == IF RebalanceReason(o, snap) = "none" THEN Done(o) ELSE Rebalance(o, snap, mid)
           r == Step(snap, center)
<1>1. c \in LedgerType /\ Consistent(c) /\ c.ready
  <2>1. "none" \in Notes /\ c = [c EXCEPT !.note = "none"]
    BY DEF Notes, CleanOf, LedgerType
  <2> QED
    BY <2>1, CleanOK
<1>2. o \in LedgerType /\ Consistent(o) /\ o.ready
  <2> HIDE DEF c
  <2> QED
    BY <1>1, ObservedOK
<1>3. mid \in Int
  BY PriceType DEF SnapOK
<1>4. r = IF tried.raised THEN tried ELSE [tried EXCEPT !.ledger.last = seen]
  <2>1. ~snap.stale
    BY DEF SnapOK
  <2> QED
    BY <2>1 DEF Step, CleanOf, Observed, SeenOf
<1> HIDE DEF c, o, p, seen, mid, r
<1>5. ASSUME NEW n, tried = Done(n) PROVE r = Done([n EXCEPT !.last = seen])
  <2> HIDE DEF tried
  <2> QED
    BY <1>4, <1>5 DEF Done
<1>6. \/ tried = [ledger |-> o, raised |-> TRUE]
      \/ \E note \in Notes : tried = Noted(o, note)
      \/ tried = Done(o)
      \/ \E target, after, liquidity :
           /\ Affordable(snap, target, after, liquidity)
           /\ tried = Done(NewRange(o, snap, target, after, liquidity))
  <2>1. tried = Done(o) \/ tried = Rebalance(o, snap, mid)
    OBVIOUS
  <2>2. \/ Rebalance(o, snap, mid) = [ledger |-> o, raised |-> TRUE]
        \/ \E note \in Notes : Rebalance(o, snap, mid) = Noted(o, note)
        \/ \E target, after, liquidity :
             /\ Affordable(snap, target, after, liquidity)
             /\ Rebalance(o, snap, mid) = Done(NewRange(o, snap, target, after, liquidity))
    BY <1>2, <1>3, RebalanceCases
  <2> HIDE DEF tried
  <2> QED
    BY <2>1, <2>2
<1> HIDE DEF tried
<1>7. CASE tried = [ledger |-> o, raised |-> TRUE]
  <2>1. tried.raised
    BY <1>7
  <2>2. r = tried
    BY <1>4, <2>1
  <2> QED
    BY <1>7, <2>2 DEF o, c, r
<1>8. ASSUME NEW note \in Notes, tried = Noted(o, note)
      PROVE  \E n \in LedgerType :
               /\ r = Done([n EXCEPT !.last = seen])
               /\ n.lower <= n.upper /\ (n.liq = 0 => n.openB = 0 /\ n.openQ = 0)
               /\ n.ready /\ n.acc = o.acc /\ n.fees = o.fees
               /\ n.epoch = o.epoch /\ Gap(n, p) = Gap(o, p)
  <2> DEFINE n == [o EXCEPT !.note = note]
  <2>1. n \in LedgerType
    BY <1>2, <1>8 DEF LedgerType
  <2>2. r = Done([n EXCEPT !.last = seen])
    BY <1>5, <1>8 DEF Noted
  <2>3. /\ n.lower = o.lower /\ n.upper = o.upper /\ n.liq = o.liq /\ n.openB = o.openB
        /\ n.openQ = o.openQ /\ n.ready = o.ready /\ n.acc = o.acc /\ n.fees = o.fees
        /\ n.epoch = o.epoch /\ n.idleB = o.idleB /\ n.idleQ = o.idleQ /\ n.feesB = o.feesB
        /\ n.feesQ = o.feesQ /\ n.swap = o.swap /\ n.hodl = o.hodl /\ n.il = o.il
    BY <1>2 DEF LedgerType
  <2> HIDE DEF n
  <2>4. Gap(n, p) = Gap(o, p)
    BY <2>3 DEF Gap
  <2>5. n.lower <= n.upper /\ (n.liq = 0 => n.openB = 0 /\ n.openQ = 0) /\ n.ready
    BY <1>2, <2>3 DEF Consistent
  <2> QED
    BY <2>1, <2>2, <2>3, <2>4, <2>5
<1>9. ASSUME tried = Done(o)
      PROVE  \E n \in LedgerType :
               /\ r = Done([n EXCEPT !.last = seen])
               /\ n.lower <= n.upper /\ (n.liq = 0 => n.openB = 0 /\ n.openQ = 0)
               /\ n.ready /\ n.acc = o.acc /\ n.fees = o.fees
               /\ n.epoch = o.epoch /\ Gap(n, p) = Gap(o, p)
  <2>1. r = Done([o EXCEPT !.last = seen])
    BY <1>5, <1>9
  <2>2. o.lower <= o.upper /\ (o.liq = 0 => o.openB = 0 /\ o.openQ = 0)
    BY <1>2 DEF Consistent
  <2> QED
    BY <1>2, <2>1, <2>2
<1>10. ASSUME NEW target, NEW after, NEW liquidity, Affordable(snap, target, after, liquidity),
              tried = Done(NewRange(o, snap, target, after, liquidity))
       PROVE  \E n \in LedgerType :
                /\ r = Done([n EXCEPT !.last = seen])
                /\ n.lower <= n.upper /\ (n.liq = 0 => n.openB = 0 /\ n.openQ = 0)
                /\ n.ready /\ n.acc = o.acc /\ n.fees = o.fees
                /\ n.epoch = o.epoch + 1
                /\ Gap(n, p) <= Gap(o, p) /\ Gap(n, p) >= Gap(o, p) - Unit - p
  <2> DEFINE n == NewRange(o, snap, target, after, liquidity)
  <2>1. /\ n \in LedgerType /\ n.lower <= n.upper /\ n.liq # 0 /\ n.epoch = o.epoch + 1
        /\ n.ready = o.ready /\ n.acc = o.acc /\ n.fees = o.fees
        /\ Gap(n, p) <= Gap(o, p) /\ Gap(n, p) >= Gap(o, p) - Unit - p
    BY <1>2, <1>10, NewRangeOK DEF p
  <2>2. r = Done([n EXCEPT !.last = seen])
    BY <1>5, <1>10
  <2> HIDE DEF n
  <2> QED
    BY <1>2, <2>1, <2>2
<1> QED
  <2>1. \/ r = [ledger |-> o, raised |-> TRUE]
        \/ \E n \in LedgerType :
             /\ r = Done([n EXCEPT !.last = seen])
             /\ n.lower <= n.upper /\ (n.liq = 0 => n.openB = 0 /\ n.openQ = 0)
             /\ n.ready /\ n.acc = o.acc /\ n.fees = o.fees
             /\ \/ n.epoch = o.epoch /\ Gap(n, p) = Gap(o, p)
                \/ /\ n.epoch = o.epoch + 1
                   /\ Gap(n, p) <= Gap(o, p) /\ Gap(n, p) >= Gap(o, p) - Unit - p
    <3>1. CASE \E note \in Notes : tried = Noted(o, note)
      <4> PICK note \in Notes : tried = Noted(o, note)
        BY <3>1
      <4> QED
        BY <1>8
    <3>2. CASE tried = Done(o)
      BY <1>9, <3>2
    <3>3. CASE \E target, after, liquidity :
                 /\ Affordable(snap, target, after, liquidity)
                 /\ tried = Done(NewRange(o, snap, target, after, liquidity))
      <4> PICK target, after, liquidity :
                 /\ Affordable(snap, target, after, liquidity)
                 /\ tried = Done(NewRange(o, snap, target, after, liquidity))
        BY <3>3
      <4> QED
        BY <1>10
    <3>4. CASE tried = [ledger |-> o, raised |-> TRUE]
      <4>1. tried.raised
        BY <3>4
      <4> QED
        BY <1>4, <3>4, <4>1
    <3> QED
      BY <1>6, <3>1, <3>2, <3>3, <3>4
  <2> QED
    BY <2>1 DEF r, o, c, p, seen

LEMMA SameRange ==
    ASSUME NEW l, NEW m, m.liq = l.liq, m.lower = l.lower, m.upper = l.upper, NEW prev, NEW cur
    PROVE  /\ GrowthInside(m, prev, cur) = GrowthInside(l, prev, cur)
           /\ IsExact(m, prev, cur) <=> IsExact(l, prev, cur)
           /\ \A mark, growth : mark.tick = cur.tick /\ mark.liq = cur.liq =>
                FeesOf(m, prev, mark, growth) = FeesOf(l, prev, cur, growth)
<1>1. \A s : Inside(m, s) = Inside(l, s) /\ (BoundInfos(m, s) <=> BoundInfos(l, s))
  BY DEF Inside, BoundInfos
<1>2. GrowthInside(m, prev, cur) = GrowthInside(l, prev, cur)
  BY <1>1 DEF GrowthInside
<1>3. IsExact(m, prev, cur) <=> IsExact(l, prev, cur)
  BY <1>2 DEF IsExact
<1>4. ASSUME NEW mark, NEW growth, mark.tick = cur.tick, mark.liq = cur.liq
      PROVE  FeesOf(m, prev, mark, growth) = FeesOf(l, prev, cur, growth)
  <2>1. \A fee : Diluted(m, prev, mark, fee) = Diluted(l, prev, cur, fee)
    BY <1>4, DilutedSame
  <2> QED
    BY <2>1 DEF FeesOf
<1> QED
  BY <1>2, <1>3, <1>4

\* An observation keeps the ledger's invariant; unless it raised, the error
\* moved by no more than the dust of one mint.
LEMMA StepResult ==
    ASSUME base0 \in BOOLEAN, ledger \in LedgerType, Consistent(ledger), NEW snap, SnapOK(snap),
           NEW center \in Nat
    PROVE  LET r == Step(snap, center)
               l == r.ledger
               fee == FeesOf(ledger, ledger.last, l.last, GrowthInside(ledger, ledger.last, snap))
           IN  /\ l \in LedgerType /\ Consistent(l)
               /\ r.raised \in BOOLEAN
               /\ ~r.raised =>
                    /\ l.last = SeenOf(snap)
                    /\ \/ l.epoch = ledger.epoch /\ Error(l) = Error(ledger)
                       \/ /\ l.epoch = ledger.epoch + 1
                          /\ Error(l) <= Error(ledger)
                          /\ Error(l) >= Error(ledger) - Unit - Price(l.last.price)
                    /\ l.acc = "exact" =>
                         /\ ledger.last # None
                         /\ IsExact(ledger, ledger.last, snap)
                         /\ l.fees = ledger.fees + Value(fee[1], fee[2], Price(l.last.price))
<1> DEFINE c == CleanOf(ledger)
           o == Observed(c, snap)
           p == Price(snap.price)
           seen == SeenOf(snap)
           r == Step(snap, center)
           ofee == FeesOf(c, c.last, snap, GrowthInside(c, c.last, snap))
           before == IF ledger.last = None THEN 0 ELSE Gap(ledger, Price(ledger.last.price))
<1>1. /\ c \in LedgerType /\ Consistent(c) /\ c.ready /\ c.last = ledger.last
      /\ c.epoch = ledger.epoch /\ c.liq = ledger.liq /\ c.lower = ledger.lower
      /\ c.upper = ledger.upper /\ c.fees = ledger.fees
      /\ ledger.last # None => \A q : Gap(c, q) = Gap(ledger, q)
  <2>1. "none" \in Notes /\ c = [c EXCEPT !.note = "none"]
    BY DEF Notes, CleanOf, LedgerType
  <2> QED
    BY <2>1, CleanOK
<1>2. /\ seen \in Seen /\ seen # None /\ seen.price = snap.price /\ seen.tick = snap.tick
      /\ seen.liq = snap.liq
  BY SeenOfType
<1>3. Error(ledger) = before
  BY ErrorIsGap
<1>4. \/ r = [ledger |-> o, raised |-> TRUE]
      \/ \E n \in LedgerType :
           /\ r = Done([n EXCEPT !.last = seen])
           /\ n.lower <= n.upper /\ (n.liq = 0 => n.openB = 0 /\ n.openQ = 0)
           /\ n.ready /\ n.acc = o.acc /\ n.fees = o.fees
           /\ \/ n.epoch = o.epoch /\ Gap(n, p) = Gap(o, p)
              \/ /\ n.epoch = o.epoch + 1
                 /\ Gap(n, p) <= Gap(o, p) /\ Gap(n, p) >= Gap(o, p) - Unit - p
  BY StepOnce
<1> HIDE DEF c, seen, r
<1>5. /\ o \in LedgerType /\ Consistent(o) /\ o.ready /\ o.last = c.last /\ o.epoch = c.epoch
      /\ Gap(o, p) = IF c.last = None THEN 0 ELSE Gap(c, Price(c.last.price))
      /\ o.acc = "exact" =>
           /\ c.last # None /\ IsExact(c, c.last, snap)
           /\ o.fees = c.fees + Value(ofee[1], ofee[2], p)
  BY <1>1, ObservedOK
<1>6. Gap(o, p) = before
  BY <1>1, <1>5
<1> HIDE DEF o, p, before
<1>7. CASE r = [ledger |-> o, raised |-> TRUE]
  <2>1. r.ledger = o /\ r.raised = TRUE
    BY <1>7
  <2> QED
    BY <1>5, <2>1 DEF r
<1>8. ASSUME NEW n \in LedgerType,
             r = Done([n EXCEPT !.last = seen]),
             n.lower <= n.upper, n.liq = 0 => n.openB = 0 /\ n.openQ = 0,
             n.ready, n.acc = o.acc, n.fees = o.fees,
             \/ n.epoch = o.epoch /\ Gap(n, p) = Gap(o, p)
             \/ /\ n.epoch = o.epoch + 1
                /\ Gap(n, p) <= Gap(o, p) /\ Gap(n, p) >= Gap(o, p) - Unit - p
      PROVE  LET l == r.ledger
                 fee == FeesOf(ledger, ledger.last, l.last, GrowthInside(ledger, ledger.last, snap))
             IN  /\ l \in LedgerType /\ Consistent(l)
                 /\ r.raised = FALSE
                 /\ l.last = seen
                 /\ \/ l.epoch = ledger.epoch /\ Error(l) = Error(ledger)
                    \/ /\ l.epoch = ledger.epoch + 1
                       /\ Error(l) <= Error(ledger)
                       /\ Error(l) >= Error(ledger) - Unit - Price(l.last.price)
                 /\ l.acc = "exact" =>
                      /\ ledger.last # None
                      /\ IsExact(ledger, ledger.last, snap)
                      /\ l.fees = ledger.fees + Value(fee[1], fee[2], Price(l.last.price))
  <2> DEFINE l == [n EXCEPT !.last = seen]
             fee == FeesOf(ledger, ledger.last, seen, GrowthInside(ledger, ledger.last, snap))
  <2>1. r.ledger = l /\ r.raised = FALSE
    BY <1>8 DEF Done
  <2>2. l \in LedgerType
    BY <1>2 DEF LedgerType
  <2>3. /\ l.last = seen /\ l.lower = n.lower /\ l.upper = n.upper /\ l.liq = n.liq
        /\ l.openB = n.openB /\ l.openQ = n.openQ /\ l.ready = n.ready /\ l.acc = n.acc
        /\ l.fees = n.fees /\ l.epoch = n.epoch /\ l.idleB = n.idleB /\ l.idleQ = n.idleQ
        /\ l.feesB = n.feesB /\ l.feesQ = n.feesQ /\ l.swap = n.swap /\ l.hodl = n.hodl
        /\ l.il = n.il
    BY DEF LedgerType
  <2> HIDE DEF l
  <2>4. Consistent(l)
    BY <1>2, <1>8, <2>3 DEF Consistent
  <2>5. Price(l.last.price) = p
    BY <1>2, <2>3 DEF p
  <2>6. Error(l) = Gap(n, p)
    <3>1. Error(l) = Gap(l, p)
      BY <1>2, <2>2, <2>3, <2>4, <2>5, ErrorIsGap
    <3>2. Gap(l, p) = Gap(n, p)
      BY <2>3 DEF Gap
    <3> QED
      BY <3>1, <3>2
  <2>7. \/ l.epoch = ledger.epoch /\ Error(l) = Error(ledger)
        \/ /\ l.epoch = ledger.epoch + 1
           /\ Error(l) <= Error(ledger)
           /\ Error(l) >= Error(ledger) - Unit - p
    BY <1>1, <1>3, <1>5, <1>6, <1>8, <2>3, <2>6
  <2>8. ASSUME l.acc = "exact"
        PROVE  /\ ledger.last # None
               /\ IsExact(ledger, ledger.last, snap)
               /\ l.fees = ledger.fees + Value(fee[1], fee[2], p)
    <3>1. /\ c.last # None /\ IsExact(c, c.last, snap)
          /\ o.fees = c.fees + Value(ofee[1], ofee[2], p)
      BY <1>5, <1>8, <2>3, <2>8
    <3>2. /\ GrowthInside(c, ledger.last, snap) = GrowthInside(ledger, ledger.last, snap)
          /\ IsExact(c, ledger.last, snap) <=> IsExact(ledger, ledger.last, snap)
      BY <1>1, SameRange
    <3>3. \A growth : FeesOf(c, ledger.last, snap, growth) = FeesOf(ledger, ledger.last, seen, growth)
      <4>1. ledger.liq = c.liq /\ ledger.lower = c.lower /\ ledger.upper = c.upper
        BY <1>1
      <4> QED
        BY <1>2, <4>1, SameRange
    <3>4. ofee = fee
      BY <1>1, <3>2, <3>3
    <3> HIDE DEF ofee, fee
    <3> QED
      BY <1>1, <1>8, <2>3, <3>1, <3>2, <3>4
  <2> QED
    BY <2>1, <2>2, <2>3, <2>4, <2>5, <2>7, <2>8
<1>9. CASE \E n \in LedgerType :
           /\ r = Done([n EXCEPT !.last = seen])
           /\ n.lower <= n.upper /\ (n.liq = 0 => n.openB = 0 /\ n.openQ = 0)
           /\ n.ready /\ n.acc = o.acc /\ n.fees = o.fees
           /\ \/ n.epoch = o.epoch /\ Gap(n, p) = Gap(o, p)
              \/ /\ n.epoch = o.epoch + 1
                 /\ Gap(n, p) <= Gap(o, p) /\ Gap(n, p) >= Gap(o, p) - Unit - p
  <2> PICK n \in LedgerType :
           /\ r = Done([n EXCEPT !.last = seen])
           /\ n.lower <= n.upper /\ (n.liq = 0 => n.openB = 0 /\ n.openQ = 0)
           /\ n.ready /\ n.acc = o.acc /\ n.fees = o.fees
           /\ \/ n.epoch = o.epoch /\ Gap(n, p) = Gap(o, p)
              \/ /\ n.epoch = o.epoch + 1
                 /\ Gap(n, p) <= Gap(o, p) /\ Gap(n, p) >= Gap(o, p) - Unit - p
    BY <1>9
  <2>1. LET l == r.ledger
            fee == FeesOf(ledger, ledger.last, l.last, GrowthInside(ledger, ledger.last, snap))
        IN  /\ l \in LedgerType /\ Consistent(l)
            /\ r.raised = FALSE
            /\ l.last = seen
            /\ \/ l.epoch = ledger.epoch /\ Error(l) = Error(ledger)
               \/ /\ l.epoch = ledger.epoch + 1
                  /\ Error(l) <= Error(ledger)
                  /\ Error(l) >= Error(ledger) - Unit - Price(l.last.price)
            /\ l.acc = "exact" =>
                 /\ ledger.last # None
                 /\ IsExact(ledger, ledger.last, snap)
                 /\ l.fees = ledger.fees + Value(fee[1], fee[2], Price(l.last.price))
    BY <1>8
  <2> QED
    BY <2>1 DEF r, seen
<1> QED
  BY <1>4, <1>7, <1>9

\* An observation of a stale snapshot only notes it.
LEMMA StaleResult ==
    ASSUME base0 \in BOOLEAN, ledger \in LedgerType, Consistent(ledger), NEW snap, snap.stale,
           NEW center
    PROVE  LET r == Step(snap, center)
               l == r.ledger
           IN  /\ l \in LedgerType /\ Consistent(l) /\ ~r.raised
               /\ l.last = ledger.last /\ l.epoch = ledger.epoch /\ Error(l) = Error(ledger)
               /\ l.liq = ledger.liq /\ l.lower = ledger.lower /\ l.upper = ledger.upper
<1> DEFINE l == [CleanOf(ledger) EXCEPT !.note = "stale"]
           r == Step(snap, center)
<1>1. r = Done(l)
  BY DEF Step, Noted, CleanOf
<1>2. r.ledger = l /\ ~r.raised
  BY <1>1 DEF Done
<1>3. "stale" \in Notes
  BY DEF Notes
<1>4. /\ l \in LedgerType /\ Consistent(l) /\ l.last = ledger.last /\ l.epoch = ledger.epoch
      /\ l.liq = ledger.liq /\ l.lower = ledger.lower /\ l.upper = ledger.upper
      /\ ledger.last # None => \A p : Gap(l, p) = Gap(ledger, p)
  BY <1>3, CleanOK
<1> HIDE DEF l, r
<1>5. Error(l) = IF l.last = None THEN 0 ELSE Gap(l, Price(l.last.price))
  BY <1>4, ErrorIsGap
<1>6. Error(ledger) = IF ledger.last = None THEN 0 ELSE Gap(ledger, Price(ledger.last.price))
  BY ErrorIsGap
<1> QED
  BY <1>2, <1>4, <1>5, <1>6 DEF r

-----------------------------------------------------------------------------
(* The invariant of the book *)

ReaderOK ==
    /\ MaybeWindow(src.window)
    /\ src.good = None \/ "stale" \in DOMAIN src.good

GhostType == [g0 : Nat, g1 : Nat, cleared : BOOLEAN, raised : BOOLEAN]

BookInv ==
    /\ ghost \in GhostType
    /\ base0 \in BOOLEAN
    /\ pool \in PoolType
    /\ ReaderOK
    /\ ledger \in LedgerType
    /\ Consistent(ledger)

LEMMA BookInit == Init => BookInv
<1> SUFFICES ASSUME Init PROVE BookInv
  OBVIOUS
<1>1. Q96 \in SqrtPrices /\ Q96 \in Int /\ MinSqrtRatio <= Q96
  <2>1. Q96 \in MinSqrtRatio..MaxSqrtRatio
    BY LpConstants
  <2> QED
    BY <2>1, TickFacts DEF SqrtPrices, Positive
<1>2. GetTickAtSqrtRatio(Q96) \in Int
  BY <1>1, TickOfPrice, TickFacts
<1>3. StartGrowth \in Int
  BY LpConstants
<1>4. [t \in BoundTicks |-> <<0, 0>>] \in [BoundTicks -> Pairs]
  BY DEF Pairs
<1>5. pool \in PoolType
  BY <1>1, <1>2, <1>3, <1>4 DEF Init, PoolType, Outs, MintedSets, Ranges
<1>6. ReaderOK
  BY DEF Init, NewReader, ReaderOK, MaybeWindow
<1>7. ledger = FreshLedger /\ 0 \in Ticks
  BY TickFacts DEF Init
<1>8. FreshLedger \in LedgerType
  BY <1>7 DEF FreshLedger, LedgerType, Accuracies, Notes
<1>9. Consistent(FreshLedger)
  BY DEF FreshLedger, Consistent
<1>10. ghost \in GhostType
  BY DEF Init, GhostType
<1> QED
  BY <1>5, <1>6, <1>7, <1>8, <1>9, <1>10 DEF Init, BookInv

LEMMA PointFacts == \A to \in Points : to[1] \in SqrtPrices /\ to[2] \in Int
<1>1. PoolPrices \in SUBSET SqrtPrices
  BY LpConstants DEF SqrtPrices
<1>2. \A s \in PoolPrices : GetTickAtSqrtRatio(s) \in Int
  <2> SUFFICES ASSUME NEW s \in PoolPrices PROVE GetTickAtSqrtRatio(s) \in Int
    OBVIOUS
  <2>1. s \in Int /\ MinSqrtRatio <= s
    BY <1>1, TickFacts DEF SqrtPrices, Positive
  <2> QED
    BY <2>1, TickOfPrice, TickFacts
<1>3. \A t \in BoundTicks : t - 1 \in Int
  BY RangeFacts
<1> QED
  BY <1>1, <1>2, <1>3 DEF Points

SwapDown(to) == to[2] < pool.tick \/ to[1] < pool.price
GrownBy(g, fee, grows) == IF grows THEN (g + fee) % U256 ELSE g
CrossedBy(to, t) ==
    /\ t \in Initialized(pool.minted)
    /\ MinOf(pool.tick, to[2]) < t /\ t <= MaxOf(pool.tick, to[2])

\* The pool after a swap.
LEMMA SwapFields ==
    ASSUME pool \in PoolType, NEW to \in Points, NEW fee \in Growth, PoolSwap(to, fee)
    PROVE  LET down == SwapDown(to)
               g0 == GrownBy(pool.g0, fee, down)
               g1 == GrownBy(pool.g1, fee, ~down)
           IN  /\ pool' \in PoolType /\ pool'.tick = to[2] /\ pool'.minted = pool.minted
               /\ pool'.g0 = g0 /\ pool'.g1 = g1 /\ g0 \in Int /\ g1 \in Int
               /\ \A t \in BoundTicks :
                    pool'.out[t] = IF CrossedBy(to, t)
                                   THEN <<WrapSub(g0, pool.out[t][1]), WrapSub(g1, pool.out[t][2])>>
                                   ELSE pool.out[t]
<1> DEFINE down == SwapDown(to)
           g0 == GrownBy(pool.g0, fee, down)
           g1 == GrownBy(pool.g1, fee, ~down)
           out == [t \in BoundTicks |->
                     IF CrossedBy(to, t)
                     THEN <<WrapSub(g0, pool.out[t][1]), WrapSub(g1, pool.out[t][2])>>
                     ELSE pool.out[t]]
<1>1. pool' = [pool EXCEPT !.price = to[1], !.tick = to[2], !.g0 = g0, !.g1 = g1,
                           !.block = pool.block + 1, !.out = out]
  <2>1. g0 = (IF down THEN (pool.g0 + fee) % U256 ELSE pool.g0)
        /\ g1 = (IF down THEN pool.g1 ELSE (pool.g1 + fee) % U256)
    BY DEF GrownBy
  <2> DEFINE crossed == {t \in Initialized(pool.minted) :
                           MinOf(pool.tick, to[2]) < t /\ t <= MaxOf(pool.tick, to[2])}
             fresh == [t \in BoundTicks |->
                         IF t \in crossed
                         THEN <<WrapSub(g0, pool.out[t][1]), WrapSub(g1, pool.out[t][2])>>
                         ELSE pool.out[t]]
  <2>2. pool' = [pool EXCEPT !.price = to[1], !.tick = to[2], !.g0 = g0, !.g1 = g1,
                             !.block = pool.block + 1, !.out = fresh]
    BY <2>1 DEF PoolSwap, SwapDown
  <2>3. fresh = out
    <3> HIDE DEF g0, g1
    <3>1. \A t \in BoundTicks : t \in crossed <=> CrossedBy(to, t)
      BY DEF CrossedBy
    <3> HIDE DEF crossed
    <3> QED
      BY <3>1
  <2> QED
    BY <2>2, <2>3
<1>2. to[1] \in SqrtPrices /\ to[2] \in Int /\ fee \in Nat
  BY PointFacts, LpConstants
<1>3. pool.g0 \in Int /\ pool.g1 \in Int /\ pool.block \in Nat /\ pool.out \in [BoundTicks -> Pairs]
  BY DEF PoolType, Outs
<1>4. \A g \in Int : (g + fee) % U256 \in Int
  <2> SUFFICES ASSUME NEW g \in Int PROVE (g + fee) % U256 \in Int
    OBVIOUS
  <2>1. g + fee \in Int
    BY <1>2
  <2> QED
    BY <2>1, Widths DEF Positive
<1>5. g0 \in Int /\ g1 \in Int
  BY <1>3, <1>4 DEF GrownBy
<1> HIDE DEF g0, g1
<1>6. out \in [BoundTicks -> Pairs]
  <2> SUFFICES ASSUME NEW t \in BoundTicks
               PROVE  (IF CrossedBy(to, t)
                       THEN <<WrapSub(g0, pool.out[t][1]), WrapSub(g1, pool.out[t][2])>>
                       ELSE pool.out[t]) \in Pairs
    OBVIOUS
  <2> DEFINE x == pool.out[t][1]
             y == pool.out[t][2]
  <2>1. pool.out[t] \in Pairs /\ x \in Int /\ y \in Int
    BY <1>3 DEF Pairs
  <2> HIDE DEF x, y
  <2>2. WrapSub(g0, x) \in Nat
    BY <1>5, <2>1, WrapNat
  <2>3. WrapSub(g1, y) \in Nat
    BY <1>5, <2>1, WrapNat
  <2>4. <<WrapSub(g0, x), WrapSub(g1, y)>> \in Pairs
    BY <2>2, <2>3 DEF Pairs
  <2> QED
    BY <2>1, <2>4 DEF x, y
<1> HIDE DEF out
<1>7. pool' \in PoolType
  <2>1. pool.block + 1 \in Nat /\ out \in Outs
    BY <1>3, <1>6 DEF Outs
  <2> QED
    BY <1>1, <1>2, <1>5, <2>1 DEF PoolType
<1>8. /\ pool'.tick = to[2] /\ pool'.minted = pool.minted /\ pool'.g0 = g0 /\ pool'.g1 = g1
      /\ pool'.out = out
  BY <1>1 DEF PoolType
<1> QED
  BY <1>5, <1>7, <1>8 DEF out, g0, g1

LEMMA MintFields ==
    ASSUME pool \in PoolType, NEW range \in Others, PoolMint(range)
    PROVE  /\ pool' \in PoolType /\ pool'.tick = pool.tick
           /\ pool'.g0 = pool.g0 /\ pool'.g1 = pool.g1
           /\ pool'.minted = pool.minted \union {range}
           /\ \A t \in Initialized(pool.minted) : t \in BoundTicks /\ pool'.out[t] = pool.out[t]
<1> DEFINE new == {range.lower, range.upper} \ Initialized(pool.minted)
           out == [t \in BoundTicks |->
                     IF t \in new
                     THEN IF t <= pool.tick THEN <<pool.g0, pool.g1>> ELSE <<0, 0>>
                     ELSE pool.out[t]]
<1>1. pool' = [pool EXCEPT !.minted = pool.minted \union {range}, !.block = pool.block + 1,
                           !.out = out]
  BY DEF PoolMint
<1>2. /\ pool.g0 \in Int /\ pool.g1 \in Int /\ pool.block \in Nat
      /\ pool.out \in [BoundTicks -> Pairs] /\ pool.minted \in SUBSET Ranges
  BY DEF PoolType, Outs, MintedSets
<1>3. out \in [BoundTicks -> Pairs]
  <2>1. <<pool.g0, pool.g1>> \in Pairs /\ <<0, 0>> \in Pairs
    BY <1>2 DEF Pairs
  <2> QED
    BY <1>2, <2>1
<1>4. pool.minted \union {range} \in SUBSET Ranges
  BY <1>2 DEF Ranges
<1>5. \A t \in Initialized(pool.minted) : t \in BoundTicks /\ out[t] = pool.out[t]
  BY <1>2, RangeFacts
<1> HIDE DEF out
<1>6. pool' \in PoolType
  <2>1. pool.block + 1 \in Nat /\ out \in Outs
    BY <1>2, <1>3 DEF Outs
  <2>2. pool'.minted \in MintedSets
    BY <1>1, <1>4 DEF PoolType, MintedSets
  <2> QED
    BY <1>1, <2>1, <2>2 DEF PoolType
<1> QED
  BY <1>1, <1>5, <1>6 DEF PoolType

LEMMA BurnFields ==
    ASSUME pool \in PoolType, NEW range \in Others, PoolBurn(range)
    PROVE  /\ pool' \in PoolType /\ pool'.tick = pool.tick
           /\ pool'.g0 = pool.g0 /\ pool'.g1 = pool.g1
           /\ pool'.minted = pool.minted \ {range}
           /\ \A t \in Initialized(pool.minted) :
                /\ t \in BoundTicks
                /\ t \in Initialized(pool.minted \ {range}) => pool'.out[t] = pool.out[t]
<1> DEFINE cleared == Initialized(pool.minted) \ Initialized(pool.minted \ {range})
           out == [t \in BoundTicks |-> IF t \in cleared THEN <<0, 0>> ELSE pool.out[t]]
<1>1. pool' = [pool EXCEPT !.minted = pool.minted \ {range}, !.block = pool.block + 1, !.out = out]
  BY DEF PoolBurn
<1>2. /\ pool.block \in Nat /\ pool.out \in [BoundTicks -> Pairs] /\ pool.minted \in SUBSET Ranges
  BY DEF PoolType, Outs, MintedSets
<1>3. out \in [BoundTicks -> Pairs]
  <2>1. <<0, 0>> \in Pairs
    BY DEF Pairs
  <2> QED
    BY <1>2, <2>1
<1>4. pool.minted \ {range} \in SUBSET Ranges
  BY <1>2
<1>5. \A t \in Initialized(pool.minted) :
        /\ t \in BoundTicks
        /\ t \in Initialized(pool.minted \ {range}) => out[t] = pool.out[t]
  BY <1>2, RangeFacts
<1> HIDE DEF out
<1>6. pool' \in PoolType
  <2>1. pool.block + 1 \in Nat /\ out \in Outs
    BY <1>2, <1>3 DEF Outs
  <2>2. pool'.minted \in MintedSets
    BY <1>1, <1>4 DEF PoolType, MintedSets
  <2> QED
    BY <1>1, <2>1, <2>2 DEF PoolType
<1> QED
  BY <1>1, <1>5, <1>6 DEF PoolType

LEMMA PricesStay ==
    ASSUME base0' = base0
    PROVE  Error(ledger)' = Error(ledger') /\ Price(ledger'.last.price) = Price(ledger.last.price)'
<1>1. Price(ledger'.last.price) = Price(ledger.last.price)'
  BY DEF Price
<1>2. Error(ledger)' = Error(ledger')
  BY DEF Error, StateOf, Principal, Oriented, Value, Price
<1> QED
  BY <1>1, <1>2

LEMMA CenterType == \A center \in Centers : center \in Nat
BY LpConstants

\* What a tick that reads a snapshot does.
LEMMA TickTakes ==
    ASSUME BookInv, NEW center \in Centers, NEW fault, NEW persisted \in BOOLEAN,
           Tick(center, fault, persisted)
    PROVE  LET snap == ReadOnce(fault, MaybeRefreshWindow(fault))
               r == Step(snap, center)
           IN  /\ SnapOK(snap) /\ UNCHANGED <<base0, pool, kill>> /\ ReaderOK'
               /\ snap.price = pool.price /\ snap.tick = pool.tick
               /\ snap.g0 = pool.g0 /\ snap.g1 = pool.g1
               /\ snap.lower \in {None, TickInfo(ledger.lower)}
               /\ snap.upper \in {None, TickInfo(ledger.upper)}
               /\ ledger' = IF r.raised \/ persisted THEN r.ledger ELSE ledger
               /\ r.raised => ghost' = [ghost EXCEPT !.raised = TRUE]
               /\ ~r.raised /\ persisted =>
                    ghost' = [ghost EXCEPT !.g0 = 0, !.g1 = 0, !.cleared = FALSE]
               /\ ~r.raised /\ ~persisted => ghost' = ghost
<1> DEFINE refreshed == MaybeRefreshWindow(fault)
           snap == ReadOnce(fault, refreshed)
           r == Step(snap, center)
<1>1. /\ src' = [window |-> refreshed.window, reads |-> refreshed.reads, good |-> snap,
                 baseFee |-> snap.baseFee]
      /\ TakeStep(snap, center, persisted)
      /\ UNCHANGED <<base0, pool, kill>>
  BY DEF Tick
<1>2. ledger.lower \in Int /\ ledger.upper \in Int
  BY LedgerFields, TickFacts DEF BookInv
<1>3. /\ SnapOK(snap) /\ "stale" \in DOMAIN snap
      /\ snap.price = pool.price /\ snap.tick = pool.tick
      /\ snap.g0 = pool.g0 /\ snap.g1 = pool.g1
      /\ snap.lower \in {None, TickInfo(ledger.lower)}
      /\ snap.upper \in {None, TickInfo(ledger.upper)}
  BY <1>2, ReadOK DEF BookInv, ReaderOK
<1>4. MaybeWindow(refreshed.window)
  BY RefreshedOK DEF BookInv, ReaderOK
<1> HIDE DEF refreshed, snap
<1>5. src'.window = refreshed.window /\ src'.good = snap
  BY <1>1
<1>6. ReaderOK'
  BY <1>3, <1>4, <1>5 DEF ReaderOK, MaybeWindow, WindowOK
<1>7. ~snap.stale
  BY <1>3 DEF SnapOK
<1> HIDE DEF r
<1>8. /\ ledger' = IF r.raised \/ persisted THEN r.ledger ELSE ledger
      /\ ghost' = IF r.raised THEN [ghost EXCEPT !.raised = TRUE]
                  ELSE IF persisted /\ ~snap.stale
                  THEN [ghost EXCEPT !.g0 = 0, !.g1 = 0, !.cleared = FALSE]
                  ELSE ghost
  BY <1>1 DEF TakeStep, Settle, r
<1> QED
  BY <1>1, <1>3, <1>6, <1>7, <1>8 DEF r, snap, refreshed

LEMMA StaleTakes ==
    ASSUME BookInv, NEW persisted \in BOOLEAN, TickStale(0, persisted)
    PROVE  LET snap == [src.good EXCEPT !.stale = TRUE]
               r == Step(snap, 0)
           IN  /\ UNCHANGED <<base0, pool, src, kill, ghost>> /\ snap.stale
               /\ ~r.raised
               /\ ledger' = IF persisted THEN r.ledger ELSE ledger
<1> DEFINE snap == [src.good EXCEPT !.stale = TRUE]
           r == Step(snap, 0)
<1>1. /\ src.good # None /\ TakeStep(snap, 0, persisted) /\ UNCHANGED <<base0, pool, src, kill>>
  BY DEF TickStale
<1>2. "stale" \in DOMAIN src.good
  BY <1>1 DEF BookInv, ReaderOK
<1>3. snap.stale
  BY <1>2
<1> HIDE DEF snap
<1>4. ~r.raised
  BY <1>3, StaleResult DEF BookInv
<1> HIDE DEF r
<1>5. /\ ledger' = IF r.raised \/ persisted THEN r.ledger ELSE ledger
      /\ ghost' = IF r.raised THEN [ghost EXCEPT !.raised = TRUE]
                  ELSE IF persisted /\ ~snap.stale
                  THEN [ghost EXCEPT !.g0 = 0, !.g1 = 0, !.cleared = FALSE]
                  ELSE ghost
  BY <1>1 DEF TakeStep, Settle, r
<1>6. ghost' = ghost
  BY <1>3, <1>4, <1>5
<1> QED
  BY <1>1, <1>3, <1>4, <1>5, <1>6 DEF r, snap

LEMMA BookNext == BookInv /\ [Next]_vars => BookInv'
<1> SUFFICES ASSUME BookInv, [Next]_vars PROVE BookInv'
  OBVIOUS
<1> USE DEF BookInv
<1>s. UNCHANGED src => ReaderOK'
  BY DEF ReaderOK, MaybeWindow, WindowOK
<1>c. UNCHANGED ledger => Consistent(ledger)'
  BY DEF Consistent
<1>1. ASSUME NEW to \in Points, NEW fee \in Growth, PoolSwap(to, fee) PROVE BookInv'
  <2>1. pool' \in PoolType
    BY <1>1, SwapFields
  <2>2. ghost' \in GhostType
    <3>1. fee \in Nat
      BY LpConstants
    <3>2. ghost.g0 \in Nat /\ ghost.g1 \in Nat
      BY DEF GhostType
    <3>3. \/ ghost' = ghost
          \/ ghost' = [ghost EXCEPT !.g0 = ghost.g0 + fee, !.g1 = ghost.g1 + 0]
          \/ ghost' = [ghost EXCEPT !.g0 = ghost.g0 + 0, !.g1 = ghost.g1 + fee]
      BY <1>1 DEF PoolSwap
    <3>4. ghost.g0 + fee \in Nat /\ ghost.g1 + fee \in Nat /\ ghost.g0 + 0 \in Nat /\ ghost.g1 + 0 \in Nat
      BY <3>1, <3>2
    <3> QED
      BY <3>3, <3>4 DEF GhostType
  <2> QED
    BY <1>1, <1>s, <1>c, <2>1, <2>2 DEF PoolSwap
<1>2. ASSUME NEW range \in Others, PoolMint(range) PROVE BookInv'
  <2>1. pool' \in PoolType
    BY <1>2, MintFields
  <2> QED
    BY <1>2, <1>s, <1>c, <2>1 DEF PoolMint
<1>3. ASSUME NEW range \in Others, PoolBurn(range) PROVE BookInv'
  <2>1. pool' \in PoolType
    BY <1>3, BurnFields
  <2>2. ghost' \in GhostType
    <3> DEFINE cleared == Initialized(pool.minted) \ Initialized(pool.minted \ {range})
               b == ghost.cleared \/ (ledger.liq > 0 /\ {ledger.lower, ledger.upper} \cap cleared # {})
    <3>1. ghost' = [ghost EXCEPT !.cleared = b]
      BY <1>3 DEF PoolBurn
    <3>2. b \in BOOLEAN
      OBVIOUS
    <3> HIDE DEF b
    <3> QED
      BY <3>1, <3>2 DEF GhostType
  <2> QED
    BY <1>3, <1>s, <1>c, <2>1, <2>2 DEF PoolBurn
<1>4. ASSUME NEW center \in Centers, NEW fault, NEW persisted \in BOOLEAN,
             Tick(center, fault, persisted)
      PROVE  BookInv'
  <2> DEFINE snap == ReadOnce(fault, MaybeRefreshWindow(fault))
             r == Step(snap, center)
  <2>1. /\ SnapOK(snap) /\ UNCHANGED <<base0, pool, kill>> /\ ReaderOK'
        /\ ledger' = IF r.raised \/ persisted THEN r.ledger ELSE ledger
        /\ r.raised => ghost' = [ghost EXCEPT !.raised = TRUE]
        /\ ~r.raised /\ persisted =>
             ghost' = [ghost EXCEPT !.g0 = 0, !.g1 = 0, !.cleared = FALSE]
        /\ ~r.raised /\ ~persisted => ghost' = ghost
    BY <1>4, TickTakes
  <2> HIDE DEF snap
  <2>2. r.ledger \in LedgerType /\ Consistent(r.ledger) /\ r.raised \in BOOLEAN
    BY <2>1, CenterType, StepResult
  <2> HIDE DEF r
  <2>3. ledger' \in LedgerType /\ Consistent(ledger')
    BY <2>1, <2>2
  <2>4. Consistent(ledger)'
    BY <2>3 DEF Consistent
  <2>5. ghost' \in GhostType
    <3>1. CASE r.raised
      BY <2>1, <3>1 DEF GhostType
    <3>2. CASE ~r.raised
      <4>1. CASE persisted
        <5>1. ghost' = [ghost EXCEPT !.g0 = 0, !.g1 = 0, !.cleared = FALSE]
          BY <2>1, <3>2, <4>1
        <5> QED
          BY <5>1 DEF GhostType
      <4>2. CASE ~persisted
        BY <2>1, <3>2, <4>2
      <4> QED
        BY <4>1, <4>2
    <3> QED
      BY <3>1, <3>2
  <2> QED
    BY <2>1, <2>3, <2>4, <2>5
<1>5. ASSUME NEW persisted \in BOOLEAN, TickStale(0, persisted) PROVE BookInv'
  <2> DEFINE snap == [src.good EXCEPT !.stale = TRUE]
             r == Step(snap, 0)
  <2>1. /\ UNCHANGED <<base0, pool, src, kill, ghost>> /\ snap.stale
        /\ ledger' = IF persisted THEN r.ledger ELSE ledger
    BY <1>5, StaleTakes
  <2> HIDE DEF snap
  <2>2. r.ledger \in LedgerType /\ Consistent(r.ledger)
    BY <2>1, StaleResult
  <2> HIDE DEF r
  <2>3. ledger' \in LedgerType /\ Consistent(ledger')
    BY <2>1, <2>2
  <2>4. Consistent(ledger)'
    BY <2>3 DEF Consistent
  <2> QED
    BY <1>s, <2>1, <2>3, <2>4
<1>6. CASE TickUnavailable
  BY <1>6, <1>s, <1>c DEF TickUnavailable
<1>7. CASE ToggleKill
  BY <1>7, <1>s, <1>c DEF ToggleKill
<1>8. CASE UNCHANGED vars
  BY <1>8, <1>s, <1>c DEF vars
<1> QED
  <2>1. {TRUE, "persist" \notin Faults} \in SUBSET BOOLEAN
    OBVIOUS
  <2> QED
    BY <1>1, <1>2, <1>3, <1>4, <1>5, <1>6, <1>7, <1>8, <2>1 DEF Next

\* In every state the ledger and what the reader keeps have their types, a book
\* that has seen nothing holds just its capital, and one without liquidity has
\* nothing in the pool.
THEOREM BookInvariant == Spec => []BookInv
<1>1. Init => BookInv
  BY BookInit
<1>2. BookInv /\ [Next]_vars => BookInv'
  BY BookNext
<1> QED
  BY <1>1, <1>2, PTL DEF Spec

\* For every pool and every sequence of swaps, mints, burns, faults and
\* rebalances, a mint takes no more than is in hand, and the first of the four
\* attempts already fits (_rebalance: "rounding never needs more than one
\* adjustment").
THEOREM BookNeverOverdrawn == Spec => []NeverOverdrawn
<1>1. BookInv => NeverOverdrawn
  <2> SUFFICES ASSUME BookInv PROVE NeverOverdrawn
    OBVIOUS
  <2>1. ledger.idleB \in Nat /\ ledger.idleQ \in Nat /\ ledger.note \in Notes
    BY DEF BookInv, LedgerType
  <2>2. ledger.note # "mint rounding"
    BY <2>1 DEF Notes
  <2>3. ledger.idleB >= 0 /\ ledger.idleQ >= 0
    BY <2>1
  <2> QED
    BY <2>2, <2>3 DEF NeverOverdrawn
<1> QED
  BY <1>1, BookInvariant, PTL

-----------------------------------------------------------------------------
(* The parts of the profit explain the value *)

\* Whatever the step, the reported error stays, or falls by the dust of the one
\* mint that opened a range (LpPaperBook._state, reconciliation_error_quote).
THEOREM BookReconciles == Spec => Reconciles
<1> DEFINE Kept == IF ledger'.epoch = ledger.epoch THEN Error(ledger)' = Error(ledger)
                   ELSE /\ Error(ledger)' <= Error(ledger)
                        /\ Error(ledger)' >= Error(ledger) - Unit - Price(ledger'.last.price)
           A == ghost'.raised \/ Kept
<1>1. ASSUME BookInv, [Next]_vars PROVE [A]_vars
  <2> USE <1>1
  <2>1. ASSUME UNCHANGED <<base0, ledger>> PROVE A
    <3>1. Error(ledger)' = Error(ledger')
      BY <2>1, PricesStay
    <3> HIDE DEF Error
    <3> QED
      BY <2>1, <3>1
  <2>2. ASSUME NEW center \in Centers, NEW fault, NEW persisted \in BOOLEAN,
               Tick(center, fault, persisted)
        PROVE  A \/ UNCHANGED vars
    <3> DEFINE snap == ReadOnce(fault, MaybeRefreshWindow(fault))
               r == Step(snap, center)
    <3>1. /\ SnapOK(snap) /\ UNCHANGED <<base0, pool, kill>>
          /\ ledger' = IF r.raised \/ persisted THEN r.ledger ELSE ledger
          /\ r.raised => ghost' = [ghost EXCEPT !.raised = TRUE]
      BY <2>2, TickTakes
    <3> HIDE DEF snap
    <3>2. /\ r.raised \in BOOLEAN
          /\ ~r.raised =>
               \/ r.ledger.epoch = ledger.epoch /\ Error(r.ledger) = Error(ledger)
               \/ /\ r.ledger.epoch = ledger.epoch + 1
                  /\ Error(r.ledger) <= Error(ledger)
                  /\ Error(r.ledger) >= Error(ledger) - Unit - Price(r.ledger.last.price)
      BY <3>1, CenterType, StepResult DEF BookInv
    <3> HIDE DEF r
    <3>3. CASE r.raised
      <4>1. ghost'.raised
        <5>1. ghost \in GhostType
          BY DEF BookInv
        <5>2. ghost' = [ghost EXCEPT !.raised = TRUE]
          BY <3>1, <3>3
        <5> QED
          BY <5>1, <5>2 DEF GhostType
      <4> QED
        BY <4>1
    <3>4. CASE ~r.raised /\ ~persisted
      <4>1. ledger' = ledger /\ base0' = base0
        BY <3>1, <3>4
      <4> QED
        BY <2>1, <4>1
    <3>5. CASE ~r.raised /\ persisted
      <4>1. ledger' = r.ledger
        BY <3>1, <3>5
      <4>2. Error(ledger)' = Error(ledger')
        BY <3>1, PricesStay
      <4>3. ledger.epoch \in Nat
        BY LedgerFields DEF BookInv
      <4>4. ledger.epoch + 1 # ledger.epoch
        BY <4>3
      <4> QED
        BY <3>2, <3>5, <4>1, <4>2, <4>4
    <3> QED
      BY <3>2, <3>3, <3>4, <3>5
  <2>3. ASSUME NEW persisted \in BOOLEAN, TickStale(0, persisted) PROVE A
    <3> DEFINE snap == [src.good EXCEPT !.stale = TRUE]
               r == Step(snap, 0)
    <3>1. /\ UNCHANGED <<base0, pool, src, kill, ghost>> /\ snap.stale
          /\ ledger' = IF persisted THEN r.ledger ELSE ledger
      BY <2>3, StaleTakes
    <3> HIDE DEF snap
    <3>2. r.ledger.epoch = ledger.epoch /\ Error(r.ledger) = Error(ledger)
      BY <3>1, StaleResult DEF BookInv
    <3> HIDE DEF r
    <3>3. Error(ledger)' = Error(ledger')
      BY <3>1, PricesStay
    <3>4. CASE persisted
      BY <3>1, <3>2, <3>3, <3>4
    <3>5. CASE ~persisted
      BY <2>1, <3>1, <3>5
    <3> QED
      BY <3>4, <3>5
  <2> HIDE DEF A
  <2>4. {TRUE, "persist" \notin Faults} \in SUBSET BOOLEAN
    OBVIOUS
  <2>5. \A to, fee : PoolSwap(to, fee) => A
    BY <2>1 DEF PoolSwap
  <2>6. \A range : PoolMint(range) \/ PoolBurn(range) => A
    BY <2>1 DEF PoolMint, PoolBurn
  <2>7. TickUnavailable \/ ToggleKill => A
    BY <2>1 DEF TickUnavailable, ToggleKill
  <2> QED
    BY <2>2, <2>3, <2>4, <2>5, <2>6, <2>7 DEF Next
<1>2. BookInv /\ [Next]_vars => [A]_vars
  BY <1>1
<1>3. Reconciles <=> [][A]_vars
  BY PTL DEF Reconciles
<1> HIDE DEF A
<1> QED
  BY <1>2, <1>3, BookInvariant, PTL DEF Spec

-----------------------------------------------------------------------------
(* Counters that wrap: differences up to multiples of 2^256 *)

Multiples == {x \in Int : \E k \in Int : x = U256 * k}

LEMMA MultiplesAdd ==
    /\ 0 \in Multiples /\ Multiples \in SUBSET Int
    /\ \A x, y \in Multiples : x + y \in Multiples /\ x - y \in Multiples
<1>1. U256 \in Int /\ U256 \in Positive
  BY Widths DEF Positive
<1>2. 0 = U256 * 0
  BY <1>1
<1>3. 0 \in Multiples /\ Multiples \in SUBSET Int
  BY <1>2 DEF Multiples
<1>4. ASSUME NEW x \in Multiples, NEW y \in Multiples
      PROVE  x + y \in Multiples /\ x - y \in Multiples
  <2>1. PICK k \in Int : x = U256 * k
    BY DEF Multiples
  <2>2. PICK j \in Int : y = U256 * j
    BY DEF Multiples
  <2>3. x + y = U256 * (k + j) /\ x - y = U256 * (k - j)
    BY <1>1, <2>1, <2>2
  <2>4. k + j \in Int /\ k - j \in Int /\ x \in Int /\ y \in Int
    BY <1>3
  <2>5. x + y \in Int /\ x - y \in Int
    BY <2>4
  <2> QED
    BY <2>3, <2>4, <2>5 DEF Multiples
<1> QED
  BY <1>3, <1>4

LEMMA MultipleSmall ==
    ASSUME NEW x \in Multiples, -U256 < x, x < U256
    PROVE  x = 0
<1>1. PICK k \in Int : x = U256 * k
  BY DEF Multiples
<1>2. U256 \in Positive /\ U256 \in Int
  BY Widths DEF Positive
<1>3. k < 1
  <2>1. U256 * k < U256 * 1
    BY <1>1, <1>2
  <2> QED
    BY <1>2, <2>1, ScaleStrict
<1>4. -1 < k
  <2>1. U256 * (-1) < U256 * k
    BY <1>1, <1>2
  <2> QED
    BY <1>2, <2>1, ScaleStrict
<1>5. k = 0
  BY <1>3, <1>4
<1> QED
  BY <1>1, <1>2, <1>5

LEMMA ModMultiple == ASSUME NEW a \in Int PROVE a - (a % U256) \in Multiples /\ a % U256 \in Int
<1>1. U256 \in Positive
  BY Widths
<1>2. a % U256 \in 0..(U256 - 1) /\ a = U256 * (a \div U256) + (a % U256) /\ a \div U256 \in Int
  BY <1>1, ModBound, DivBound
<1> DEFINE m == a % U256
           q == U256 * (a \div U256)
<1>3. q \in Int /\ m \in Int /\ a = q + m
  BY <1>1, <1>2 DEF Positive
<1>4. q \in Multiples
  BY <1>2, <1>3 DEF Multiples
<1> HIDE DEF m, q
<1>5. a - m = q
  BY <1>3
<1> QED
  BY <1>3, <1>4, <1>5 DEF m

LEMMA WrapMultiple ==
    ASSUME NEW a \in Int, NEW b \in Int
    PROVE  (a - b) - WrapSub(a, b) \in Multiples /\ WrapSub(a, b) \in Int
<1>1. a - b \in Int
  OBVIOUS
<1> QED
  BY <1>1, ModMultiple DEF WrapSub

\* The growth inside a range, without the wrapping.
RawInside(t, lower, upper, ol, oh, g) ==
    IF t < lower THEN ol - oh ELSE IF t < upper THEN (g - ol) - oh ELSE oh - ol

LEMMA InsideIsRaw ==
    ASSUME NEW t \in Int, NEW lower \in Int, NEW upper \in Int, lower <= upper,
           NEW ol \in Int, NEW oh \in Int, NEW g \in Int
    PROVE  RawInside(t, lower, upper, ol, oh, g)
             - FeeGrowthInside(t, lower, upper, ol, oh, g) \in Multiples
<1> DEFINE below == IF t >= lower THEN ol ELSE WrapSub(g, ol)
           above == IF t < upper THEN oh ELSE WrapSub(g, oh)
           wl == WrapSub(g, ol)
           wh == WrapSub(g, oh)
           w == WrapSub(g, below)
           f == WrapSub(w, above)
<1>1. FeeGrowthInside(t, lower, upper, ol, oh, g) = f
  BY DEF FeeGrowthInside
<1>2. (g - ol) - wl \in Multiples /\ wl \in Int
  BY WrapMultiple
<1>3. (g - oh) - wh \in Multiples /\ wh \in Int
  BY WrapMultiple
<1>4. below = (IF t >= lower THEN ol ELSE wl) /\ above = (IF t < upper THEN oh ELSE wh)
  OBVIOUS
<1> HIDE DEF wl, wh, below, above
<1>5. below \in Int /\ above \in Int
  BY <1>2, <1>3, <1>4
<1>6. (g - below) - w \in Multiples /\ w \in Int
  BY <1>5, WrapMultiple
<1> HIDE DEF w
<1>7. (w - above) - f \in Multiples /\ f \in Int
  BY <1>5, <1>6, WrapMultiple
<1> HIDE DEF f
<1> DEFINE m1 == (g - ol) - wl
           m2 == (g - oh) - wh
           m3 == (g - below) - w
           m4 == (w - above) - f
           raw == RawInside(t, lower, upper, ol, oh, g)
<1>8. m3 + m4 \in Multiples
  BY <1>6, <1>7, MultiplesAdd
<1>9. CASE t < lower
  <2>1. below = wl /\ above = oh /\ raw = ol - oh
    BY <1>4, <1>9 DEF RawInside
  <2>2. raw - f = (m3 + m4) - m1
    BY <1>2, <1>5, <1>6, <1>7, <2>1
  <2>3. (m3 + m4) - m1 \in Multiples
    BY <1>2, <1>8, MultiplesAdd
  <2> QED
    BY <1>1, <2>2, <2>3
<1>10. CASE ~(t < lower) /\ t < upper
  <2>1. below = ol /\ above = oh /\ raw = (g - ol) - oh
    BY <1>4, <1>10 DEF RawInside
  <2>2. raw - f = m3 + m4
    BY <1>5, <1>6, <1>7, <2>1
  <2> QED
    BY <1>1, <1>8, <2>2
<1>11. CASE ~(t < lower) /\ ~(t < upper)
  <2>1. below = ol /\ above = wh /\ raw = oh - ol
    BY <1>4, <1>11 DEF RawInside
  <2>2. raw - f = (m3 + m4) - m2
    BY <1>3, <1>5, <1>6, <1>7, <2>1
  <2>3. (m3 + m4) - m2 \in Multiples
    BY <1>3, <1>8, MultiplesAdd
  <2> QED
    BY <1>1, <2>2, <2>3
<1> QED
  BY <1>9, <1>10, <1>11

\* A swap from tick t to tick u, with d of growth: the growth inside moves by d
\* if t is in the range, and crossing a bound changes nothing.
Flips(t, u, lower, upper, ol, oh, g, d, h, pl, ph, x) ==
    /\ t \in Int /\ u \in Int /\ lower \in Int /\ upper \in Int /\ lower <= upper
    /\ ol \in Int /\ oh \in Int /\ g \in Int /\ d \in Int /\ h \in Int
    /\ (g + d) - h \in Multiples /\ pl \in Int /\ ph \in Int
    /\ (t >= lower <=> u >= lower) => pl = ol
    /\ ~(t >= lower <=> u >= lower) => (h - ol) - pl \in Multiples
    /\ (t >= upper <=> u >= upper) => ph = oh
    /\ ~(t >= upper <=> u >= upper) => (h - oh) - ph \in Multiples
    /\ x = IF lower <= t /\ t < upper THEN d ELSE 0

LEMMA SwapKeepsInside ==
    ASSUME NEW t, NEW u, NEW lower, NEW upper, NEW ol, NEW oh, NEW g, NEW d, NEW h, NEW pl, NEW ph,
           NEW x, Flips(t, u, lower, upper, ol, oh, g, d, h, pl, ph, x)
    PROVE  (RawInside(t, lower, upper, ol, oh, g) + x)
             - RawInside(u, lower, upper, pl, ph, h) \in Multiples
<1> USE DEF Flips
<1> DEFINE a == RawInside(t, lower, upper, ol, oh, g) + x
           b == RawInside(u, lower, upper, pl, ph, h)
           m0 == (g + d) - h
           m1 == (h - ol) - pl
           m2 == (h - oh) - ph
<1> USE MultiplesAdd
<1>1. CASE t < lower
  <2>1. a = ol - oh
    BY <1>1 DEF RawInside
  <2>2. CASE u < lower
    <3>1. b = ol - oh
      BY <1>1, <2>2 DEF RawInside
    <3> QED
      BY <2>1, <3>1
  <2>3. CASE ~(u < lower) /\ u < upper
    <3>1. b = (h - pl) - oh /\ m1 \in Multiples
      BY <1>1, <2>3 DEF RawInside
    <3>2. a - b = 0 - m1
      BY <2>1, <3>1
    <3> QED
      BY <3>1, <3>2
  <2>4. CASE ~(u < lower) /\ ~(u < upper)
    <3>1. b = ph - pl /\ m1 \in Multiples /\ m2 \in Multiples
      BY <1>1, <2>4 DEF RawInside
    <3>2. a - b = m2 - m1
      BY <2>1, <3>1
    <3> QED
      BY <3>1, <3>2
  <2> QED
    BY <2>2, <2>3, <2>4
<1>2. CASE ~(t < lower) /\ t < upper
  <2>1. a = ((g - ol) - oh) + d
    BY <1>2 DEF RawInside
  <2>2. CASE u < lower
    <3>1. b = pl - oh /\ m1 \in Multiples
      BY <1>2, <2>2 DEF RawInside
    <3>2. a - b = m0 + m1
      BY <2>1, <3>1
    <3> QED
      BY <3>1, <3>2
  <2>3. CASE ~(u < lower) /\ u < upper
    <3>1. b = (h - ol) - oh
      BY <1>2, <2>3 DEF RawInside
    <3>2. a - b = m0
      BY <2>1, <3>1
    <3> QED
      BY <3>1, <3>2
  <2>4. CASE ~(u < lower) /\ ~(u < upper)
    <3>1. b = ph - ol /\ m2 \in Multiples
      BY <1>2, <2>4 DEF RawInside
    <3>2. a - b = m0 + m2
      BY <2>1, <3>1
    <3> QED
      BY <3>1, <3>2
  <2> QED
    BY <2>2, <2>3, <2>4
<1>3. CASE ~(t < lower) /\ ~(t < upper)
  <2>1. a = oh - ol
    BY <1>3 DEF RawInside
  <2>2. CASE u < lower
    <3>1. b = pl - ph /\ m1 \in Multiples /\ m2 \in Multiples
      BY <1>3, <2>2 DEF RawInside
    <3>2. a - b = m1 - m2
      BY <2>1, <3>1
    <3> QED
      BY <3>1, <3>2
  <2>3. CASE ~(u < lower) /\ u < upper
    <3>1. b = (h - ol) - ph /\ m2 \in Multiples
      BY <1>3, <2>3 DEF RawInside
    <3>2. a - b = 0 - m2
      BY <2>1, <3>1
    <3> QED
      BY <3>1, <3>2
  <2>4. CASE ~(u < lower) /\ ~(u < upper)
    <3>1. b = oh - ol
      BY <1>3, <2>4 DEF RawInside
    <3> QED
      BY <2>1, <3>1
  <2> QED
    BY <2>2, <2>3, <2>4
<1> QED
  BY <1>1, <1>2, <1>3

-----------------------------------------------------------------------------
(* Exact fees are exact *)

\* The growth inside the ledger's range, as the pool has it now.
RawNow0(p, l) ==
    RawInside(p.tick, l.lower, l.upper, p.out[l.lower][1], p.out[l.upper][1], p.g0)
RawNow1(p, l) ==
    RawInside(p.tick, l.lower, l.upper, p.out[l.lower][2], p.out[l.upper][2], p.g1)

Tracked(l, gh) ==
    /\ l.liq # 0 /\ l.last # None /\ BoundInfos(l, l.last)
    /\ ~gh.cleared /\ ~gh.raised

\* What the pool shows now is what the last snapshot showed and what happened
\* since, but for the wrapping.
Tracks(p, l, gh) ==
    /\ l.lower \in Initialized(p.minted) /\ l.upper \in Initialized(p.minted)
    /\ (Inside(l, l.last)[1] + gh.g0) - RawNow0(p, l) \in Multiples
    /\ (Inside(l, l.last)[2] + gh.g1) - RawNow1(p, l) \in Multiples

GrowthInv == Tracked(ledger, ghost) => Tracks(pool, ledger, ghost)

\* What is needed of the types, when the growth is tracked.
LEMMA TrackedTypes ==
    ASSUME BookInv, ledger.lower \in Initialized(pool.minted), ledger.upper \in Initialized(pool.minted)
    PROVE  /\ ledger.lower \in BoundTicks /\ ledger.upper \in BoundTicks
           /\ ledger.lower \in Int /\ ledger.upper \in Int /\ ledger.lower <= ledger.upper
           /\ pool.tick \in Int /\ pool.g0 \in Int /\ pool.g1 \in Int
           /\ pool.out[ledger.lower][1] \in Int /\ pool.out[ledger.lower][2] \in Int
           /\ pool.out[ledger.upper][1] \in Int /\ pool.out[ledger.upper][2] \in Int
           /\ RawNow0(pool, ledger) \in Int /\ RawNow1(pool, ledger) \in Int
<1>1. pool.minted \in SUBSET Ranges /\ pool.out \in [BoundTicks -> Pairs]
      /\ pool.tick \in Int /\ pool.g0 \in Int /\ pool.g1 \in Int
  BY DEF BookInv, PoolType, MintedSets, Outs
<1>2. ledger.lower \in BoundTicks /\ ledger.upper \in BoundTicks
  BY <1>1, RangeFacts
<1>3. ledger.lower \in Int /\ ledger.upper \in Int /\ ledger.lower <= ledger.upper
  BY <1>2, RangeFacts DEF BookInv, Consistent
<1>4. pool.out[ledger.lower] \in Pairs /\ pool.out[ledger.upper] \in Pairs
  BY <1>1, <1>2
<1>5. /\ pool.out[ledger.lower][1] \in Int /\ pool.out[ledger.lower][2] \in Int
      /\ pool.out[ledger.upper][1] \in Int /\ pool.out[ledger.upper][2] \in Int
  BY <1>4 DEF Pairs
<1>6. \A t, lo, hi, a, b, g \in Int : RawInside(t, lo, hi, a, b, g) \in Int
  BY DEF RawInside
<1>7. RawNow0(pool, ledger) \in Int /\ RawNow1(pool, ledger) \in Int
  BY <1>1, <1>3, <1>5, <1>6 DEF RawNow0, RawNow1
<1> QED
  BY <1>1, <1>2, <1>3, <1>5, <1>7

LEMMA LastInside ==
    ASSUME BookInv, Tracked(ledger, ghost)
    PROVE  Inside(ledger, ledger.last)[1] \in Nat /\ Inside(ledger, ledger.last)[2] \in Nat
<1>1. ledger.last \in Seen /\ BoundInfos(ledger, ledger.last)
  BY LedgerFields DEF BookInv, Tracked
<1> QED
  BY <1>1, InsideType DEF BoundInfos, Seen

\* One token over a swap from tick t to tick u, with d of growth: the counters
\* outside the bounds flip when they are crossed, and x is earned.
TokenMoves(t, u, lower, upper, ol, oh, g, d, h, pl, ph, x) ==
    /\ t \in Int /\ u \in Int /\ lower \in Int /\ upper \in Int /\ lower <= upper
    /\ ol \in Int /\ oh \in Int /\ g \in Int /\ d \in Nat /\ h \in Int
    /\ (g + d) - h \in Multiples
    /\ pl = IF MinOf(t, u) < lower /\ lower <= MaxOf(t, u) THEN WrapSub(h, ol) ELSE ol
    /\ ph = IF MinOf(t, u) < upper /\ upper <= MaxOf(t, u) THEN WrapSub(h, oh) ELSE oh
    /\ x = IF lower <= t /\ t < upper THEN d ELSE 0

LEMMA TokenSwap ==
    ASSUME NEW t, NEW u, NEW lower, NEW upper, NEW ol, NEW oh, NEW g, NEW d, NEW h, NEW pl, NEW ph,
           NEW x, TokenMoves(t, u, lower, upper, ol, oh, g, d, h, pl, ph, x)
    PROVE  (RawInside(t, lower, upper, ol, oh, g) + x)
             - RawInside(u, lower, upper, pl, ph, h) \in Multiples
<1> USE DEF TokenMoves
<1>1. (h - ol) - WrapSub(h, ol) \in Multiples /\ WrapSub(h, ol) \in Int
  BY WrapMultiple
<1>2. (h - oh) - WrapSub(h, oh) \in Multiples /\ WrapSub(h, oh) \in Int
  BY WrapMultiple
<1>3. pl \in Int /\ ph \in Int
  BY <1>1, <1>2
<1>4. \A b \in Int : (MinOf(t, u) < b /\ b <= MaxOf(t, u)) <=> ~(t >= b <=> u >= b)
  BY DEF MinOf, MaxOf
<1>5. /\ (t >= lower <=> u >= lower) => pl = ol
      /\ ~(t >= lower <=> u >= lower) => (h - ol) - pl \in Multiples
  BY <1>1, <1>4
<1>6. /\ (t >= upper <=> u >= upper) => ph = oh
      /\ ~(t >= upper <=> u >= upper) => (h - oh) - ph \in Multiples
  BY <1>2, <1>4
<1>7. d \in Int
  OBVIOUS
<1>8. Flips(t, u, lower, upper, ol, oh, g, d, h, pl, ph, x)
  BY <1>3, <1>5, <1>6, <1>7 DEF Flips
<1> HIDE DEF TokenMoves
<1> QED
  BY <1>8, SwapKeepsInside

LEMMA Chain ==
    ASSUME NEW last \in Int, NEW e \in Int, NEW x \in Int, NEW raw \in Int, NEW new \in Int,
           (last + e) - raw \in Multiples, (raw + x) - new \in Multiples
    PROVE  (last + (e + x)) - new \in Multiples
<1>1. ((last + e) - raw) + ((raw + x) - new) \in Multiples
  BY MultiplesAdd
<1>2. ((last + e) - raw) + ((raw + x) - new) = (last + (e + x)) - new
  OBVIOUS
<1> QED
  BY <1>1, <1>2

LEMMA GrowthSwap ==
    ASSUME BookInv, GrowthInv, NEW to \in Points, NEW fee \in Growth, PoolSwap(to, fee)
    PROVE  Tracked(ledger, ghost') => Tracks(pool', ledger, ghost')
<1> DEFINE down == SwapDown(to)
           d0 == IF down THEN fee ELSE 0
           d1 == IF down THEN 0 ELSE fee
           in == ledger.lower <= pool.tick /\ pool.tick < ledger.upper
           x0 == IF in THEN d0 ELSE 0
           x1 == IF in THEN d1 ELSE 0
           h0 == pool'.g0
           h1 == pool'.g1
<1>1. pool \in PoolType /\ ghost \in GhostType /\ fee \in Nat /\ to[2] \in Int
  BY LpConstants, PointFacts DEF BookInv
<1>2. /\ pool' \in PoolType /\ pool'.tick = to[2] /\ pool'.minted = pool.minted
      /\ h0 = GrownBy(pool.g0, fee, down) /\ h1 = GrownBy(pool.g1, fee, ~down)
      /\ h0 \in Int /\ h1 \in Int
      /\ \A t \in BoundTicks :
           pool'.out[t] = IF CrossedBy(to, t)
                          THEN <<WrapSub(h0, pool.out[t][1]), WrapSub(h1, pool.out[t][2])>>
                          ELSE pool.out[t]
  BY <1>1, SwapFields
<1>3. d0 \in Nat /\ d1 \in Nat /\ x0 \in Int /\ x1 \in Int
  BY <1>1
<1>4. ASSUME Tracked(ledger, ghost')
      PROVE  /\ Tracked(ledger, ghost)
             /\ ghost'.g0 = ghost.g0 + x0 /\ ghost'.g1 = ghost.g1 + x1
  <2>1. ledger.liq > 0
    BY <1>4, LedgerFields DEF Tracked, BookInv
  <2>2. \/ in /\ ghost' = [ghost EXCEPT !.g0 = ghost.g0 + d0, !.g1 = ghost.g1 + d1]
        \/ ~in /\ ghost' = ghost
    BY <2>1 DEF PoolSwap, InRange, SwapDown
  <2> HIDE DEF in, d0, d1
  <2>3. ghost.g0 \in Nat /\ ghost.g1 \in Nat
    BY <1>1 DEF GhostType
  <2>4. CASE in
    <3>1. ghost' = [ghost EXCEPT !.g0 = ghost.g0 + d0, !.g1 = ghost.g1 + d1]
      BY <2>2, <2>4
    <3>2. /\ ghost'.g0 = ghost.g0 + d0 /\ ghost'.g1 = ghost.g1 + d1
          /\ ghost'.cleared = ghost.cleared /\ ghost'.raised = ghost.raised
      BY <1>1, <3>1 DEF GhostType
    <3> QED
      BY <1>4, <2>4, <3>2 DEF Tracked
  <2>5. CASE ~in
    <3>1. ghost' = ghost
      BY <2>2, <2>5
    <3> QED
      BY <1>4, <2>3, <2>5, <3>1 DEF Tracked
  <2> QED
    BY <2>4, <2>5
<1>5. SUFFICES ASSUME Tracked(ledger, ghost') PROVE Tracks(pool', ledger, ghost')
  OBVIOUS
<1>6. /\ Tracked(ledger, ghost) /\ Tracks(pool, ledger, ghost)
      /\ ghost'.g0 = ghost.g0 + x0 /\ ghost'.g1 = ghost.g1 + x1
  BY <1>4, <1>5 DEF GrowthInv
<1> DEFINE lower == ledger.lower
           upper == ledger.upper
<1>7. lower \in Initialized(pool.minted) /\ upper \in Initialized(pool.minted)
  BY <1>6 DEF Tracks
<1>8. /\ lower \in BoundTicks /\ upper \in BoundTicks
      /\ lower \in Int /\ upper \in Int /\ lower <= upper
      /\ pool.tick \in Int /\ pool.g0 \in Int /\ pool.g1 \in Int
      /\ pool.out[lower][1] \in Int /\ pool.out[lower][2] \in Int
      /\ pool.out[upper][1] \in Int /\ pool.out[upper][2] \in Int
      /\ RawNow0(pool, ledger) \in Int /\ RawNow1(pool, ledger) \in Int
  BY <1>7, TrackedTypes
<1>9. (pool.g0 + d0) - h0 \in Multiples
  <2>1. CASE down
    <3>1. d0 = fee /\ h0 = (pool.g0 + fee) % U256
      BY <1>2, <2>1 DEF GrownBy
    <3>2. pool.g0 + fee \in Int
      BY <1>1, <1>8
    <3> HIDE DEF d0, h0
    <3> QED
      BY <3>1, <3>2, ModMultiple
  <2>2. CASE ~down
    <3>1. d0 = 0 /\ h0 = pool.g0
      BY <1>2, <2>2 DEF GrownBy
    <3> HIDE DEF d0, h0
    <3>2. (pool.g0 + d0) - h0 = 0
      BY <1>8, <3>1
    <3> QED
      BY <3>2, MultiplesAdd
  <2> QED
    BY <2>1, <2>2
<1>10. (pool.g1 + d1) - h1 \in Multiples
  <2>1. CASE ~down
    <3>1. d1 = fee /\ h1 = (pool.g1 + fee) % U256
      BY <1>2, <2>1 DEF GrownBy
    <3>2. pool.g1 + fee \in Int
      BY <1>1, <1>8
    <3> HIDE DEF d1, h1
    <3> QED
      BY <3>1, <3>2, ModMultiple
  <2>2. CASE down
    <3>1. d1 = 0 /\ h1 = pool.g1
      BY <1>2, <2>2 DEF GrownBy
    <3> HIDE DEF d1, h1
    <3>2. (pool.g1 + d1) - h1 = 0
      BY <1>8, <3>1
    <3> QED
      BY <3>2, MultiplesAdd
  <2> QED
    BY <2>1, <2>2
<1> DEFINE t == pool.tick
           u == to[2]
           ol0 == pool.out[lower][1]
           oh0 == pool.out[upper][1]
           ol1 == pool.out[lower][2]
           oh1 == pool.out[upper][2]
           pl0 == pool'.out[lower][1]
           ph0 == pool'.out[upper][1]
           pl1 == pool'.out[lower][2]
           ph1 == pool'.out[upper][2]
           g0 == pool.g0
           g1 == pool.g1
<1>11. /\ pl0 = IF MinOf(t, u) < lower /\ lower <= MaxOf(t, u) THEN WrapSub(h0, ol0) ELSE ol0
       /\ pl1 = IF MinOf(t, u) < lower /\ lower <= MaxOf(t, u) THEN WrapSub(h1, ol1) ELSE ol1
  <2>1. CrossedBy(to, lower) <=> (MinOf(t, u) < lower /\ lower <= MaxOf(t, u))
    BY <1>7 DEF CrossedBy
  <2>2. pool'.out[lower] = IF CrossedBy(to, lower) THEN <<WrapSub(h0, ol0), WrapSub(h1, ol1)>>
                           ELSE pool.out[lower]
    BY <1>2, <1>8
  <2> HIDE DEF h0, h1, t, u
  <2> QED
    BY <2>1, <2>2
<1>12. /\ ph0 = IF MinOf(t, u) < upper /\ upper <= MaxOf(t, u) THEN WrapSub(h0, oh0) ELSE oh0
       /\ ph1 = IF MinOf(t, u) < upper /\ upper <= MaxOf(t, u) THEN WrapSub(h1, oh1) ELSE oh1
  <2>1. CrossedBy(to, upper) <=> (MinOf(t, u) < upper /\ upper <= MaxOf(t, u))
    BY <1>7 DEF CrossedBy
  <2>2. pool'.out[upper] = IF CrossedBy(to, upper) THEN <<WrapSub(h0, oh0), WrapSub(h1, oh1)>>
                           ELSE pool.out[upper]
    BY <1>2, <1>8
  <2> HIDE DEF h0, h1, t, u
  <2> QED
    BY <2>1, <2>2
<1>13. /\ RawNow0(pool, ledger) = RawInside(t, lower, upper, ol0, oh0, g0)
       /\ RawNow1(pool, ledger) = RawInside(t, lower, upper, ol1, oh1, g1)
       /\ RawNow0(pool', ledger) = RawInside(u, lower, upper, pl0, ph0, h0)
       /\ RawNow1(pool', ledger) = RawInside(u, lower, upper, pl1, ph1, h1)
  BY <1>2 DEF RawNow0, RawNow1
<1>14. /\ t \in Int /\ u \in Int /\ lower \in Int /\ upper \in Int /\ lower <= upper
       /\ ol0 \in Int /\ oh0 \in Int /\ g0 \in Int /\ h0 \in Int /\ ol1 \in Int /\ oh1 \in Int
       /\ g1 \in Int /\ h1 \in Int
       /\ (g0 + d0) - h0 \in Multiples /\ (g1 + d1) - h1 \in Multiples
       /\ x0 = (IF lower <= t /\ t < upper THEN d0 ELSE 0)
       /\ x1 = (IF lower <= t /\ t < upper THEN d1 ELSE 0)
  BY <1>1, <1>2, <1>8, <1>9, <1>10
<1>15. pl0 \in Int /\ ph0 \in Int /\ pl1 \in Int /\ ph1 \in Int
  <2>1. pool'.out \in [BoundTicks -> Pairs]
    BY <1>2 DEF PoolType, Outs
  <2>2. pool'.out[lower] \in Pairs /\ pool'.out[upper] \in Pairs
    BY <1>8, <2>1
  <2> QED
    BY <2>2 DEF Pairs
<1>m. lower \in Initialized(pool'.minted) /\ upper \in Initialized(pool'.minted)
  BY <1>2, <1>7
<1> DEFINE last0 == Inside(ledger, ledger.last)[1]
           last1 == Inside(ledger, ledger.last)[2]
           e0 == ghost.g0
           e1 == ghost.g1
<1>16. last0 \in Int /\ last1 \in Int /\ e0 \in Int /\ e1 \in Int
  BY <1>1, <1>6, LastInside DEF GhostType
<1>17. /\ (last0 + e0) - RawNow0(pool, ledger) \in Multiples
       /\ (last1 + e1) - RawNow1(pool, ledger) \in Multiples
  BY <1>6 DEF Tracks
<1> HIDE DEF t, u, lower, upper, ol0, oh0, ol1, oh1, pl0, ph0, pl1, ph1, g0, g1, h0, h1, d0, d1, x0, x1
<1> DEFINE raw0 == RawInside(t, lower, upper, ol0, oh0, g0)
           raw1 == RawInside(t, lower, upper, ol1, oh1, g1)
           new0 == RawInside(u, lower, upper, pl0, ph0, h0)
           new1 == RawInside(u, lower, upper, pl1, ph1, h1)
<1>18. (raw0 + x0) - new0 \in Multiples
  <2>1. TokenMoves(t, u, lower, upper, ol0, oh0, g0, d0, h0, pl0, ph0, x0)
    BY <1>3, <1>11, <1>12, <1>14 DEF TokenMoves
  <2> QED
    BY <2>1, TokenSwap
<1>19. (raw1 + x1) - new1 \in Multiples
  <2>1. TokenMoves(t, u, lower, upper, ol1, oh1, g1, d1, h1, pl1, ph1, x1)
    BY <1>3, <1>11, <1>12, <1>14 DEF TokenMoves
  <2> QED
    BY <2>1, TokenSwap
<1>20. raw0 \in Int /\ raw1 \in Int /\ new0 \in Int /\ new1 \in Int
  <2>1. \A a, lo, hi, b, c, g \in Int : RawInside(a, lo, hi, b, c, g) \in Int
    BY DEF RawInside
  <2> QED
    BY <1>14, <1>15, <2>1
<1>21. RawNow0(pool, ledger) = raw0 /\ RawNow1(pool, ledger) = raw1
       /\ RawNow0(pool', ledger) = new0 /\ RawNow1(pool', ledger) = new1
  BY <1>13
<1> HIDE DEF raw0, raw1, new0, new1, last0, last1, e0, e1
<1>22. (last0 + (e0 + x0)) - new0 \in Multiples
  BY <1>3, <1>16, <1>17, <1>18, <1>20, <1>21, Chain
<1>23. (last1 + (e1 + x1)) - new1 \in Multiples
  BY <1>3, <1>16, <1>17, <1>19, <1>20, <1>21, Chain
<1> QED
  BY <1>6, <1>21, <1>22, <1>23, <1>m DEF Tracks, last0, last1, e0, e1, lower, upper

\* A mint leaves the counters of the ticks in use alone.
LEMMA GrowthMint ==
    ASSUME BookInv, GrowthInv, NEW range \in Others, PoolMint(range)
    PROVE  Tracked(ledger, ghost) => Tracks(pool', ledger, ghost)
<1> SUFFICES ASSUME Tracked(ledger, ghost) PROVE Tracks(pool', ledger, ghost)
  OBVIOUS
<1>1. Tracks(pool, ledger, ghost)
  BY DEF GrowthInv
<1>2. /\ pool'.tick = pool.tick /\ pool'.g0 = pool.g0 /\ pool'.g1 = pool.g1
      /\ pool'.minted = pool.minted \union {range}
      /\ \A t \in Initialized(pool.minted) : pool'.out[t] = pool.out[t]
  BY MintFields DEF BookInv
<1>3. Initialized(pool.minted) \subseteq Initialized(pool'.minted)
  BY <1>2 DEF Initialized
<1>4. ledger.lower \in Initialized(pool.minted) /\ ledger.upper \in Initialized(pool.minted)
  BY <1>1 DEF Tracks
<1>5. /\ RawNow0(pool', ledger) = RawNow0(pool, ledger)
      /\ RawNow1(pool', ledger) = RawNow1(pool, ledger)
  BY <1>2, <1>4 DEF RawNow0, RawNow1
<1> QED
  BY <1>1, <1>3, <1>4, <1>5 DEF Tracks

\* A burn clears a bound only when nobody uses it, and then it is noted.
LEMMA GrowthBurn ==
    ASSUME BookInv, GrowthInv, NEW range \in Others, PoolBurn(range)
    PROVE  Tracked(ledger, ghost') => Tracks(pool', ledger, ghost')
<1> DEFINE kept == Initialized(pool.minted \ {range})
           cleared == Initialized(pool.minted) \ kept
           b == ghost.cleared \/ (ledger.liq > 0 /\ {ledger.lower, ledger.upper} \cap cleared # {})
<1> SUFFICES ASSUME Tracked(ledger, ghost') PROVE Tracks(pool', ledger, ghost')
  OBVIOUS
<1>1. ghost' = [ghost EXCEPT !.cleared = b] /\ ghost \in GhostType
  BY DEF PoolBurn, BookInv
<1>2. b \in BOOLEAN
  OBVIOUS
<1>3. /\ ghost'.cleared = b /\ ghost'.raised = ghost.raised
      /\ ghost'.g0 = ghost.g0 /\ ghost'.g1 = ghost.g1
  <2> HIDE DEF b
  <2> QED
    BY <1>1, <1>2 DEF GhostType
<1>4. ~b
  BY <1>3 DEF Tracked
<1>5. ledger.liq > 0
  BY LedgerFields DEF Tracked, BookInv
<1>6. ~ghost.cleared /\ ledger.lower \notin cleared /\ ledger.upper \notin cleared
  BY <1>4, <1>5
<1>7. Tracked(ledger, ghost) /\ Tracks(pool, ledger, ghost)
  BY <1>3, <1>6 DEF Tracked, GrowthInv
<1>8. ledger.lower \in Initialized(pool.minted) /\ ledger.upper \in Initialized(pool.minted)
  BY <1>7 DEF Tracks
<1>9. ledger.lower \in kept /\ ledger.upper \in kept
  BY <1>6, <1>8
<1>10. /\ pool'.tick = pool.tick /\ pool'.g0 = pool.g0 /\ pool'.g1 = pool.g1
       /\ pool'.minted = pool.minted \ {range}
       /\ pool'.out[ledger.lower] = pool.out[ledger.lower]
       /\ pool'.out[ledger.upper] = pool.out[ledger.upper]
  BY <1>8, <1>9, BurnFields DEF BookInv
<1>11. /\ RawNow0(pool', ledger) = RawNow0(pool, ledger)
       /\ RawNow1(pool', ledger) = RawNow1(pool, ledger)
  BY <1>10 DEF RawNow0, RawNow1
<1> QED
  BY <1>3, <1>7, <1>9, <1>10, <1>11 DEF Tracks

\* What a snapshot of the pool shows inside the range is what the pool has.
Shows(snap) ==
    /\ SnapOK(snap)
    /\ snap.tick = pool.tick /\ snap.g0 = pool.g0 /\ snap.g1 = pool.g1
    /\ snap.lower \in {None, TickInfo(ledger.lower)}
    /\ snap.upper \in {None, TickInfo(ledger.upper)}

LEMMA ShowsRaw ==
    ASSUME BookInv, NEW snap, Shows(snap), BoundInfos(ledger, snap)
    PROVE  /\ ledger.lower \in Initialized(pool.minted) /\ ledger.upper \in Initialized(pool.minted)
           /\ RawNow0(pool, ledger) \in Int /\ RawNow1(pool, ledger) \in Int
           /\ Inside(ledger, snap)[1] \in Int /\ Inside(ledger, snap)[2] \in Int
           /\ RawNow0(pool, ledger) - Inside(ledger, snap)[1] \in Multiples
           /\ RawNow1(pool, ledger) - Inside(ledger, snap)[2] \in Multiples
<1>1. /\ snap.lower = TickInfo(ledger.lower) /\ snap.upper = TickInfo(ledger.upper)
      /\ snap.lower.initialized /\ snap.upper.initialized
  BY DEF Shows, BoundInfos
<1>2. ledger.lower \in Initialized(pool.minted) /\ ledger.upper \in Initialized(pool.minted)
  <2>1. ASSUME NEW t PROVE TickInfo(t).initialized = (t \in Initialized(pool.minted))
    <3> DEFINE b == t \in Initialized(pool.minted)
               o == IF t \in BoundTicks THEN pool.out[t] ELSE <<0, 0>>
    <3>1. TickInfo(t) = [tick |-> t, initialized |-> b, out |-> o]
      BY DEF TickInfo
    <3> HIDE DEF b, o
    <3>2. TickInfo(t).initialized = b
      BY <3>1
    <3> QED
      BY <3>2 DEF b
  <2> QED
    BY <1>1, <2>1
<1>3. /\ ledger.lower \in BoundTicks /\ ledger.upper \in BoundTicks
      /\ ledger.lower \in Int /\ ledger.upper \in Int /\ ledger.lower <= ledger.upper
      /\ pool.tick \in Int /\ pool.g0 \in Int /\ pool.g1 \in Int
      /\ pool.out[ledger.lower][1] \in Int /\ pool.out[ledger.lower][2] \in Int
      /\ pool.out[ledger.upper][1] \in Int /\ pool.out[ledger.upper][2] \in Int
      /\ RawNow0(pool, ledger) \in Int /\ RawNow1(pool, ledger) \in Int
  BY <1>2, TrackedTypes
<1>4. snap.lower.out = pool.out[ledger.lower] /\ snap.upper.out = pool.out[ledger.upper]
  BY <1>1, <1>3 DEF TickInfo
<1> DEFINE t == pool.tick
           lower == ledger.lower
           upper == ledger.upper
           ol0 == pool.out[lower][1]
           oh0 == pool.out[upper][1]
           ol1 == pool.out[lower][2]
           oh1 == pool.out[upper][2]
           g0 == pool.g0
           g1 == pool.g1
<1>5. /\ Inside(ledger, snap)[1] = FeeGrowthInside(t, lower, upper, ol0, oh0, g0)
      /\ Inside(ledger, snap)[2] = FeeGrowthInside(t, lower, upper, ol1, oh1, g1)
  BY <1>4 DEF Inside, Shows
<1>6. /\ RawNow0(pool, ledger) = RawInside(t, lower, upper, ol0, oh0, g0)
      /\ RawNow1(pool, ledger) = RawInside(t, lower, upper, ol1, oh1, g1)
  BY DEF RawNow0, RawNow1
<1>7. Inside(ledger, snap)[1] \in Int /\ Inside(ledger, snap)[2] \in Int
  <2>1. Inside(ledger, snap)[1] \in Nat /\ Inside(ledger, snap)[2] \in Nat
    BY InsideType DEF BoundInfos, Shows, SnapOK
  <2> QED
    BY <2>1
<1>8. /\ t \in Int /\ lower \in Int /\ upper \in Int /\ lower <= upper
      /\ ol0 \in Int /\ oh0 \in Int /\ g0 \in Int /\ ol1 \in Int /\ oh1 \in Int /\ g1 \in Int
  BY <1>3
<1> HIDE DEF t, lower, upper, ol0, oh0, ol1, oh1, g0, g1
<1>9. RawInside(t, lower, upper, ol0, oh0, g0)
        - FeeGrowthInside(t, lower, upper, ol0, oh0, g0) \in Multiples
  BY <1>8, InsideIsRaw
<1>10. RawInside(t, lower, upper, ol1, oh1, g1)
         - FeeGrowthInside(t, lower, upper, ol1, oh1, g1) \in Multiples
  BY <1>8, InsideIsRaw
<1> QED
  BY <1>2, <1>3, <1>5, <1>6, <1>7, <1>9, <1>10

LEMMA Negated == ASSUME NEW a \in Int, NEW b \in Int, a - b \in Multiples PROVE b - a \in Multiples
<1>1. 0 - (a - b) \in Multiples
  BY MultiplesAdd
<1>2. 0 - (a - b) = b - a
  OBVIOUS
<1> QED
  BY <1>1, <1>2

\* A snapshot that the book keeps is the new start of the interval.
LEMMA GrowthSeen ==
    ASSUME BookInv, NEW snap, Shows(snap), NEW l \in LedgerType, l.last = SeenOf(snap),
           NEW gh, gh.g0 = 0, gh.g1 = 0, Tracked(l, gh)
    PROVE  Tracks(pool, l, gh)
<1>1. /\ l.last.lower = snap.lower /\ l.last.upper = snap.upper /\ l.last.tick = snap.tick
      /\ l.last.g0 = snap.g0 /\ l.last.g1 = snap.g1
  BY SeenOfType DEF Shows
<1>2. /\ snap.lower # None /\ snap.upper # None
      /\ snap.lower.tick = l.lower /\ snap.upper.tick = l.upper
      /\ snap.lower.initialized /\ snap.upper.initialized
  BY <1>1 DEF Tracked, BoundInfos
<1>3. snap.lower = TickInfo(ledger.lower) /\ snap.upper = TickInfo(ledger.upper)
  BY <1>2 DEF Shows
<1>4. l.lower = ledger.lower /\ l.upper = ledger.upper
  BY <1>2, <1>3 DEF TickInfo
<1>5. BoundInfos(ledger, snap)
  BY <1>2, <1>4 DEF BoundInfos
<1>6. Inside(l, l.last) = Inside(ledger, snap)
  BY <1>1, <1>4 DEF Inside
<1>7. RawNow0(pool, l) = RawNow0(pool, ledger) /\ RawNow1(pool, l) = RawNow1(pool, ledger)
  BY <1>4 DEF RawNow0, RawNow1
<1>8. /\ ledger.lower \in Initialized(pool.minted) /\ ledger.upper \in Initialized(pool.minted)
      /\ RawNow0(pool, ledger) \in Int /\ RawNow1(pool, ledger) \in Int
      /\ Inside(ledger, snap)[1] \in Int /\ Inside(ledger, snap)[2] \in Int
      /\ RawNow0(pool, ledger) - Inside(ledger, snap)[1] \in Multiples
      /\ RawNow1(pool, ledger) - Inside(ledger, snap)[2] \in Multiples
  BY <1>5, ShowsRaw
<1> DEFINE a0 == RawNow0(pool, ledger)
           a1 == RawNow1(pool, ledger)
           b0 == Inside(ledger, snap)[1]
           b1 == Inside(ledger, snap)[2]
<1> HIDE DEF a0, a1, b0, b1
<1>9. b0 - a0 \in Multiples /\ b1 - a1 \in Multiples
  BY <1>8, Negated DEF a0, a1, b0, b1
<1>10. (b0 + 0) - a0 = b0 - a0 /\ (b1 + 0) - a1 = b1 - a1
  BY <1>8 DEF a0, a1, b0, b1
<1> QED
  BY <1>4, <1>6, <1>7, <1>8, <1>9, <1>10 DEF Tracks, a0, a1, b0, b1

LEMMA GrowthTick ==
    ASSUME BookInv, GrowthInv, NEW center \in Centers, NEW fault, NEW persisted \in BOOLEAN,
           Tick(center, fault, persisted)
    PROVE  Tracked(ledger', ghost') => Tracks(pool', ledger', ghost')
<1> DEFINE snap == ReadOnce(fault, MaybeRefreshWindow(fault))
           r == Step(snap, center)
<1>1. /\ Shows(snap) /\ SnapOK(snap) /\ pool' = pool
      /\ ledger' = IF r.raised \/ persisted THEN r.ledger ELSE ledger
      /\ r.raised => ghost' = [ghost EXCEPT !.raised = TRUE]
      /\ ~r.raised /\ persisted =>
           ghost' = [ghost EXCEPT !.g0 = 0, !.g1 = 0, !.cleared = FALSE]
      /\ ~r.raised /\ ~persisted => ghost' = ghost
  BY TickTakes DEF Shows
<1> HIDE DEF snap
<1>2. /\ r.ledger \in LedgerType /\ r.raised \in BOOLEAN
      /\ ~r.raised => r.ledger.last = SeenOf(snap)
  BY <1>1, CenterType, StepResult DEF BookInv
<1> HIDE DEF r
<1>3. ghost \in GhostType
  BY DEF BookInv
<1>4. CASE r.raised
  <2>1. ghost' = [ghost EXCEPT !.raised = TRUE]
    BY <1>1, <1>4
  <2>2. ghost'.raised
    BY <1>3, <2>1 DEF GhostType
  <2> QED
    BY <2>2 DEF Tracked
<1>5. CASE ~r.raised /\ persisted
  <2>1. ghost' = [ghost EXCEPT !.g0 = 0, !.g1 = 0, !.cleared = FALSE] /\ ledger' = r.ledger
    BY <1>1, <1>5
  <2>2. ghost'.g0 = 0 /\ ghost'.g1 = 0
    BY <1>3, <2>1 DEF GhostType
  <2>3. ledger' \in LedgerType /\ ledger'.last = SeenOf(snap)
    BY <1>2, <1>5, <2>1
  <2> DEFINE l == ledger'
             gh == ghost'
  <2>4. l \in LedgerType /\ l.last = SeenOf(snap) /\ gh.g0 = 0 /\ gh.g1 = 0
    BY <2>2, <2>3
  <2> HIDE DEF l, gh
  <2>5. Tracked(l, gh) => Tracks(pool, l, gh)
    BY <1>1, <2>4, GrowthSeen
  <2> QED
    BY <1>1, <2>5 DEF l, gh
<1>6. CASE ~r.raised /\ ~persisted
  <2>1. ghost' = ghost /\ ledger' = ledger /\ pool' = pool
    BY <1>1, <1>6
  <2> QED
    BY <2>1 DEF GrowthInv
<1> QED
  BY <1>2, <1>4, <1>5, <1>6

LEMMA GrowthStale ==
    ASSUME BookInv, GrowthInv, NEW persisted \in BOOLEAN, TickStale(0, persisted)
    PROVE  Tracked(ledger', ghost') => Tracks(pool', ledger', ghost')
<1> DEFINE snap == [src.good EXCEPT !.stale = TRUE]
           r == Step(snap, 0)
<1>1. /\ UNCHANGED <<base0, pool, src, kill, ghost>> /\ snap.stale
      /\ ledger' = IF persisted THEN r.ledger ELSE ledger
  BY StaleTakes
<1> HIDE DEF snap
<1>2. /\ r.ledger.last = ledger.last /\ r.ledger.liq = ledger.liq
      /\ r.ledger.lower = ledger.lower /\ r.ledger.upper = ledger.upper
  BY <1>1, StaleResult DEF BookInv
<1> HIDE DEF r
<1>3. /\ ledger'.last = ledger.last /\ ledger'.liq = ledger.liq
      /\ ledger'.lower = ledger.lower /\ ledger'.upper = ledger.upper
      /\ pool' = pool /\ ghost' = ghost
  BY <1>1, <1>2
<1> DEFINE l == ledger'
<1> HIDE DEF l
<1>4. /\ l.last = ledger.last /\ l.liq = ledger.liq /\ l.lower = ledger.lower
      /\ l.upper = ledger.upper
  BY <1>3 DEF l
<1>5. Tracked(l, ghost) => Tracked(ledger, ghost)
  BY <1>4 DEF Tracked, BoundInfos
<1>6. Tracks(pool, ledger, ghost) => Tracks(pool, l, ghost)
  BY <1>4 DEF Tracks, Inside, RawNow0, RawNow1
<1> QED
  BY <1>3, <1>5, <1>6 DEF GrowthInv, l

LEMMA GrowthNext == BookInv /\ GrowthInv /\ [Next]_vars => GrowthInv'
<1> SUFFICES ASSUME BookInv, GrowthInv, [Next]_vars PROVE GrowthInv'
  OBVIOUS
<1> DEFINE Goal == Tracked(ledger', ghost') => Tracks(pool', ledger', ghost')
<1>0. SUFFICES Goal
  BY DEF GrowthInv, Tracked, Tracks, Inside, RawNow0, RawNow1, BoundInfos
<1>1. ASSUME NEW to \in Points, NEW fee \in Growth, PoolSwap(to, fee) PROVE Goal
  <2>1. ledger' = ledger
    BY <1>1 DEF PoolSwap
  <2>2. Tracked(ledger, ghost') => Tracks(pool', ledger, ghost')
    BY <1>1, GrowthSwap
  <2> QED
    BY <2>1, <2>2
<1>2. ASSUME NEW range \in Others, PoolMint(range) PROVE Goal
  <2>1. ledger' = ledger /\ ghost' = ghost
    BY <1>2 DEF PoolMint
  <2>2. Tracked(ledger, ghost) => Tracks(pool', ledger, ghost)
    BY <1>2, GrowthMint
  <2> QED
    BY <2>1, <2>2
<1>3. ASSUME NEW range \in Others, PoolBurn(range) PROVE Goal
  <2>1. ledger' = ledger
    BY <1>3 DEF PoolBurn
  <2>2. Tracked(ledger, ghost') => Tracks(pool', ledger, ghost')
    BY <1>3, GrowthBurn
  <2> QED
    BY <2>1, <2>2
<1>4. ASSUME NEW center \in Centers, NEW fault, NEW persisted \in BOOLEAN,
             Tick(center, fault, persisted)
      PROVE  Goal
  BY <1>4, GrowthTick
<1>5. ASSUME NEW persisted \in BOOLEAN, TickStale(0, persisted) PROVE Goal
  BY <1>5, GrowthStale
<1>6. ASSUME UNCHANGED <<pool, ledger, ghost>> PROVE Goal
  BY <1>6 DEF GrowthInv
<1>7. TickUnavailable \/ ToggleKill \/ UNCHANGED vars => UNCHANGED <<pool, ledger, ghost>>
  BY DEF TickUnavailable, ToggleKill, vars
<1>8. {TRUE, "persist" \notin Faults} \in SUBSET BOOLEAN
  OBVIOUS
<1> HIDE DEF Goal
<1> QED
  BY <1>1, <1>2, <1>3, <1>4, <1>5, <1>6, <1>7, <1>8 DEF Next

LEMMA GrowthInit == Init => GrowthInv
<1> SUFFICES ASSUME Init PROVE GrowthInv
  OBVIOUS
<1>1. ledger.liq = 0
  BY DEF Init, FreshLedger
<1> QED
  BY <1>1 DEF GrowthInv, Tracked

\* The growth of one interval is less than the counters can hold: what Uniswap
\* itself relies on.
GrowthFits == ghost.g0 < U256 /\ ghost.g1 < U256

LEMMA SmallGrowth ==
    ASSUME NEW last \in Int, NEW now \in Int, NEW raw \in Int, NEW e \in Nat, e < U256,
           (last + e) - raw \in Multiples, raw - now \in Multiples
    PROVE  WrapSub(now, last) = e
<1> DEFINE w == WrapSub(now, last)
<1>1. (now - last) - w \in Multiples /\ w \in Int
  BY WrapMultiple
<1>2. w \in 0..(U256 - 1)
  BY WrapType
<1>3. U256 \in Int
  BY Widths DEF Positive
<1> HIDE DEF w
<1> DEFINE m == (((last + e) - raw) + (raw - now)) + ((now - last) - w)
<1>4. m \in Multiples
  BY <1>1, MultiplesAdd
<1>5. m = e - w
  BY <1>1
<1>6. -U256 < e - w /\ e - w < U256
  BY <1>2, <1>3
<1>7. e - w = 0
  BY <1>4, <1>5, <1>6, MultipleSmall
<1>8. e = w
  BY <1>1, <1>7
<1> QED
  BY <1>8 DEF w

\* What the book computes from two snapshots is what happened in between.
LEMMA ExactGrowth ==
    ASSUME BookInv, GrowthInv, GrowthFits, NEW snap, Shows(snap), ~ghost.cleared, ~ghost.raised,
           ledger.last # None, IsExact(ledger, ledger.last, snap)
    PROVE  GrowthInside(ledger, ledger.last, snap) = <<ghost.g0, ghost.g1>>
<1>1. ledger.last \in Seen /\ SnapOK(snap) /\ ledger.liq # 0
      /\ GrowthInside(ledger, ledger.last, snap) # None
  BY LedgerFields DEF BookInv, Shows, IsExact
<1>2. /\ BoundInfos(ledger, ledger.last) /\ BoundInfos(ledger, snap)
      /\ GrowthInside(ledger, ledger.last, snap)
           = <<WrapSub(Inside(ledger, snap)[1], Inside(ledger, ledger.last)[1]),
               WrapSub(Inside(ledger, snap)[2], Inside(ledger, ledger.last)[2])>>
  BY <1>1, GrowthInsideType
<1>3. Tracked(ledger, ghost)
  BY <1>1, <1>2 DEF Tracked
<1>4. Tracks(pool, ledger, ghost)
  BY <1>3 DEF GrowthInv
<1>5. /\ RawNow0(pool, ledger) \in Int /\ RawNow1(pool, ledger) \in Int
      /\ Inside(ledger, snap)[1] \in Int /\ Inside(ledger, snap)[2] \in Int
      /\ RawNow0(pool, ledger) - Inside(ledger, snap)[1] \in Multiples
      /\ RawNow1(pool, ledger) - Inside(ledger, snap)[2] \in Multiples
  BY <1>2, ShowsRaw
<1>6. Inside(ledger, ledger.last)[1] \in Int /\ Inside(ledger, ledger.last)[2] \in Int
  BY <1>3, LastInside
<1>7. ghost.g0 \in Nat /\ ghost.g1 \in Nat
  BY DEF BookInv, GhostType
<1> DEFINE raw0 == RawNow0(pool, ledger)
           raw1 == RawNow1(pool, ledger)
           now0 == Inside(ledger, snap)[1]
           now1 == Inside(ledger, snap)[2]
           last0 == Inside(ledger, ledger.last)[1]
           last1 == Inside(ledger, ledger.last)[2]
           e0 == ghost.g0
           e1 == ghost.g1
<1>8. /\ raw0 \in Int /\ now0 \in Int /\ last0 \in Int /\ e0 \in Nat /\ e0 < U256
      /\ (last0 + e0) - raw0 \in Multiples /\ raw0 - now0 \in Multiples
  BY <1>4, <1>5, <1>6, <1>7 DEF Tracks, GrowthFits
<1>9. /\ raw1 \in Int /\ now1 \in Int /\ last1 \in Int /\ e1 \in Nat /\ e1 < U256
      /\ (last1 + e1) - raw1 \in Multiples /\ raw1 - now1 \in Multiples
  BY <1>4, <1>5, <1>6, <1>7 DEF Tracks, GrowthFits
<1>10. GrowthInside(ledger, ledger.last, snap) = <<WrapSub(now0, last0), WrapSub(now1, last1)>>
  BY <1>2
<1> HIDE DEF raw0, raw1, now0, now1, last0, last1, e0, e1
<1>11. WrapSub(now0, last0) = e0
  BY <1>8, SmallGrowth
<1>12. WrapSub(now1, last1) = e1
  BY <1>9, SmallGrowth
<1> QED
  BY <1>10, <1>11, <1>12 DEF e0, e1

LEMMA FeesOfType ==
    ASSUME base0 \in BOOLEAN, NEW l, l.liq \in Nat, NEW prev, prev.liq \in Nat,
           NEW cur, cur.liq \in Nat, NEW growth \in Nat \X Nat
    PROVE  FeesOf(l, prev, cur, growth) \in Nat \X Nat
<1> DEFINE f1 == FeesOwed(l.liq, growth[1])
           f2 == FeesOwed(l.liq, growth[2])
           d1 == Diluted(l, prev, cur, f1)
           d2 == Diluted(l, prev, cur, f2)
<1>1. f1 \in Nat /\ f2 \in Nat
  BY OwedType
<1>2. d1 \in Nat /\ d2 \in Nat
  <2> HIDE DEF f1, f2
  <2> QED
    BY <1>1, DilutedType
<1>3. FeesOf(l, prev, cur, growth) = Oriented(<<d1, d2>>)
  BY DEF FeesOf
<1> HIDE DEF d1, d2
<1>4. <<d1, d2>> \in Nat \X Nat
  BY <1>2
<1> QED
  BY <1>3, <1>4, OrientedType

-----------------------------------------------------------------------------
(* The fees reported as exact *)

\* For every pool, price path, mint, burn, failed read and rolled back tick: as
\* long as no interval sees 2^256 or more of growth, the fees that the book
\* reports as exact are those of the growth that happened while the price was
\* in the range (LpPaperBook._accrue, fee_growth_inside).
THEOREM BookExactIsTrue == Spec /\ []GrowthFits => ExactIsTrue
<1> DEFINE fee == FeesOf(ledger, ledger.last, ledger'.last, <<ghost.g0, ghost.g1>>)
           Earned == ledger'.fees - ledger.fees = Value(fee[1], fee[2], Price(ledger'.last.price))
           A == (ledger'.last # ledger.last /\ ledger'.acc = "exact"
                   /\ ~ghost.cleared /\ ~ghost'.raised) => Earned
<1>1. ASSUME BookInv, GrowthInv, GrowthFits, [Next]_vars PROVE [A]_vars
  <2> USE <1>1
  <2>1. ASSUME UNCHANGED ledger PROVE A
    BY <2>1
  <2>2. ASSUME NEW center \in Centers, NEW fault, NEW persisted \in BOOLEAN,
               Tick(center, fault, persisted)
        PROVE  A
    <3> SUFFICES ASSUME ledger'.last # ledger.last, ledger'.acc = "exact",
                        ~ghost.cleared, ~ghost'.raised
                 PROVE  Earned
      OBVIOUS
    <3> DEFINE snap == ReadOnce(fault, MaybeRefreshWindow(fault))
               r == Step(snap, center)
               growth == GrowthInside(ledger, ledger.last, snap)
    <3>1. /\ Shows(snap) /\ SnapOK(snap)
          /\ ledger' = IF r.raised \/ persisted THEN r.ledger ELSE ledger
          /\ r.raised => ghost' = [ghost EXCEPT !.raised = TRUE]
          /\ ~r.raised /\ persisted =>
               ghost' = [ghost EXCEPT !.g0 = 0, !.g1 = 0, !.cleared = FALSE]
      BY <2>2, TickTakes DEF Shows
    <3> HIDE DEF snap
    <3> DEFINE paid == FeesOf(ledger, ledger.last, r.ledger.last, growth)
    <3>2. /\ r.raised \in BOOLEAN
          /\ ~r.raised =>
               /\ r.ledger.last = SeenOf(snap)
               /\ r.ledger.acc = "exact" =>
                    /\ ledger.last # None
                    /\ IsExact(ledger, ledger.last, snap)
                    /\ r.ledger.fees
                         = ledger.fees + Value(paid[1], paid[2], Price(r.ledger.last.price))
      BY <3>1, CenterType, StepResult DEF BookInv
    <3> HIDE DEF r
    <3>3. ghost \in GhostType
      BY DEF BookInv
    <3>4. ~r.raised
      <4> SUFFICES ASSUME r.raised PROVE FALSE
        BY <3>2
      <4>1. ghost' = [ghost EXCEPT !.raised = TRUE]
        BY <3>1
      <4>2. ghost'.raised
        BY <3>3, <4>1 DEF GhostType
      <4> QED
        BY <4>2
    <3>5. persisted /\ ledger' = r.ledger
      BY <3>1, <3>4
    <3>6. ~ghost.raised
      <4>1. ghost' = [ghost EXCEPT !.g0 = 0, !.g1 = 0, !.cleared = FALSE]
        BY <3>1, <3>4, <3>5
      <4>2. ghost'.raised = ghost.raised
        BY <3>3, <4>1 DEF GhostType
      <4> QED
        BY <4>2
    <3>7. /\ ledger'.last = SeenOf(snap) /\ ledger.last # None
          /\ IsExact(ledger, ledger.last, snap)
          /\ ledger'.fees = ledger.fees + Value(paid[1], paid[2], Price(ledger'.last.price))
      BY <3>2, <3>4, <3>5
    <3>8. growth = <<ghost.g0, ghost.g1>>
      BY <3>1, <3>6, <3>7, ExactGrowth
    <3> HIDE DEF growth
    <3>9. paid = fee
      BY <3>5, <3>8
    <3>10. fee \in Nat \X Nat
      <4> DEFINE g == <<ghost.g0, ghost.g1>>
                 cur == ledger'.last
      <4>1. g \in Nat \X Nat /\ ledger.liq \in Nat /\ ledger.last.liq \in Nat
        BY <3>3, <3>7, LedgerFields DEF GhostType, BookInv, Seen
      <4>2. cur.liq \in Nat
        BY <3>1, <3>7, SeenOfType DEF SnapOK
      <4> HIDE DEF g, cur
      <4>3. FeesOf(ledger, ledger.last, cur, g) \in Nat \X Nat
        BY <4>1, <4>2, FeesOfType DEF BookInv
      <4> QED
        BY <4>3 DEF g, cur
    <3>11. Price(ledger'.last.price) \in Nat
      <4> DEFINE s == ledger'.last.price
      <4>1. s \in SqrtPrices
        BY <3>1, <3>7, SeenOfType DEF SnapOK
      <4> HIDE DEF s
      <4>2. Price(s) \in Nat
        BY <4>1, PriceType DEF BookInv
      <4> QED
        BY <4>2 DEF s
    <3>12. ledger.fees \in Int
      BY LedgerFields DEF BookInv
    <3> DEFINE p == Price(ledger'.last.price)
               v == Value(fee[1], fee[2], p)
    <3>13. ledger'.fees = ledger.fees + v
      BY <3>7, <3>9
    <3> HIDE DEF fee, p
    <3>14. v \in Int
      <4>1. fee[1] \in Nat /\ fee[2] \in Nat /\ p \in Nat /\ Unit \in Nat
        BY <3>10, <3>11, CapitalType DEF p
      <4>2. fee[1] * p \in Nat /\ fee[2] * Unit \in Nat
        BY <4>1, Factors
      <4> QED
        BY <4>2 DEF Value
    <3> HIDE DEF v
    <3>15. ledger'.fees - ledger.fees = v
      BY <3>12, <3>13, <3>14
    <3> QED
      BY <3>15 DEF v, p, fee
  <2>3. ASSUME NEW persisted \in BOOLEAN, TickStale(0, persisted) PROVE A
    <3> DEFINE snap == [src.good EXCEPT !.stale = TRUE]
               r == Step(snap, 0)
    <3>1. snap.stale /\ ledger' = IF persisted THEN r.ledger ELSE ledger
      BY <2>3, StaleTakes
    <3> HIDE DEF snap
    <3>2. r.ledger.last = ledger.last
      BY <3>1, StaleResult DEF BookInv
    <3> HIDE DEF r
    <3>3. ledger'.last = ledger.last
      BY <3>1, <3>2
    <3> QED
      BY <3>3
  <2> HIDE DEF A
  <2>4. {TRUE, "persist" \notin Faults} \in SUBSET BOOLEAN
    OBVIOUS
  <2>5. \A to, fe : PoolSwap(to, fe) => A
    BY <2>1 DEF PoolSwap
  <2>6. \A range : PoolMint(range) \/ PoolBurn(range) => A
    BY <2>1 DEF PoolMint, PoolBurn
  <2>7. TickUnavailable \/ ToggleKill => A
    BY <2>1 DEF TickUnavailable, ToggleKill
  <2> QED
    BY <2>2, <2>3, <2>4, <2>5, <2>6, <2>7 DEF Next
<1>2. BookInv /\ GrowthInv /\ GrowthFits /\ [Next]_vars => [A]_vars
  BY <1>1
<1>3. ExactIsTrue <=> [][A]_vars
  BY PTL DEF ExactIsTrue
<1> HIDE DEF A
<1>4. Init => GrowthInv
  BY GrowthInit
<1>5. BookInv /\ GrowthInv /\ [Next]_vars => GrowthInv'
  BY GrowthNext
<1> QED
  BY <1>2, <1>3, <1>4, <1>5, BookInvariant, PTL DEF Spec
====
