------------------------------- MODULE LpBook -------------------------------
(***************************************************************************)
(* The paper book of a concentrated-liquidity position                     *)
(* (app/execution/lp_paper_book.py, app/strategies/concentrated_lp.py), fed *)
(* by the block-pinned pool reader (app/adapters/dex/v3_pool_adapter.py)    *)
(* inside a tick of the paper loop (MarketMakerLoop._v3_step).             *)
(*                                                                         *)
(* The pool is the real one: others swap, mint and burn between two reads. *)
(* It is external, modelled from what the reader reads of it.  A tick reads *)
(* a snapshot and steps the book; nothing else touches the book between the *)
(* two, so a tick is one action.  The code's floats (prices, valuations)   *)
(* are integers in 1/Unit of a raw quote unit.  A block is one unit of time.*)
(***************************************************************************)
EXTENDS PoolMath, FiniteSets, FiniteSetsExt

CONSTANTS
  Spacing, FeePips,       \* of the pool
  BaseRange,              \* the range of the pool that is always minted
  Others,                 \* ranges others may mint and burn: [lower, upper, liq]
  PoolPrices,             \* the square-root prices the pool visits
  Growth,                 \* what fee growth one swap may add
  StartGrowth,            \* the growth counters at the start
  WindowWords, WindowRefresh,      \* of the reader
  Capital, Unit, UnitLiquidity,    \* of the book
  GasLive, GasFallback,            \* gas of a rebalance, in base units
  HalfWidth, DriftLimit, Percent,  \* range_width_bps / 2 and the threshold, of Percent
  Cooldown, SnapTolerance,         \* of the strategy
  Centers,                \* prices of the CEX mid; 0 is none
  Faults, MaxFaults, MaxBlocks, MaxTicks   \* bounds

ASSUME LpConstants ==
  /\ {Spacing, Unit, UnitLiquidity, Percent} \subseteq Nat \ {0}
  /\ {FeePips, StartGrowth, WindowWords, WindowRefresh, Capital, GasLive,
       GasFallback, HalfWidth, DriftLimit, Cooldown, SnapTolerance} \subseteq Nat
  /\ FeePips < FeeDen
  /\ Growth \subseteq Nat /\ Centers \subseteq Nat
  /\ PoolPrices \union {Q96} \subseteq MinSqrtRatio..MaxSqrtRatio
  /\ IsFiniteSet(Others)
  /\ Others \union {BaseRange} \subseteq [lower : Int, upper : Int, liq : Nat]

VARIABLES
  base0,   \* PoolMetadata.base_is_token0
  pool,    \* the chain: price, tick, growth, minted ranges, outside counters
  src,     \* V3PoolAdapter: window, reads since its refresh, last good snapshot
  ledger,  \* LpPaperBook._ledger, with _meta as `ready'
  kill,    \* the kill switch
  ghost,   \* what really happened since ledger.last (see below)
  budget   \* ticks and faults left

vars == <<base0, pool, src, ledger, kill, ghost, budget>>

None == [none |-> TRUE]

-----------------------------------------------------------------------------
(* The pool *)

BoundTicks == UNION {{r.lower, r.upper} : r \in Others \union {BaseRange}}
Initialized(minted) == UNION {{r.lower, r.upper} : r \in minted}
InRange(tick, lower, upper) == lower <= tick /\ tick < upper

Points == {<<s, GetTickAtSqrtRatio(s)>> : s \in PoolPrices}
          \union {<<SqrtRatio[t], t - 1>> : t \in {u \in BoundTicks : SqrtRatio[u] \in PoolPrices}}

Liquidity == SumFunctionOnSet([r \in pool.minted |-> r.liq],
               {r \in pool.minted : InRange(pool.tick, r.lower, r.upper)})

Net(t) == SumFunctionOnSet([r \in pool.minted |-> IF r.lower = t THEN r.liq ELSE -r.liq],
            {r \in pool.minted : t \in {r.lower, r.upper}})

\* Somebody swaps: fees grow in the range the swap starts in, then the price
\* moves and every initialized tick on the way flips its outside counters.
PoolSwap(to, fee) ==
  LET down == to[2] < pool.tick \/ to[1] < pool.price
      g0 == IF down THEN (pool.g0 + fee) % U256 ELSE pool.g0
      g1 == IF down THEN pool.g1 ELSE (pool.g1 + fee) % U256
      crossed == {t \in Initialized(pool.minted) :
                    MinOf(pool.tick, to[2]) < t /\ t <= MaxOf(pool.tick, to[2])}
      earns == ledger.liq > 0 /\ InRange(pool.tick, ledger.lower, ledger.upper)
  IN  /\ pool.block < MaxBlocks
      /\ pool' = [pool EXCEPT
           !.price = to[1], !.tick = to[2], !.g0 = g0, !.g1 = g1, !.block = @ + 1,
           !.out = [t \in BoundTicks |->
                      IF t \in crossed
                      THEN <<WrapSub(g0, @[t][1]), WrapSub(g1, @[t][2])>>
                      ELSE @[t]]]
      /\ ghost' = IF earns
                  THEN [ghost EXCEPT !.g0 = @ + (IF down THEN fee ELSE 0),
                                     !.g1 = @ + (IF down THEN 0 ELSE fee)]
                  ELSE ghost
      /\ UNCHANGED <<base0, src, ledger, kill, budget>>

\* Somebody mints a range: a tick that was not initialized takes the growth
\* so far as its outside counters when it is at or below the current tick.
PoolMint(range) ==
  /\ pool.block < MaxBlocks
  /\ range \notin pool.minted
  /\ pool' = [pool EXCEPT
       !.minted = @ \union {range}, !.block = @ + 1,
       !.out = [t \in BoundTicks |->
                  IF t \in {range.lower, range.upper} \ Initialized(pool.minted)
                  THEN IF t <= pool.tick THEN <<pool.g0, pool.g1>> ELSE <<0, 0>>
                  ELSE @[t]]]
  /\ UNCHANGED <<base0, src, ledger, kill, ghost, budget>>

\* Somebody burns a range: ticks nobody uses any more are cleared.
PoolBurn(range) ==
  LET cleared == Initialized(pool.minted) \ Initialized(pool.minted \ {range})
  IN  /\ pool.block < MaxBlocks
      /\ range \in pool.minted
      /\ pool' = [pool EXCEPT
           !.minted = @ \ {range}, !.block = @ + 1,
           !.out = [t \in BoundTicks |-> IF t \in cleared THEN <<0, 0>> ELSE @[t]]]
      /\ ghost' = [ghost EXCEPT
           !.cleared = @ \/ (ledger.liq > 0 /\ {ledger.lower, ledger.upper} \cap cleared # {})]
      /\ UNCHANGED <<base0, src, ledger, kill, budget>>

-----------------------------------------------------------------------------
(* Prices and values (pricing.py and LpPaperBook._value) *)

Price(s) == IF base0 THEN (Unit * s * s) \div (Q96 * Q96)
                     ELSE (Unit * Q96 * Q96) \div (s * s)

PriceToTick(price) ==
  LET below == {t \in MinTick..MaxTick :
                  IF base0 THEN SqrtRatio[t] * SqrtRatio[t] * Unit <= price * Q96 * Q96
                           ELSE SqrtRatio[t] * SqrtRatio[t] * price <= Q96 * Q96 * Unit}
  IN  IF below = {} THEN MinTick ELSE Max(below)

Value(base, quote, price) == base * price + quote * Unit

\* <<token0, token1>> to <<base, quote>> and back.
Oriented(pair) == IF base0 THEN pair ELSE <<pair[2], pair[1]>>

-----------------------------------------------------------------------------
(* The reader *)

WindowNeedsRefresh(reads) ==
  \/ src.window = None
  \/ reads >= WindowRefresh
  \/ LET word == WordPositionForTick(pool.tick, Spacing)
     IN  ~(src.window.minWord < word /\ word < src.window.maxWord)

\* Words that fail leave only the run around the centre; a tick whose data
\* fails stays initialized but unknown.
LoadWindow(fault) ==
  LET center == WordPositionForTick(pool.tick, Spacing)
      span == IF fault = "words" THEN 0 ELSE WindowWords
      loaded == {t \in Initialized(pool.minted) :
                   WordPositionForTick(t, Spacing) \in center - span .. center + span}
      known == IF fault = "ticks" THEN {} ELSE loaded
  IN  [minWord |-> center - span, maxWord |-> center + span, spacing |-> Spacing,
       ticks |-> loaded, infos |-> [t \in known |-> Net(t)]]

\* The window and the count of reads after a read with this fault.
MaybeRefreshWindow(fault) ==
  LET reads == src.reads + 1
  IN  IF ~WindowNeedsRefresh(reads) THEN [window |-> src.window, reads |-> reads]
      ELSE IF fault = "window" THEN [window |-> src.window, reads |-> reads]
      ELSE [window |-> LoadWindow(fault), reads |-> 0]

TickInfo(t) == [tick |-> t, initialized |-> t \in Initialized(pool.minted),
                out |-> IF t \in BoundTicks THEN pool.out[t] ELSE <<0, 0>>]

\* _read_base_fee: a failed read keeps the last fee known.
BaseFee(fault) == src.baseFee \/ fault # "fee"

ReadOnce(fault, refreshed) ==
  LET bounds == ledger.liq > 0 /\ fault # "bounds"
  IN  [price |-> pool.price, tick |-> pool.tick, liq |-> Liquidity,
       g0 |-> pool.g0, g1 |-> pool.g1, block |-> pool.block,
       lower |-> IF bounds THEN TickInfo(ledger.lower) ELSE None,
       upper |-> IF bounds THEN TickInfo(ledger.upper) ELSE None,
       window |-> refreshed.window,
       baseFee |-> BaseFee(fault),
       stale |-> FALSE]

-----------------------------------------------------------------------------
(* The strategy *)

\* validate_width: the range spans at least one spacing.
ASSUME WidthIsValid ==
  (Percent + HalfWidth) * Q96 * Q96
    >= SqrtRatio[Spacing \div 2] * SqrtRatio[Spacing \div 2] * Percent

NearestInitialized(snap, tick, above, below) ==
  LET near == {t \in DOMAIN snap.window.infos :
                 /\ Abs(t - tick) <= SnapTolerance * Spacing
                 /\ above < t
                 /\ t < below}
      Closer(t, u) == \/ Abs(t - tick) < Abs(u - tick)
                      \/ Abs(t - tick) = Abs(u - tick) /\ t <= u
  IN  IF near = {} THEN tick ELSE CHOOSE t \in near : \A u \in near : Closer(t, u)

Snapped(snap, center, lower, upper) ==
  LET Between(newLower, newUpper) ==
        IF newLower < newUpper /\ InRange(snap.tick, newLower, newUpper)
        THEN [lower |-> newLower, upper |-> newUpper, center |-> center]
        ELSE [lower |-> lower, upper |-> upper, center |-> center]
      From(newLower) == Between(newLower, NearestInitialized(snap, upper, newLower, MaxTick + 1))
  IN  From(NearestInitialized(snap, lower, MinTick - 1, upper))

RangeAround(center, snap) ==
  LET Clipped(floor, ceil) ==
        Snapped(snap, center, MaxOf(floor, MinUsable(Spacing)),
                MinOf(IF ceil <= floor THEN floor + Spacing ELSE ceil, MaxUsable(Spacing)))
      OfTicks(a, b) == Clipped(FloorToSpacing(MinOf(a, b), Spacing),
                               CeilToSpacing(MaxOf(a, b), Spacing))
  IN  OfTicks(PriceToTick((center * (Percent - HalfWidth)) \div Percent),
              PriceToTick((center * (Percent + HalfWidth)) \div Percent))

\* Mutant: the CEX mid is always the centre.
TargetAtMid(center, snap) == RangeAround(center, snap)

TargetRange(center, snap) ==
  LET Containing(target) == IF InRange(snap.tick, target.lower, target.upper) THEN target
                            ELSE RangeAround(Price(snap.price), snap)
  IN  Containing(RangeAround(center, snap))

RebalanceReason(l, snap) ==
  CASE kill \/ snap.stale -> "none"
    [] ~kill /\ l.liq <= 0 -> "open"
    [] ~kill /\ l.liq > 0 /\ snap.block - l.lastAt < Cooldown -> "none"
    [] OTHER ->
         IF ~InRange(snap.tick, l.lower, l.upper) THEN "out_of_range"
         ELSE IF /\ l.center > 0
                 /\ Abs(Price(snap.price) - l.center) * Percent > DriftLimit * l.center
         THEN "drift"
         ELSE "none"

-----------------------------------------------------------------------------
(* The book *)

FreshLedger ==
  [ready |-> FALSE, idleB |-> 0, idleQ |-> 0, liq |-> 0, lower |-> 0, upper |-> 0,
   center |-> 0, openB |-> 0, openQ |-> 0, feesB |-> 0, feesQ |-> 0, fees |-> 0,
   il |-> 0, hodl |-> 0, swap |-> 0, gas |-> 0, epoch |-> 0, lastAt |-> 0,
   acc |-> "none", note |-> "none", last |-> None]

Principal(l, mark) ==
  Oriented(GetAmountsForLiquidity(mark.price, SqrtRatio[l.lower], SqrtRatio[l.upper],
                                  l.liq, FALSE))

BoundInfos(l, snap) ==
  /\ snap.lower # None
  /\ snap.upper # None
  /\ snap.lower.tick = l.lower
  /\ snap.upper.tick = l.upper
  /\ snap.lower.initialized
  /\ snap.upper.initialized

\* The growth inside the range that a snapshot shows, of both tokens.
Inside(l, snap) ==
  <<FeeGrowthInside(snap.tick, l.lower, l.upper, snap.lower.out[1], snap.upper.out[1], snap.g0),
    FeeGrowthInside(snap.tick, l.lower, l.upper, snap.lower.out[2], snap.upper.out[2], snap.g1)>>

\* A fee shared with the liquidity of the pool at the ends that are in range.
Diluted(l, prev, cur, fee) ==
  LET wasIn == InRange(prev.tick, l.lower, l.upper)
      nowIn == InRange(cur.tick, l.lower, l.upper)
      poolLiq == CASE wasIn = nowIn -> (prev.liq + cur.liq) \div 2
                   [] wasIn /\ ~nowIn -> prev.liq
                   [] ~wasIn /\ nowIn -> cur.liq
  IN  IF poolLiq + l.liq > 0 THEN (fee * poolLiq) \div (poolLiq + l.liq) ELSE fee

FeesOf(l, prev, cur, growth) ==
  Oriented(<<Diluted(l, prev, cur, FeesOwed(l.liq, growth[1])),
             Diluted(l, prev, cur, FeesOwed(l.liq, growth[2]))>>)

\* Out of exact data: the growth of the whole pool, for the ends in range.
ApproximateFees(l, prev, cur, growth) ==
  LET halves == Cardinality({s \in {<<1, prev.tick>>, <<2, cur.tick>>} :
                               InRange(s[2], l.lower, l.upper)})
  IN  Oriented(<<Diluted(l, prev, cur, (FeesOwed(l.liq, growth[1]) * halves) \div 2),
                 Diluted(l, prev, cur, (FeesOwed(l.liq, growth[2]) * halves) \div 2)>>)

Credited(l, fee, price, accuracy) ==
  [l EXCEPT !.acc = accuracy, !.feesB = @ + fee[1], !.feesQ = @ + fee[2],
            !.fees = @ + Value(fee[1], fee[2], price)]

AccrueFees(l, prev, cur, global, inside) ==
  IF inside # None /\ inside[1] <= global[1] /\ inside[2] <= global[2]
  THEN Credited(l, FeesOf(l, prev, cur, inside), Price(cur.price), "exact")
  ELSE Credited(l, ApproximateFees(l, prev, cur, global), Price(cur.price), "approximate")

GrowthInside(l, prev, cur) ==
  LET Diff(a, b) == <<WrapSub(b[1], a[1]), WrapSub(b[2], a[2])>>
  IN  IF BoundInfos(l, prev) /\ BoundInfos(l, cur) THEN Diff(Inside(l, prev), Inside(l, cur))
      ELSE None

Accrue(l, prev, cur) ==
  LET Fees(revalued) ==
        IF l.liq <= 0 THEN [revalued EXCEPT !.acc = "none"]
        ELSE AccrueFees(revalued, prev, cur, <<WrapSub(cur.g0, prev.g0), WrapSub(cur.g1, prev.g1)>>,
                        GrowthInside(l, prev, cur))
  IN  Fees([l EXCEPT !.hodl = @ + (l.openB + l.idleB + l.feesB)
                                  * (Price(cur.price) - Price(prev.price))])

\* 1. Burn and collect, on locals: <<base, quote>> in hand, and what the
\* position lost against holding.
\* Mutant: the fees are not collected.
BurntOnly(l, principal) == <<l.idleB + principal[1], l.idleQ + principal[2]>>

Collected(l, principal) ==
  <<l.idleB + principal[1] + l.feesB, l.idleQ + principal[2] + l.feesQ>>

RealizedIl(l, principal, price) ==
  IF l.liq <= 0 THEN 0
  ELSE Value(principal[1], principal[2], price) - Value(l.openB, l.openQ, price)

\* 2. The swap toward the ratio of the new range: what is sold, and whether
\* it is base; nothing when the excess is too small to matter.
SwapOf(hand, price, excess) ==
  [possible |-> TRUE, sellsBase |-> excess > 0,
   amount |-> IF excess > 0 THEN MinOf(excess \div price, hand[1])
                            ELSE MinOf((-excess) \div Unit, hand[2])]

SwapWanted(hand, snap, target, price) ==
  LET Wanted(before, unit, total) ==
        IF total <= 0 \/ before <= 0
        THEN [possible |-> FALSE, sellsBase |-> FALSE, amount |-> 0]
        ELSE SwapOf(hand, price, hand[1] * price - (before * unit[1] * price) \div total)
      ForUnit(unit) == Wanted(Value(hand[1], hand[2], price), unit,
                              Value(unit[1], unit[2], price))
  IN  ForUnit(Oriented(GetAmountsForLiquidity(snap.price, SqrtRatio[target.lower],
                                              SqrtRatio[target.upper], UnitLiquidity, TRUE)))

\* 3. The liquidity that can be minted with what is in hand: up to four
\* attempts, each one unit below the last.
Minted(hand, snap, target) ==
  LET Fits(liquidity, a, b, avail) ==
        LET need == GetAmountsForLiquidity(snap.price, a, b, liquidity, TRUE)
        IN  need[1] <= avail[1] /\ need[2] <= avail[2]
      Most(fitting) == IF fitting = {} THEN [ok |-> FALSE, liq |-> 0]
                       ELSE [ok |-> TRUE, liq |-> Max(fitting)]
      Within(a, b, avail, most) == Most({m \in most - 3 .. most : Fits(m, a, b, avail)})
      Between(a, b, avail) ==
        Within(a, b, avail, GetLiquidityForAmounts(snap.price, a, b, avail[1], avail[2]))
  IN  Between(SqrtRatio[target.lower], SqrtRatio[target.upper], Oriented(hand))

\* Gas at the block's base fee, or at the fallback price, in quote.
GasCost(snap) == (IF snap.baseFee THEN GasLive ELSE GasFallback) * Price(snap.price)

\* 4. Commit the new range.
Opened(l, snap, target, hand, swapCost, il, liquidity) ==
  LET Amounts(up) == Oriented(GetAmountsForLiquidity(snap.price, SqrtRatio[target.lower],
                                SqrtRatio[target.upper], liquidity, up))
      With(need, open) ==
        [l EXCEPT
          !.il = @ + il,
          !.idleB = hand[1] - need[1],
          !.idleQ = hand[2] - need[2],
          !.feesB = 0,
          !.feesQ = 0,
          !.liq = liquidity,
          !.lower = target.lower,
          !.upper = target.upper,
          !.center = target.center,
          !.openB = open[1],
          !.openQ = open[2],
          !.swap = @ + swapCost,
          !.gas = @ + GasCost(snap),
          !.epoch = @ + 1,
          !.lastAt = snap.block]
  IN  With(Amounts(TRUE), Amounts(FALSE))

Done(l) == [ledger |-> l, raised |-> FALSE]
Noted(l, note) == Done([l EXCEPT !.note = note])

\* With `after' in hand, at `cost': mint and commit.
MintAndOpen(l, snap, target, after, cost, il, mint) ==
  CASE ~mint.ok -> Noted(l, "mint rounding")
    [] mint.ok /\ mint.liq <= 0 -> Noted(l, "below minimum")
    [] OTHER -> Done(Opened(l, snap, target, after, cost, il, mint.liq))

\* What is in hand after the swap, if it is made.
SwapQuote(snap, wanted) ==
  IF wanted.amount = 0 THEN [reason |-> "none", out |-> 0]
  ELSE SimulateExactInput(
         [price |-> snap.price, tick |-> snap.tick, liquidity |-> snap.liq, fee |-> FeePips],
         snap.window, wanted.sellsBase = base0, wanted.amount)

Swapped(hand, wanted, out) ==
  IF wanted.sellsBase THEN <<hand[1] - wanted.amount, hand[2] + out>>
                      ELSE <<hand[1] + out, hand[2] - wanted.amount>>

\* The ledger after the attempt, with the note of an early return; `raised'
\* when the swap simulation raises.
Rebalance(l, snap, center) ==
  LET price == Price(snap.price)
      Mint(target, hand, after, il) ==
        MintAndOpen(l, snap, target, after,
                    Value(hand[1], hand[2], price) - Value(after[1], after[2], price), il,
                    Minted(after, snap, target))
      Quoted(target, hand, wanted, quote, il) ==
        CASE quote.reason = "raised" -> [ledger |-> l, raised |-> TRUE]
          [] quote.reason \in {"window_exhausted", "price_limit"} -> Noted(l, "swap hit limit")
          [] OTHER -> Mint(target, hand, Swapped(hand, wanted, quote.out), il)
      Want(target, hand, wanted, il) ==
        IF ~wanted.possible THEN Noted(l, "below minimum")
        ELSE Quoted(target, hand, wanted, SwapQuote(snap, wanted), il)
      Hold(target, hand, il) == Want(target, hand, SwapWanted(hand, snap, target, price), il)
      Burn(target, principal) ==
        Hold(target, Collected(l, principal), RealizedIl(l, principal, price))
  IN  IF snap.window = None THEN Noted(l, "waiting for window")
      ELSE Burn(TargetRange(center, snap), Principal(l, snap))

\* LpPaperBook.step: the ledger after one observation.
Step(snap, center) ==
  LET Tried(l) == IF RebalanceReason(l, snap) = "none" THEN Done(l)
                  ELSE Rebalance(l, snap, IF center = 0 THEN Price(snap.price) ELSE center)
      seen == [f \in DOMAIN snap \ {"window", "baseFee", "stale"} |-> snap[f]]
      Seen(tried) == IF tried.raised THEN tried ELSE [tried EXCEPT !.ledger.last = seen]
      Observe(clean) ==
        IF snap.stale THEN Noted(clean, "stale")
        ELSE Seen(Tried(IF clean.last = None THEN clean ELSE Accrue(clean, clean.last, snap)))
  IN  Observe([ledger EXCEPT !.ready = TRUE, !.note = "none",
                             !.idleQ = IF ledger.ready THEN @ ELSE Capital])

\* LpPaperBook._state: the position's value, counted from the balances, and
\* the value the parts of the ledger explain.
StateOf(l, mark) ==
  LET Valued(price, principal, open) ==
        [value |-> principal + Value(l.idleB, l.idleQ, price) + Value(l.feesB, l.feesQ, price)
                   - l.gas,
         expected |-> Capital * Unit + l.fees + l.hodl - l.swap - l.gas
                      + l.il + (IF l.liq > 0 THEN principal - open ELSE 0)]
      Of(price, pair) == Valued(price, Value(pair[1], pair[2], price),
                                Value(l.openB, l.openQ, price))
  IN  Of(Price(mark.price), Principal(l, mark))

-----------------------------------------------------------------------------
(* The tick *)

\* A reader that has read nothing: no window, no last good snapshot, no base fee.
NewReader == [window |-> None, reads |-> 0, good |-> None, baseFee |-> FALSE]

Init ==
  /\ base0 \in BOOLEAN
  /\ pool \in [price : {Q96}, tick : {GetTickAtSqrtRatio(Q96)}, g0 : {StartGrowth},
                g1 : {StartGrowth}, minted : {Others \union {BaseRange}}, block : {0},
                out : {[t \in BoundTicks |-> <<0, 0>>]}]
  /\ src = NewReader
  /\ ledger = FreshLedger
  /\ kill = FALSE
  /\ ghost = [g0 |-> 0, g1 |-> 0, cleared |-> FALSE, raised |-> FALSE]
  /\ budget = [ticks |-> MaxTicks, faults |-> MaxFaults]

\* The book takes the snapshot.  The tick's transaction may fail, and then the
\* book is restored; a step that raises is not restored, its checkpoint is lost
\* with the exception.
Settle(result, stale, persisted) ==
  /\ ledger' = IF result.raised \/ persisted THEN result.ledger ELSE ledger
  /\ ghost' = IF result.raised THEN [ghost EXCEPT !.raised = TRUE]
              ELSE IF persisted /\ ~stale
              THEN [ghost EXCEPT !.g0 = 0, !.g1 = 0, !.cleared = FALSE]
              ELSE ghost

TakeStep(snap, center, persisted) == Settle(Step(snap, center), snap.stale, persisted)

Spend(fault, persisted) ==
  LET cost == (IF fault = "none" THEN 0 ELSE 1) + (IF persisted THEN 0 ELSE 1)
  IN  /\ budget.ticks > 0
      /\ cost <= budget.faults
      /\ budget' = [ticks |-> budget.ticks - 1, faults |-> budget.faults - cost]

Tick(center, fault, persisted) ==
  LET Take(refreshed, snap) ==
        /\ src' = [window |-> refreshed.window, reads |-> refreshed.reads, good |-> snap,
                   baseFee |-> snap.baseFee]
        /\ TakeStep(snap, center, persisted)
      Read(refreshed) == Take(refreshed, ReadOnce(fault, refreshed))
  IN  /\ Spend(fault, persisted)
      /\ Read(MaybeRefreshWindow(fault))
      /\ UNCHANGED <<base0, pool, kill>>

\* Every attempt to read fails: the last good snapshot, flagged stale.
TickStale(center, persisted) ==
  /\ "read" \in Faults
  /\ src.good # None
  /\ Spend("read", persisted)
  /\ TakeStep([src.good EXCEPT !.stale = TRUE], center, persisted)
  /\ UNCHANGED <<base0, pool, src, kill>>

\* No snapshot yet, and every attempt fails: the book is not stepped.
TickUnavailable ==
  /\ "read" \in Faults
  /\ src.good = None
  /\ Spend("read", TRUE)
  /\ UNCHANGED <<base0, pool, src, ledger, kill, ghost>>

ToggleKill ==
  /\ "kill" \in Faults
  /\ Spend("kill", TRUE)
  /\ kill' = ~kill
  /\ UNCHANGED <<base0, pool, src, ledger, ghost>>

Next ==
  \/ \E to \in Points, fee \in Growth : PoolSwap(to, fee)
  \/ \E range \in Others : PoolMint(range) \/ PoolBurn(range)
  \/ \E center \in Centers, fault \in {"none"} \union (Faults \ {"read", "kill", "persist"}),
        persisted \in {TRUE, "persist" \notin Faults} : Tick(center, fault, persisted)
  \/ \E persisted \in {TRUE, "persist" \notin Faults} : TickStale(0, persisted)
  \/ TickUnavailable
  \/ ToggleKill

Spec == Init /\ [][Next]_vars

-----------------------------------------------------------------------------
(* Properties *)

\* What the ledger's own check reports (reconciliation_error_quote).
Error(l) == LET Gap(state) == state.value - state.expected
            IN  IF l.last = None THEN 0 ELSE Gap(StateOf(l, l.last))

\* The parts of the PnL explain the value of the position (specs/002 SC-003,
\* the docstring of lp_paper_book.py): whatever the price does, whatever is
\* accrued, rolled back or skipped, the reported error moves only when a range
\* is opened, and then by the dust of one mint: at most one raw unit of each
\* token, always to the book's cost.  A step that raised is excluded: its
\* interval is accrued twice (README, section 3).
Reconciles ==
  [][ghost'.raised \/
     IF ledger'.epoch = ledger.epoch THEN Error(ledger)' = Error(ledger)
     ELSE /\ Error(ledger)' <= Error(ledger)
          /\ Error(ledger)' >= Error(ledger) - Unit - Price(ledger'.last.price)]_vars

\* Fees reported as "exact" are exact: over any interval, with the price in and
\* out of the range, counters that wrap, reads that failed and ticks that were
\* rolled back in between, the fees booked are those of the growth that really
\* happened while the price was in the range (_accrue, fee_growth_inside).  The
\* exception is a bound tick that was cleared in the interval.
ExactIsTrue ==
  [][(ledger'.last # ledger.last /\ ledger'.acc = "exact"
        /\ ~ghost.cleared /\ ~ghost'.raised) =>
       LET fee == FeesOf(ledger, ledger.last, ledger'.last, <<ghost.g0, ghost.g1>>)
       IN  ledger'.fees - ledger.fees = Value(fee[1], fee[2], Price(ledger'.last.price))]_vars

\* A range is opened where it earns: it contains the pool's tick, even when the
\* price rests exactly on a tick boundary or the range was moved to initialized
\* ticks (target_range: "a range that does not contain the current pool price
\* earns nothing and would be rebalanced immediately").
OpensInRange ==
  [][ledger'.epoch # ledger.epoch =>
       InRange(pool.tick, ledger'.lower, ledger'.upper)]_vars

\* Mint never takes more than is in hand, and the four attempts always suffice
\* (_rebalance: "rounding never needs more than one adjustment").
NeverOverdrawn ==
  /\ ledger.idleB >= 0
  /\ ledger.idleQ >= 0
  /\ ledger.note # "mint rounding"
=============================================================================
