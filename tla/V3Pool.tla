------------------------------- MODULE V3Pool -------------------------------
(***************************************************************************)
(* The Uniswap V3 pool as the chain keeps it (external) and the window of   *)
(* its ticks that app/adapters/dex/v3_pool_adapter.py loads.  A state w has *)
(* a price, a tick and the set of ranges minted.                            *)
(***************************************************************************)
EXTENDS PoolMath, FiniteSets, FiniteSetsExt

CONSTANTS Spacing, FeePips   \* of the pool

ASSUME PoolConstants == Spacing \in Nat \ {0} /\ FeePips \in Nat /\ FeePips < FeeDen

Initialized(w) == UNION {{r.lower, r.upper} : r \in w.minted}

LiquidityOf(w) == SumFunctionOnSet([r \in w.minted |-> r.liq],
                    {r \in w.minted : r.lower <= w.tick /\ w.tick < r.upper})

Net(w, t) == SumFunctionOnSet([r \in w.minted |-> IF r.lower = t THEN r.liq ELSE -r.liq],
               {r \in w.minted : t \in {r.lower, r.upper}})

Gross(w, t) == SumFunctionOnSet([r \in w.minted |-> r.liq],
                 {r \in w.minted : t \in {r.lower, r.upper}})

\* The ticks of `span' words on each side of the current one.
LoadWindow(w, span) ==
  LET Ticks(loaded, center) ==
        [minWord |-> center - span, maxWord |-> center + span, spacing |-> Spacing,
         ticks |-> loaded, infos |-> [t \in loaded |-> Net(w, t)],
         gross |-> [t \in loaded |-> Gross(w, t)]]
      Around(center) == Ticks({t \in Initialized(w) :
        WordPositionForTick(t, Spacing) \in center - span .. center + span}, center)
  IN  Around(WordPositionForTick(w.tick, Spacing))

PoolState(w) == [price |-> w.price, tick |-> w.tick, liquidity |-> LiquidityOf(w),
                 fee |-> FeePips]

\* A swap of the pool itself, which knows all of its ticks.  A negative amount
\* is an exact output.
PoolSwapTo(w, zeroForOne, amount, limit) ==
  Simulate(PoolState(w), LoadWindow(w, 2 * MaxTick), zeroForOne, amount, limit)

PoolSwap(w, zeroForOne, amount) == PoolSwapTo(w, zeroForOne, amount, SwapLimit(zeroForOne))
=============================================================================
