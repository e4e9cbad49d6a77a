------------------------------ MODULE PoolMath ------------------------------
(***************************************************************************)
(* The integer mathematics of Uniswap V2 and V3 as the repository          *)
(* re-implements it (app/market_data/uniswap_v2_math.py and                *)
(* app/market_data/uniswap_v3/), at a small width.  Every width of the code *)
(* is a power of 2^32; here 2^32 is the constant Q32, so that 2^96, 2^128, *)
(* 2^160 and 2^256 keep their proportions.  A raise is an `error' result.  *)
(***************************************************************************)
EXTENDS Integers, Sequences, SequencesExt

CONSTANTS
  Q32,             \* 2^32
  MaxTick,         \* the largest tick; the smallest is its negative
  TickMultiplier,  \* bit of a tick |-> 2^128 / sqrt(base ^ bit)
  WordBits,        \* bits of a word of the tick bitmap
  FeeDen,          \* FEE_PIPS_DENOMINATOR
  V2FeeNum,        \* V2_FEE_NUMERATOR
  V2FeeDen,        \* V2_FEE_DENOMINATOR
  MaxIterations    \* bound on the iterations of the swap loop

ASSUME MathConstants ==
  /\ {Q32, WordBits} \subseteq Nat \ {0}
  /\ {MaxTick, MaxIterations, FeeDen} \subseteq Nat

Q96 == Q32 * Q32 * Q32
Q128 == Q96 * Q32
U256 == Q128 * Q128
MaxUint160 == Q128 * Q32 - 1
MinTick == -MaxTick

MinOf(a, b) == IF a <= b THEN a ELSE b
MaxOf(a, b) == IF a >= b THEN a ELSE b
Abs(a) == IF a < 0 THEN -a ELSE a

-----------------------------------------------------------------------------
(* full_math.py *)

MulDiv(a, b, denominator) == (a * b) \div denominator

MulDivRoundingUp(a, b, denominator) ==
  LET product == a * b
  IN  product \div denominator + (IF product % denominator = 0 THEN 0 ELSE 1)

DivRoundingUp(x, y) == -((-x) \div y)

-----------------------------------------------------------------------------
(* tick_math.py *)

\* The product of the multipliers of the bits of |tick|, in 2^-128.
RatioDown(tick) ==
  LET Multiply(ratio, bit) == IF (Abs(tick) \div bit) % 2 = 1
                              THEN MulDiv(ratio, TickMultiplier[bit], Q128)
                              ELSE ratio
  IN  FoldLeft(Multiply, Q128, SetToSortSeq(DOMAIN TickMultiplier, LAMBDA a, b : a < b))

GetSqrtRatioAtTick(tick) ==
  DivRoundingUp(IF tick > 0 THEN (U256 - 1) \div RatioDown(tick) ELSE RatioDown(tick), Q32)

SqrtRatio == [t \in MinTick..MaxTick |-> GetSqrtRatioAtTick(t)]
MinSqrtRatio == SqrtRatio[MinTick]
MaxSqrtRatio == SqrtRatio[MaxTick]

\* The binary search needs the ratios to grow with the tick.
ASSUME RatiosGrow ==
  \A t \in MinTick..(MaxTick - 1) : SqrtRatio[t] < SqrtRatio[t + 1]

\* Every tick has a price.
ASSUME RatiosArePrices ==
  \A t \in MinTick..MaxTick : SqrtRatio[t] \in Nat \ {0}

GetTickAtSqrtRatio(sqrtPrice) ==
  CHOOSE t \in MinTick..MaxTick :
    /\ SqrtRatio[t] <= sqrtPrice
    /\ t = MaxTick \/ sqrtPrice < SqrtRatio[t + 1]

-----------------------------------------------------------------------------
(* sqrt_price_math.py *)

Amount0Between(low, high, liquidity, roundUp) ==
  IF roundUp THEN DivRoundingUp(MulDivRoundingUp(liquidity * Q96, high - low, high), low)
             ELSE MulDiv(liquidity * Q96, high - low, high) \div low

GetAmount0Delta(a, b, liquidity, roundUp) ==
  Amount0Between(MinOf(a, b), MaxOf(a, b), liquidity, roundUp)

GetAmount1Delta(a, b, liquidity, roundUp) ==
  IF roundUp THEN MulDivRoundingUp(liquidity, Abs(b - a), Q96)
             ELSE MulDiv(liquidity, Abs(b - a), Q96)

Priced(price) == [price |-> price, error |-> FALSE]
Unpriced(price) == [price |-> price, error |-> TRUE]

\* The two formulas for `add' round differently: the second is for a product
\* that does not fit in a uint256.
Price0(sqrtPrice, numerator1, amount, product, add) ==
  CASE amount = 0 -> Priced(sqrtPrice)
    [] amount # 0 /\ add ->
         Priced(IF product >= U256 \/ numerator1 + product >= U256
                THEN DivRoundingUp(numerator1, numerator1 \div sqrtPrice + amount)
                ELSE MulDivRoundingUp(numerator1, sqrtPrice, numerator1 + product))
    [] amount # 0 /\ ~add ->
         IF product >= U256 \/ numerator1 <= product THEN Unpriced(sqrtPrice)
         ELSE Priced(MulDivRoundingUp(numerator1, sqrtPrice, numerator1 - product))

NextPriceFromAmount0(sqrtPrice, liquidity, amount, add) ==
  Price0(sqrtPrice, liquidity * Q96, amount, amount * sqrtPrice, add)

Price1(sqrtPrice, next, add) ==
  IF (add /\ next > MaxUint160) \/ (~add /\ next <= 0) THEN Unpriced(sqrtPrice) ELSE Priced(next)

NextPriceFromAmount1(sqrtPrice, liquidity, amount, add) ==
  Price1(sqrtPrice, IF add THEN sqrtPrice + (amount * Q96) \div liquidity
                           ELSE sqrtPrice - DivRoundingUp(amount * Q96, liquidity), add)

GetNextSqrtPriceFromInput(sqrtPrice, liquidity, amountIn, zeroForOne) ==
  IF sqrtPrice <= 0 \/ liquidity <= 0
  THEN Unpriced(sqrtPrice)
  ELSE IF zeroForOne THEN NextPriceFromAmount0(sqrtPrice, liquidity, amountIn, TRUE)
                     ELSE NextPriceFromAmount1(sqrtPrice, liquidity, amountIn, TRUE)

GetNextSqrtPriceFromOutput(sqrtPrice, liquidity, amountOut, zeroForOne) ==
  IF sqrtPrice <= 0 \/ liquidity <= 0
  THEN Unpriced(sqrtPrice)
  ELSE IF zeroForOne THEN NextPriceFromAmount1(sqrtPrice, liquidity, amountOut, FALSE)
                     ELSE NextPriceFromAmount0(sqrtPrice, liquidity, amountOut, FALSE)

-----------------------------------------------------------------------------
(* swap_math.py: one step toward a target price.  A negative amount is an   *)
(* exact output.                                                           *)

AmountIn(zeroForOne, from, to, liquidity) ==
  IF zeroForOne THEN GetAmount0Delta(to, from, liquidity, TRUE)
                ELSE GetAmount1Delta(from, to, liquidity, TRUE)

AmountOut(zeroForOne, from, to, liquidity) ==
  IF zeroForOne THEN GetAmount1Delta(to, from, liquidity, FALSE)
                ELSE GetAmount0Delta(from, to, liquidity, FALSE)

\* The price a step ends at: the target when the amount gets there.
StepPrice(zeroForOne, current, target, liquidity, remaining, lessFee) ==
  IF remaining >= 0
  THEN IF lessFee >= AmountIn(zeroForOne, current, target, liquidity) THEN Priced(target)
       ELSE GetNextSqrtPriceFromInput(current, liquidity, lessFee, zeroForOne)
  ELSE IF -remaining >= AmountOut(zeroForOne, current, target, liquidity) THEN Priced(target)
       ELSE GetNextSqrtPriceFromOutput(current, liquidity, -remaining, zeroForOne)

\* The step that ends at `next' after these amounts.
StepTo(next, target, remaining, feePips, amountIn, amountOut) ==
  [price |-> next.price,
   in    |-> amountIn,
   out   |-> IF remaining >= 0 THEN amountOut ELSE MinOf(amountOut, -remaining),
   fee   |-> IF remaining >= 0 /\ next.price # target
             THEN remaining - amountIn
             ELSE MulDivRoundingUp(amountIn, feePips, FeeDen - feePips),
   error |-> next.error]

ComputeSwapStep(current, target, liquidity, remaining, feePips) ==
  LET zeroForOne == current >= target
      To(next) == StepTo(next, target, remaining, feePips,
                         AmountIn(zeroForOne, current, next.price, liquidity),
                         AmountOut(zeroForOne, current, next.price, liquidity))
  IN  To(StepPrice(zeroForOne, current, target, liquidity, remaining,
                   MulDiv(remaining, FeeDen - feePips, FeeDen)))

-----------------------------------------------------------------------------
(* tick_bitmap.py, over a window of loaded words: `ticks' are the           *)
(* initialized ticks of words minWord..maxWord, `infos' those whose data    *)
(* was loaded, with their net liquidity.                                    *)

Compress(tick, spacing) == tick \div spacing
WordOf(compressed) == compressed \div WordBits
WordPositionForTick(tick, spacing) == WordOf(Compress(tick, spacing))

\* The next initialized tick of the word of `from', or the end of the word.
NextInWord(window, from, word, lte) ==
  LET found == {c \in word * WordBits .. (word + 1) * WordBits - 1 :
                  /\ c * window.spacing \in window.ticks
                  /\ IF lte THEN c <= from ELSE c >= from}
  IN  [outside |-> word < window.minWord \/ word > window.maxWord,
       initialized |-> found # {},
       tick |-> window.spacing *
         (IF found = {} THEN IF lte THEN word * WordBits ELSE (word + 1) * WordBits - 1
          ELSE CHOOSE c \in found : \A d \in found : IF lte THEN d <= c ELSE c <= d)]

NextInitializedTickWithinOneWord(window, tick, lte) ==
  LET In(from) == NextInWord(window, from, WordOf(from), lte)
  IN  In(IF lte THEN Compress(tick, window.spacing) ELSE Compress(tick, window.spacing) + 1)

-----------------------------------------------------------------------------
(* swap_simulator.py: the swap loop, as a function of the number of         *)
(* iterations; an iteration of a loop that has ended changes nothing.       *)

SwapLimit(zeroForOne) == IF zeroForOne THEN MinSqrtRatio + 1 ELSE MaxSqrtRatio - 1

\* What is left to do after a step toward an initialized or a word's last tick.
Stepped(st, step, tickNext, ratioNext, zeroForOne, exactIn) ==
  [st EXCEPT
    !.price = step.price,
    !.remaining = IF exactIn THEN @ - (step.in + step.fee) ELSE @ + step.out,
    !.in = @ + step.in + step.fee,
    !.out = @ + step.out,
    !.fee = @ + step.fee,
    !.tick = IF step.price = ratioNext THEN IF zeroForOne THEN tickNext - 1 ELSE tickNext
             ELSE IF step.price # st.price THEN GetTickAtSqrtRatio(step.price)
             ELSE @]

\* Crossing an initialized tick needs its data.
Crossed(moved, net) ==
  IF moved.liquidity + net < 0 THEN [moved EXCEPT !.reason = "raised"]
  ELSE [moved EXCEPT !.liquidity = @ + net, !.crossed = @ + 1]

CrossTick(moved, window, tickNext, zeroForOne) ==
  IF tickNext \notin DOMAIN window.infos THEN [moved EXCEPT !.reason = "window_exhausted"]
  ELSE Crossed(moved, IF zeroForOne THEN -window.infos[tickNext] ELSE window.infos[tickNext])

SwapToward(st, next, tickNext, ratioNext, window, zeroForOne, limit, feePips, exactIn) ==
  LET Cross(moved) == IF moved.price = ratioNext /\ next.initialized
                      THEN CrossTick(moved, window, tickNext, zeroForOne)
                      ELSE moved
      Take(step) == IF step.error THEN [st EXCEPT !.reason = "raised"]
                    ELSE Cross(Stepped(st, step, tickNext, ratioNext, zeroForOne, exactIn))
  IN  Take(ComputeSwapStep(st.price,
                           IF zeroForOne THEN MaxOf(ratioNext, limit) ELSE MinOf(ratioNext, limit),
                           st.liquidity, st.remaining, feePips))

SwapFrom(st, next, window, zeroForOne, limit, feePips, exactIn) ==
  LET tickNext == MaxOf(MinTick, MinOf(MaxTick, next.tick))
  IN  IF next.outside THEN [st EXCEPT !.reason = "window_exhausted"]
      ELSE SwapToward(st, next, tickNext, SqrtRatio[tickNext], window, zeroForOne, limit,
                      feePips, exactIn)

SwapIteration(st, window, zeroForOne, limit, feePips, exactIn) ==
  IF st.remaining = 0 \/ st.price = limit \/ st.reason # "none" THEN st
  ELSE SwapFrom(st, NextInitializedTickWithinOneWord(window, st.tick, zeroForOne),
                window, zeroForOne, limit, feePips, exactIn)

SwapLoop(start, window, zeroForOne, limit, feePips, exactIn) ==
  LET loop[n \in 0..MaxIterations] ==
        IF n = 0 THEN start
        ELSE SwapIteration(loop[n - 1], window, zeroForOne, limit, feePips, exactIn)
  IN  loop[MaxIterations]

Simulate(state, window, zeroForOne, amountSpecified, limit) ==
  LET start == [price |-> state.price, tick |-> state.tick, liquidity |-> state.liquidity,
                remaining |-> amountSpecified, in |-> 0, out |-> 0, fee |-> 0,
                crossed |-> 0, reason |-> "none"]
      badLimit == IF zeroForOne THEN ~(MinSqrtRatio < limit /\ limit < state.price)
                                ELSE ~(state.price < limit /\ limit < MaxSqrtRatio)
      Ended(end) == IF end.reason = "none" /\ end.remaining # 0
                    THEN [end EXCEPT !.reason = "price_limit"]
                    ELSE end
  IN  IF badLimit THEN [start EXCEPT !.reason = "raised"]
      ELSE Ended(SwapLoop(start, window, zeroForOne, limit, state.fee, amountSpecified > 0))

SimulateExactInput(state, window, zeroForOne, amountIn) ==
  Simulate(state, window, zeroForOne, amountIn, SwapLimit(zeroForOne))

SimulateExactOutput(state, window, zeroForOne, amountOut) ==
  Simulate(state, window, zeroForOne, -amountOut, SwapLimit(zeroForOne))

-----------------------------------------------------------------------------
(* liquidity_amounts.py *)

GetLiquidityForAmount0(a, b, amount0) ==
  MinOf(MulDiv(amount0, MulDiv(a, b, Q96), Abs(b - a)), Q128 - 1)

GetLiquidityForAmount1(a, b, amount1) ==
  MinOf(MulDiv(amount1, Q96, Abs(b - a)), Q128 - 1)

\* Mutant: the larger of the two liquidities.
LiquidityOfEither(price, a, b, amount0, amount1) ==
  CASE price <= a -> GetLiquidityForAmount0(a, b, amount0)
    [] a < price /\ price < b -> MaxOf(GetLiquidityForAmount0(price, b, amount0),
                                       GetLiquidityForAmount1(a, price, amount1))
    [] OTHER -> GetLiquidityForAmount1(a, b, amount1)

GetLiquidityForAmounts(price, a, b, amount0, amount1) ==
  CASE price <= a -> GetLiquidityForAmount0(a, b, amount0)
    [] a < price /\ price < b -> MinOf(GetLiquidityForAmount0(price, b, amount0),
                                       GetLiquidityForAmount1(a, price, amount1))
    [] OTHER -> GetLiquidityForAmount1(a, b, amount1)

\* <<amount0, amount1>>: rounded up for a mint, down for a burn.
GetAmountsForLiquidity(price, a, b, liquidity, roundUp) ==
  CASE liquidity <= 0 -> <<0, 0>>
    [] liquidity > 0 /\ price <= a -> <<GetAmount0Delta(a, b, liquidity, roundUp), 0>>
    [] liquidity > 0 /\ a < price /\ price < b ->
         <<GetAmount0Delta(price, b, liquidity, roundUp),
           GetAmount1Delta(a, price, liquidity, roundUp)>>
    [] OTHER -> <<0, GetAmount1Delta(a, b, liquidity, roundUp)>>

-----------------------------------------------------------------------------
(* fee_growth.py *)

WrapSub(a, b) == (a - b) % U256

\* Mutant: the upper bound belongs to the range.
GrowthUpToUpper(current, lower, upper, lowerOutside, upperOutside, growth) ==
  LET below == IF current >= lower THEN lowerOutside ELSE WrapSub(growth, lowerOutside)
      above == IF current <= upper THEN upperOutside ELSE WrapSub(growth, upperOutside)
  IN  WrapSub(WrapSub(growth, below), above)

FeeGrowthInside(current, lower, upper, lowerOutside, upperOutside, growth) ==
  LET below == IF current >= lower THEN lowerOutside ELSE WrapSub(growth, lowerOutside)
      above == IF current < upper THEN upperOutside ELSE WrapSub(growth, upperOutside)
  IN  WrapSub(WrapSub(growth, below), above)

FeesOwed(liquidity, growthDelta) == MulDiv(growthDelta, liquidity, Q128)

-----------------------------------------------------------------------------
(* pricing.py: ticks and spacings *)

FloorToSpacing(tick, spacing) == (tick \div spacing) * spacing
CeilToSpacing(tick, spacing) == -((-tick) \div spacing) * spacing
MinUsable(spacing) == CeilToSpacing(MinTick, spacing)
MaxUsable(spacing) == FloorToSpacing(MaxTick, spacing)

-----------------------------------------------------------------------------
(* uniswap_v2_math.py; the two guards are where the code raises instead. *)

HasAmountOut(amountIn, reserveIn, reserveOut) ==
  amountIn > 0 /\ reserveIn > 0 /\ reserveOut > 0

HasAmountIn(amountOut, reserveIn, reserveOut) ==
  amountOut > 0 /\ reserveIn > 0 /\ amountOut < reserveOut

GetAmountOut(amountIn, reserveIn, reserveOut) ==
  LET withFee == amountIn * V2FeeNum
  IN  (withFee * reserveOut) \div (reserveIn * V2FeeDen + withFee)

GetAmountIn(amountOut, reserveIn, reserveOut) ==
  (reserveIn * amountOut * V2FeeDen) \div ((reserveOut - amountOut) * V2FeeNum) + 1
=============================================================================
