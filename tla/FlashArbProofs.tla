--------------------------- MODULE FlashArbProofs ---------------------------
(***************************************************************************)
(* Theorems about the executor contract of FlashArb and the estimates of   *)
(* its service, for every fee, reserve, table of ratios, set of ranges and *)
(* window, every market move, handover, gift and reorganisation: the       *)
(* contract keeps nothing, refuses before a token moves and pays its owner, *)
(* and an exact estimate is what the contract does.                        *)
(***************************************************************************)
EXTENDS FlashArb, PoolMathProofs, SequenceTheorems

-----------------------------------------------------------------------------
\* The amounts of the V2 leg.

LEMMA Fees == V2FeeNum \in Positive /\ V2FeeDen \in Positive /\ V2FeeNum <= V2FeeDen
BY FlashArbConstants DEF Positive

\* What getAmountOut gives is accepted by the pair.
LEMMA OutIsAccepted ==
    ASSUME NEW in \in Positive, NEW rIn \in Positive, NEW rOut \in Positive
    PROVE  LET out == (in * V2FeeNum * rOut) \div (rIn * V2FeeDen + in * V2FeeNum)
           IN  out \in Nat /\ PairAccepts(rIn, rOut, in, out)
<1> USE Fees
<1> DEFINE p == in * V2FeeNum
           d == rIn * V2FeeDen
           out == (p * rOut) \div (d + p)
<1>1. p \in Positive /\ d \in Positive
  BY Product
<1>2. (rIn + in) * V2FeeDen - in * (V2FeeDen - V2FeeNum) = d + p
  BY DEF Positive
<1>3. rIn * rOut * V2FeeDen = d * rOut
  BY DEF Positive
<1> HIDE DEF p, d
<1>4. p * rOut \in Positive /\ d + p \in Positive
  BY <1>1, Product DEF Positive
<1>5. out \in Nat /\ (d + p) * out <= p * rOut
  BY <1>4, DivBound, DivNat DEF Positive
<1> HIDE DEF out
<1>6. (d + p) * (rOut - out) = (d + p) * rOut - (d + p) * out
  BY <1>1, <1>5 DEF Positive
<1>7. (d + p) * rOut = d * rOut + p * rOut
  BY <1>1 DEF Positive
<1>8. (d + p) * (rOut - out) >= d * rOut
  <2>1. d * rOut \in Int /\ p * rOut \in Int /\ (d + p) * rOut \in Int /\ (d + p) * out \in Int
    BY <1>1, <1>5 DEF Positive
  <2> QED
    BY <1>5, <1>6, <1>7, <2>1
<1>9. out < rOut
  <2>1. SUFFICES ASSUME rOut <= out PROVE FALSE
    BY <1>5 DEF Positive
  <2>2. d * rOut \in Positive /\ d + p \in Nat
    BY <1>1, <1>4, Product DEF Positive
  <2>3. (d + p) * (rOut - out) <= 0
    BY <1>5, <2>1, <2>2 DEF Positive
  <2> QED
    BY <1>1, <1>5, <1>8, <2>2, <2>3 DEF Positive
<1>10. in > 0
  BY DEF Positive
<1> QED
  BY <1>2, <1>3, <1>5, <1>8, <1>9, <1>10 DEF PairAccepts, p, d, out

\* What getAmountIn asks for is enough.
LEMMA InIsAccepted ==
    ASSUME NEW out \in Positive, NEW rIn \in Positive, NEW rOut \in Positive, out < rOut
    PROVE  LET in == (rIn * out * V2FeeDen) \div ((rOut - out) * V2FeeNum) + 1
           IN  in \in Positive /\ PairAccepts(rIn, rOut, in, out)
<1> USE Fees
<1> DEFINE left == rOut - out
           a == rIn * out * V2FeeDen
           b == left * V2FeeNum
           in == a \div b + 1
<1>1. left \in Positive
  BY DEF Positive
<1>2. a \in Positive /\ b \in Positive
  <2>1. rIn * out \in Positive
    BY Product
  <2>2. a \in Positive
    BY <2>1, Product
  <2> HIDE DEF left
  <2>3. b \in Positive
    BY <1>1, Product
  <2> QED
    BY <2>2, <2>3
<1>3. a \div b \in Nat /\ a < b * (a \div b) + b
  <2> HIDE DEF a, b
  <2> QED
    BY <1>2, DivBound, DivNat DEF Positive
<1>4. in \in Positive /\ b * in = b * (a \div b) + b
  <2> HIDE DEF a, b
  <2> QED
    BY <1>2, <1>3 DEF Positive
<1>5. a < b * in
  <2> HIDE DEF a, b
  <2> QED
    BY <1>3, <1>4
<1> HIDE DEF in
<1>6. ((rIn + in) * V2FeeDen - in * (V2FeeDen - V2FeeNum)) = rIn * V2FeeDen + in * V2FeeNum
  BY <1>4 DEF Positive
<1>7. (rIn * V2FeeDen + in * V2FeeNum) * left = rIn * V2FeeDen * left + b * in
  <2> HIDE DEF left
  <2> QED
    BY <1>1, <1>4 DEF Positive
<1>8. rIn * V2FeeDen * left = rIn * rOut * V2FeeDen - a
  BY DEF Positive
<1>9. (rIn * V2FeeDen + in * V2FeeNum) * left >= rIn * rOut * V2FeeDen
  <2>1. rIn * rOut * V2FeeDen \in Int /\ b * in \in Int /\ a \in Int
    <3>1. rIn * rOut * V2FeeDen \in Int
      BY DEF Positive
    <3> HIDE DEF a, b
    <3> QED
      BY <1>2, <1>4, <3>1 DEF Positive
  <2> HIDE DEF a, b, left
  <2> QED
    BY <1>5, <1>7, <1>8, <2>1
<1>10. in > 0 /\ out < rOut
  BY <1>4 DEF Positive
<1> QED
  BY <1>4, <1>6, <1>9, <1>10 DEF PairAccepts, in, a, b, left

-----------------------------------------------------------------------------
\* The V3 pool and its window of ticks.

Ranges == Others \union {BaseRange}

\* The pool in a state of the chain.
PoolOK(w) == w.price \in SqrtPrices /\ w.tick \in Int /\ w.minted \in SUBSET Ranges

LEMMA RangeFacts ==
    /\ IsFiniteSet(Ranges)
    /\ \A r \in Ranges : r.lower \in Int /\ r.upper \in Int /\ r.liq \in Nat
<1>1. IsFiniteSet(Ranges)
  BY FlashArbConstants, FS_AddElement DEF Ranges
<1> QED
  BY <1>1, FlashArbConstants DEF Ranges

LEMMA InitializedType == ASSUME NEW w, PoolOK(w) PROVE Initialized(w) \in SUBSET Int
BY RangeFacts DEF PoolOK, Initialized

LEMMA LiquidityType == ASSUME NEW w, PoolOK(w) PROVE LiquidityOf(w) \in Nat
<1> DEFINE v == [r \in w.minted |-> r.liq]
           S == {r \in w.minted : r.lower <= w.tick /\ w.tick < r.upper}
<1>1. S \in SUBSET Ranges /\ S \in SUBSET w.minted
  BY DEF PoolOK
<1>2. IsFiniteSet(S)
  BY <1>1, RangeFacts, FS_Subset
<1>3. \A x \in S : v[x] \in Int /\ v[x] >= 0
  BY <1>1, RangeFacts
<1>4. LiquidityOf(w) = SumFunctionOnSet(v, S)
  BY DEF LiquidityOf
<1> HIDE DEF v, S
<1>5. LiquidityOf(w) \in Int /\ LiquidityOf(w) >= 0
  BY <1>2, <1>3, <1>4, SumType
<1> QED
  BY <1>5

LEMMA NetType == ASSUME NEW w, PoolOK(w), NEW t PROVE Net(w, t) \in Int
<1> DEFINE v == [r \in w.minted |-> IF r.lower = t THEN r.liq ELSE -r.liq]
           S == {r \in w.minted : t \in {r.lower, r.upper}}
<1>1. S \in SUBSET Ranges /\ S \in SUBSET w.minted
  BY DEF PoolOK
<1>2. IsFiniteSet(S)
  BY <1>1, RangeFacts, FS_Subset
<1>3. \A x \in S : v[x] \in Int
  BY <1>1, RangeFacts
<1>4. Net(w, t) = SumFunctionOnSet(v, S)
  BY DEF Net
<1> HIDE DEF v, S
<1> QED
  BY <1>2, <1>3, <1>4, SumType

LEMMA SpacingFacts == Spacing \in Positive /\ FeeOK(FeePips)
BY PoolConstants, MathConstants DEF FeeOK, Positive

LEMMA WordType == ASSUME NEW t \in Int PROVE WordPositionForTick(t, Spacing) \in Int
BY SpacingFacts, MathWidths, FloorBound DEF WordPositionForTick, WordOf, Compress

\* The ticks that a window of `span' words on each side holds.
Loaded(w, span) ==
  {t \in Initialized(w) : WordPositionForTick(t, Spacing)
     \in WordPositionForTick(w.tick, Spacing) - span .. WordPositionForTick(w.tick, Spacing) + span}

LEMMA WindowFields ==
    ASSUME NEW w, NEW span
    PROVE  LET window == LoadWindow(w, span)
               center == WordPositionForTick(w.tick, Spacing)
           IN  /\ window.minWord = center - span /\ window.maxWord = center + span
               /\ window.spacing = Spacing /\ window.ticks = Loaded(w, span)
               /\ DOMAIN window.infos = Loaded(w, span)
               /\ \A t \in Loaded(w, span) : window.infos[t] = Net(w, t)
<1> DEFINE loaded == Loaded(w, span)
           center == WordPositionForTick(w.tick, Spacing)
           infos == [t \in loaded |-> Net(w, t)]
           gross == [t \in loaded |-> Gross(w, t)]
           window == [minWord |-> center - span, maxWord |-> center + span, spacing |-> Spacing,
                      ticks |-> loaded, infos |-> infos, gross |-> gross]
<1>1. LoadWindow(w, span) = window
  BY DEF LoadWindow, Loaded
<1>2. DOMAIN infos = loaded /\ \A t \in loaded : infos[t] = Net(w, t)
  OBVIOUS
<1> HIDE DEF loaded, center, infos, gross
<1> QED
  BY <1>1, <1>2 DEF loaded, center

LEMMA WindowType ==
    ASSUME NEW w, PoolOK(w), NEW span \in Nat
    PROVE  WindowOK(LoadWindow(w, span))
<1> DEFINE window == LoadWindow(w, span)
           center == WordPositionForTick(w.tick, Spacing)
<1>1. center \in Int
  BY WordType DEF PoolOK
<1>2. /\ window.minWord = center - span /\ window.maxWord = center + span
      /\ window.spacing = Spacing /\ window.ticks = Loaded(w, span)
      /\ DOMAIN window.infos = Loaded(w, span)
      /\ \A t \in Loaded(w, span) : window.infos[t] = Net(w, t)
  BY WindowFields
<1>3. Loaded(w, span) \in SUBSET Int
  BY InitializedType DEF Loaded
<1> HIDE DEF window, center
<1>4. WindowOK(window)
  BY <1>1, <1>2, <1>3, NetType, SpacingFacts DEF WindowOK
<1> QED
  BY <1>4 DEF window

LEMMA PoolStateOK == ASSUME NEW w, PoolOK(w) PROVE StateOK(PoolState(w))
BY LiquidityType, SpacingFacts DEF PoolOK, PoolState, StateOK

\* A swap of the pool ends at a price and a tick, with integers in and out.
LEMMA PoolSwapOK ==
    ASSUME NEW w, PoolOK(w), NEW zeroForOne \in BOOLEAN, NEW amount \in Int
    PROVE  PoolSwap(w, zeroForOne, amount) \in SwapState
<1> DEFINE state == PoolState(w)
           window == LoadWindow(w, 2 * MaxTick)
<1>1. 2 * MaxTick \in Nat
  BY MathWidths
<1>2. StateOK(state) /\ WindowOK(window)
  BY <1>1, PoolStateOK, WindowType
<1>3. PoolSwap(w, zeroForOne, amount) = SimulateExactInput(state, window, zeroForOne, amount)
  BY DEF PoolSwap, PoolSwapTo, SimulateExactInput
<1> HIDE DEF state, window
<1> QED
  BY <1>2, <1>3, SwapResult

-----------------------------------------------------------------------------
\* The steps of a trade.

Fields == {"price", "tick", "minted", "r", "held", "given", "wallet", "owner", "pending"}

\* The shape of a state of the chain.
Shape(w) ==
  /\ DOMAIN w = Fields /\ w.r \in [1..2 -> Positive] /\ w.held \in [Tokens -> Nat]
  /\ w.wallet \in [Accounts -> Int] /\ w.owner \in Accounts /\ PoolOK(w)

\* What no leg of a trade touches.
Same(v, w) == v.given = w.given /\ v.wallet = w.wallet /\ v.owner = w.owner

\* The two reserves are two entries, whichever token is token0.
LEMMA ReservesOK ==
    ASSUME NEW w, Shape(w), NEW token \in Tokens
    PROVE  /\ Reserve(w, token) \in Positive /\ Other(token) \in Tokens
           /\ Reserve(w, Other(token)) \in Positive
  BY DEF Shape, Reserve, Other, Tokens

LEMMA SafeTransferOK ==
    ASSUME NEW w, Shape(w), NEW token \in Tokens, NEW amount \in Nat, amount <= w.held[token]
    PROVE  LET s == SafeTransfer(w, token, amount)
           IN  /\ s.error = "none" /\ Shape(s.w) /\ Same(s.w, w) /\ s.w.r = w.r
               /\ s.w.held = [w.held EXCEPT ![token] = w.held[token] - amount]
<1> DEFINE held == [w.held EXCEPT ![token] = w.held[token] - amount]
           v == [w EXCEPT !.held = held]
<1>1. held \in [Tokens -> Nat]
  BY DEF Shape
<1>2. SafeTransfer(w, token, amount) = Ok(v)
  BY DEF SafeTransfer, Shape
<1> HIDE DEF held
<1>3. Shape(v) /\ Same(v, w) /\ v.r = w.r /\ v.held = held
  BY <1>1 DEF Shape, Same, Fields, PoolOK
<1> HIDE DEF v
<1>4. Ok(v).error = "none" /\ Ok(v).w = v
  BY DEF Ok
<1> QED
  BY <1>2, <1>3, <1>4 DEF held

\* The pair takes what it accepts, and both of its reserves stay positive.
LEMMA PairSwapOK ==
    ASSUME NEW w, Shape(w), order \in [v3 : BOOLEAN, v2 : BOOLEAN], NEW token \in Tokens,
           NEW in \in Nat, NEW out \in Positive,
           PairAccepts(Reserve(w, token), Reserve(w, Other(token)), in, out)
    PROVE  LET s == PairSwap(w, token, in, out)
           IN  s.error = "none" /\ Shape(s.w) /\ Same(s.w, w) /\ s.w.held = w.held
<1> DEFINE k == IF order.v2 = (token = "usdc") THEN 1 ELSE 2
           r == [i \in 1..2 |-> IF i = k THEN w.r[i] + in ELSE w.r[i] - out]
           v == [w EXCEPT !.r = r]
<1>1. PairSwap(w, token, in, out) = Ok(v)
  <2>1. out > 0 /\ ~(out <= 0)
    BY DEF Positive
  <2> QED
    BY <2>1 DEF PairSwap
<1>2. Reserve(w, Other(token)) = w.r[IF k = 1 THEN 2 ELSE 1] /\ k \in 1..2
  BY DEF Reserve, Other, Tokens
<1>3. w.r \in [1..2 -> Positive] /\ out < w.r[IF k = 1 THEN 2 ELSE 1]
  BY <1>2 DEF Shape, PairAccepts
<1> HIDE DEF k
<1>4. ASSUME NEW i \in 1..2
      PROVE  r[i] \in Positive
  BY <1>2, <1>3 DEF Positive
<1>5. r \in [1..2 -> Positive]
  BY <1>4
<1> HIDE DEF r
<1>6. Shape(v) /\ Same(v, w) /\ v.held = w.held
  BY <1>5 DEF Shape, Same, Fields, PoolOK
<1> HIDE DEF v
<1>7. Ok(v).error = "none" /\ Ok(v).w = v
  BY DEF Ok
<1> QED
  BY <1>1, <1>6, <1>7

\* The owner gets the profit, which the contract holds.
LEMMA PayOwnerOK ==
    ASSUME NEW w, Shape(w), NEW req, NEW profit \in Nat, profit <= w.held["usdc"]
    PROVE  LET s == PayOwner(w, req, profit)
           IN  /\ s.error = "none" /\ Shape(s.w) /\ s.w.given = w.given /\ s.w.owner = w.owner
               /\ s.w.held = [w.held EXCEPT !["usdc"] = w.held["usdc"] - profit]
               /\ s.w.wallet = [w.wallet EXCEPT ![w.owner] = w.wallet[w.owner] + profit]
<1>0. w.held \in [Tokens -> Nat] /\ w.wallet \in [Accounts -> Int] /\ w.owner \in Accounts
      /\ "usdc" \in Tokens
  BY DEF Shape, Accounts, Tokens
<1>1. CASE profit = 0
  <2>1. PayOwner(w, req, profit) = Ok(w)
    BY <1>1 DEF PayOwner
  <2>2. /\ [w.held EXCEPT !["usdc"] = w.held["usdc"] - profit] = w.held
        /\ [w.wallet EXCEPT ![w.owner] = w.wallet[w.owner] + profit] = w.wallet
    BY <1>0, <1>1
  <2>3. Ok(w).error = "none" /\ Ok(w).w = w
    BY DEF Ok
  <2> QED
    BY <2>1, <2>2, <2>3
<1>2. CASE profit # 0
  <2> DEFINE s == SafeTransfer(w, "usdc", profit)
             u == s.w
             wallet == [u.wallet EXCEPT ![u.owner] = u.wallet[u.owner] + profit]
             v == [u EXCEPT !.wallet = wallet]
  <2>1. /\ s.error = "none" /\ Shape(u) /\ Same(u, w)
        /\ u.held = [w.held EXCEPT !["usdc"] = w.held["usdc"] - profit]
    BY <1>0, SafeTransferOK
  <2>2. PayOwner(w, req, profit) = Ok(v)
    BY <1>2, <2>1 DEF PayOwner, Then
  <2> HIDE DEF s, u
  <2>3. wallet \in [Accounts -> Int]
    BY <1>0, <2>1 DEF Shape, Same
  <2>4. wallet = [w.wallet EXCEPT ![w.owner] = w.wallet[w.owner] + profit]
    BY <2>1 DEF Same
  <2> HIDE DEF wallet
  <2>5. Shape(v) /\ v.given = u.given /\ v.owner = u.owner /\ v.held = u.held /\ v.wallet = wallet
    BY <2>1, <2>3 DEF Shape, Fields, PoolOK
  <2> HIDE DEF v
  <2>6. Ok(v).error = "none" /\ Ok(v).w = v
    BY DEF Ok
  <2> QED
    BY <2>1, <2>2, <2>4, <2>5, <2>6 DEF Same
<1> QED
  BY <1>1, <1>2

\* A leg that succeeds and leaves these amounts with the contract.
Leaves(s, w, weth, usdc) ==
  /\ s.error = "none" /\ Shape(s.w) /\ Same(s.w, w)
  /\ s.w.held["weth"] = weth /\ s.w.held["usdc"] = usdc

\* The second leg of v3_to_v2: WETH out, USDC in, the V3 pool is paid.
LEMMA ForwardLegOK ==
    ASSUME NEW w, Shape(w), order \in [v3 : BOOLEAN, v2 : BOOLEAN],
           NEW in \in Positive, NEW out \in Positive, NEW owed \in Positive,
           in <= w.held["weth"], owed <= w.held["usdc"] + out,
           PairAccepts(Reserve(w, "weth"), Reserve(w, "usdc"), in, out)
    PROVE  Leaves(SecondLeg(w, TRUE, in, out, owed), w,
                  w.held["weth"] - in, w.held["usdc"] + (out - owed))
<1> DEFINE a == SafeTransfer(w, "weth", in)
           b == PairSwap(a.w, "weth", in, out)
           held == [b.w.held EXCEPT !["usdc"] = b.w.held["usdc"] + out]
           u == [b.w EXCEPT !.held = held]
           c == SafeTransfer(u, "usdc", owed)
<1>0. "usdc" \in Tokens /\ "weth" \in Tokens /\ Other("weth") = "usdc" /\ in \in Nat /\ owed \in Nat
      /\ out \in Nat
  BY DEF Tokens, Other, Positive
<1>1. /\ a.error = "none" /\ Shape(a.w) /\ Same(a.w, w) /\ a.w.r = w.r
      /\ a.w.held = [w.held EXCEPT !["weth"] = w.held["weth"] - in]
  BY <1>0, SafeTransferOK
<1>2. Reserve(a.w, "weth") = Reserve(w, "weth") /\ Reserve(a.w, "usdc") = Reserve(w, "usdc")
  BY <1>1 DEF Reserve
<1>3. b.error = "none" /\ Shape(b.w) /\ Same(b.w, a.w) /\ b.w.held = a.w.held
  <2> HIDE DEF a
  <2> QED
    BY <1>0, <1>1, <1>2, PairSwapOK
<1>4. SecondLeg(w, TRUE, in, out, owed) = c
  BY <1>1, <1>3 DEF SecondLeg, Then
<1> HIDE DEF a, b
<1>5. /\ w.held \in [Tokens -> Nat] /\ b.w.held \in [Tokens -> Nat]
      /\ b.w.held["weth"] = w.held["weth"] - in /\ b.w.held["usdc"] = w.held["usdc"]
  BY <1>0, <1>1, <1>3 DEF Shape
<1>6. /\ held \in [Tokens -> Nat] /\ held["usdc"] = w.held["usdc"] + out
      /\ held["weth"] = w.held["weth"] - in
  BY <1>0, <1>5
<1> HIDE DEF held
<1>7. Shape(u) /\ Same(u, b.w) /\ u.held = held
  BY <1>3, <1>6 DEF Shape, Same, Fields, PoolOK
<1> HIDE DEF u
<1>8. owed <= u.held["usdc"]
  BY <1>0, <1>5, <1>6, <1>7
<1>9. /\ c.error = "none" /\ Shape(c.w) /\ Same(c.w, u)
      /\ c.w.held = [u.held EXCEPT !["usdc"] = u.held["usdc"] - owed]
  <2> DEFINE token == "usdc"
  <2>1. token \in Tokens /\ owed \in Nat /\ owed <= u.held[token] /\ Shape(u)
    BY <1>0, <1>7, <1>8
  <2> HIDE DEF token, c
  <2>2. LET s == SafeTransfer(u, token, owed)
        IN  /\ s.error = "none" /\ Shape(s.w) /\ Same(s.w, u)
            /\ s.w.held = [u.held EXCEPT ![token] = u.held[token] - owed]
    BY <2>1, SafeTransferOK
  <2> QED
    BY <2>2 DEF token, c
<1> HIDE DEF c
<1>10. c.w.held["weth"] = w.held["weth"] - in /\ c.w.held["usdc"] = w.held["usdc"] + (out - owed)
  <2>1. u.held \in [Tokens -> Nat] /\ u.held = held
    BY <1>6, <1>7
  <2>2. c.w.held["weth"] = u.held["weth"] /\ c.w.held["usdc"] = u.held["usdc"] - owed
    BY <1>0, <1>9, <2>1
  <2>3. u.held["weth"] = w.held["weth"] - in
    BY <1>6, <2>1
  <2>4. u.held["usdc"] = w.held["usdc"] + out
    BY <1>6, <2>1
  <2>5. c.w.held["weth"] = w.held["weth"] - in
    BY <2>2, <2>3
  <2>6. c.w.held["usdc"] = (w.held["usdc"] + out) - owed
    BY <2>2, <2>4
  <2>7. w.held["usdc"] \in Nat
    BY <1>0, <1>5
  <2> QED
    BY <1>0, <2>5, <2>6, <2>7
<1> QED
  BY <1>1, <1>3, <1>4, <1>7, <1>9, <1>10 DEF Same, Leaves

\* The second leg of v2_to_v3: USDC out; the pair pays the V3 pool.
LEMMA BackwardLegOK ==
    ASSUME NEW w, Shape(w), order \in [v3 : BOOLEAN, v2 : BOOLEAN],
           NEW in \in Positive, NEW out \in Positive, in <= w.held["usdc"],
           PairAccepts(Reserve(w, "usdc"), Reserve(w, "weth"), in, out)
    PROVE  Leaves(SecondLeg(w, FALSE, in, out, out), w, w.held["weth"], w.held["usdc"] - in)
<1> DEFINE a == SafeTransfer(w, "usdc", in)
           b == PairSwap(a.w, "usdc", in, out)
<1>0. "usdc" \in Tokens /\ "weth" \in Tokens /\ Other("usdc") = "weth" /\ in \in Nat
  BY DEF Tokens, Other, Positive
<1>1. /\ a.error = "none" /\ Shape(a.w) /\ Same(a.w, w) /\ a.w.r = w.r
      /\ a.w.held = [w.held EXCEPT !["usdc"] = w.held["usdc"] - in]
  BY <1>0, SafeTransferOK
<1>2. Reserve(a.w, "weth") = Reserve(w, "weth") /\ Reserve(a.w, "usdc") = Reserve(w, "usdc")
  BY <1>1 DEF Reserve
<1>3. b.error = "none" /\ Shape(b.w) /\ Same(b.w, a.w) /\ b.w.held = a.w.held
  <2> HIDE DEF a
  <2> QED
    BY <1>0, <1>1, <1>2, PairSwapOK
<1>4. SecondLeg(w, FALSE, in, out, out) = Ok(b.w)
  BY <1>1, <1>3 DEF SecondLeg, Then
<1>5. Ok(b.w).error = "none" /\ Ok(b.w).w = b.w
  BY DEF Ok
<1> HIDE DEF a, b
<1>6. b.w.held["weth"] = w.held["weth"] /\ b.w.held["usdc"] = w.held["usdc"] - in
  BY <1>0, <1>1, <1>3 DEF Shape
<1> QED
  BY <1>1, <1>3, <1>4, <1>5, <1>6 DEF Same, Leaves

-----------------------------------------------------------------------------
\* The trade.

\* What an execute may be refused with inside a trade.
TradeRefusals == {"InvalidAmount", "InvalidCallback", "InsufficientProfit"}

\* What the callback leaves when it does not fail: the V3 pool is paid, and the
\* profit, which is what was asked for or more, is held in USDC.
Settled(c, v, req, owed) ==
  /\ Shape(c.w) /\ Same(c.w, v) /\ c.paid = owed /\ c.profit \in Nat /\ c.profit >= req.minProfit

\* How the callback comes back: refused, or settled with these amounts and the profit
\* in USDC on top of them.
ComesBack(c, v, req, owed, got, weth, usdc) ==
  \/ c.error \in TradeRefusals
  \/ /\ c.error = "none" /\ owed > 0 /\ got > 0 /\ Settled(c, v, req, owed)
     /\ c.w.held["weth"] = weth /\ c.w.held["usdc"] = usdc + c.profit

LEMMA LegFields ==
    ASSUME NEW step, NEW profit, NEW in, NEW out, NEW owed
    PROVE  LET c == LegResult(step, profit, in, out, owed)
           IN  c.error = step.error /\ c.w = step.w /\ c.profit = profit /\ c.paid = owed
BY DEF LegResult

LEMMA FailFields ==
    ASSUME NEW w, NEW error
    PROVE  Fail(w, error).error = error /\ Fail(w, error).w = w
BY DEF Fail

LEMMA ForwardCallbackOK ==
    ASSUME NEW v, NEW req, req.direction = "v3_to_v2", req.minProfit \in Nat,
           order \in [v3 : BOOLEAN, v2 : BOOLEAN], NEW owed \in Int, NEW weth \in Int,
           owed > 0 /\ -weth > 0 => Shape(v) /\ -weth <= v.held["weth"]
    PROVE  ComesBack(Callback(v, "execute", req, owed, weth), v, req, owed, -weth,
                     v.held["weth"] - (-weth), v.held["usdc"])
<1> DEFINE got == -weth
           c == Callback(v, "execute", req, owed, weth)
           quote == QuoteOut(got, Reserve(v, "weth"), Reserve(v, "usdc"))
           out == quote.value
           profit == out - owed
           s == SecondLeg(v, TRUE, got, out, owed)
<1>1. c = IF owed <= 0 \/ got <= 0 THEN LegResult(Fail(v, "InvalidCallback"), 0, 0, 0, 0)
          ELSE QuotedLeg(v, "execute", req, TRUE, owed, got, quote)
  BY DEF Callback
<1> HIDE DEF got
<1>2. CASE owed <= 0 \/ got <= 0
  <2> HIDE DEF c, quote
  <2>0. c = LegResult(Fail(v, "InvalidCallback"), 0, 0, 0, 0)
    BY <1>1, <1>2
  <2>1. c.error = "InvalidCallback"
    BY <2>0, LegFields, FailFields
  <2> QED
    BY <2>1 DEF TradeRefusals, ComesBack, c
<1>3. CASE ~(owed <= 0 \/ got <= 0)
  <2>1. owed \in Positive /\ got \in Positive /\ Shape(v) /\ got <= v.held["weth"]
    BY <1>3 DEF Positive, got
  <2>2. Reserve(v, "weth") \in Positive /\ Reserve(v, "usdc") \in Positive
    BY <2>1, ReservesOK DEF Tokens
  <2>3. /\ quote.error = "none" /\ out \in Nat
        /\ PairAccepts(Reserve(v, "weth"), Reserve(v, "usdc"), got, out)
    <3>1. got # 0 /\ Reserve(v, "weth") # 0 /\ Reserve(v, "usdc") # 0
      BY <2>1, <2>2 DEF Positive
    <3> QED
      BY <2>1, <2>2, <3>1, OutIsAccepted DEF QuoteOut
  <2>4. c = LegResult(IF CheckProfit("execute", profit, req.minProfit) THEN s
                      ELSE Fail(v, "InsufficientProfit"), profit, got, out, owed)
    BY <1>1, <1>3, <2>3 DEF QuotedLeg, ProfitableLeg
  <2> HIDE DEF quote, c
  <2>5. profit \in Int
    BY <2>1, <2>3 DEF Positive
  <2>6. CASE ~CheckProfit("execute", profit, req.minProfit)
    <3>1. c.error = "InsufficientProfit"
      BY <2>4, <2>6 DEF LegResult, Fail
    <3> QED
      BY <3>1 DEF TradeRefusals, ComesBack, c
  <2>7. CASE CheckProfit("execute", profit, req.minProfit)
    <3>1. profit >= 0 /\ profit >= req.minProfit
      BY <2>7 DEF CheckProfit
    <3>2. owed <= out /\ out \in Positive
      BY <2>1, <2>3, <3>1 DEF Positive
    <3>3. Leaves(s, v, v.held["weth"] - got, v.held["usdc"] + (out - owed))
      <4> HIDE DEF out, s
      <4>1. /\ out \in Positive /\ owed <= v.held["usdc"] + out
            /\ PairAccepts(Reserve(v, "weth"), Reserve(v, "usdc"), got, out)
        <5>1. v.held["usdc"] \in Nat
          BY <2>1 DEF Shape, Tokens
        <5> QED
          BY <2>1, <2>3, <3>2, <5>1 DEF Positive
      <4> QED
        BY <2>1, <4>1, ForwardLegOK DEF s
    <3> HIDE DEF s
    <3>4. c.error = s.error /\ c.w = s.w /\ c.profit = profit /\ c.paid = owed
      BY <2>4, <2>7 DEF LegResult
    <3> QED
      BY <2>1, <2>5, <3>1, <3>3, <3>4 DEF Settled, Leaves, ComesBack, Positive, c, got
  <2> QED
    BY <2>6, <2>7
<1> QED
  BY <1>2, <1>3

LEMMA BackwardCallbackOK ==
    ASSUME NEW v, NEW req, req.direction # "v3_to_v2", req.minProfit \in Nat,
           order \in [v3 : BOOLEAN, v2 : BOOLEAN], NEW owed \in Int, NEW usdc \in Int,
           owed > 0 /\ -usdc > 0 => Shape(v) /\ -usdc <= v.held["usdc"]
    PROVE  ComesBack(Callback(v, "execute", req, usdc, owed), v, req, owed, -usdc,
                     v.held["weth"], v.held["usdc"] - (-usdc))
<1> DEFINE got == -usdc
           c == Callback(v, "execute", req, usdc, owed)
           quote == QuoteIn(owed, Reserve(v, "usdc"), Reserve(v, "weth"))
           in == quote.value
           profit == got - in
           s == SecondLeg(v, FALSE, in, owed, owed)
<1>1. c = IF owed <= 0 \/ got <= 0 THEN LegResult(Fail(v, "InvalidCallback"), 0, 0, 0, 0)
          ELSE QuotedLeg(v, "execute", req, FALSE, owed, got, quote)
  BY DEF Callback
<1> HIDE DEF got
<1>2. CASE owed <= 0 \/ got <= 0
  <2> HIDE DEF c, quote
  <2>0. c = LegResult(Fail(v, "InvalidCallback"), 0, 0, 0, 0)
    BY <1>1, <1>2
  <2>1. c.error = "InvalidCallback"
    BY <2>0, LegFields, FailFields
  <2> QED
    BY <2>1 DEF TradeRefusals, ComesBack, c
<1>3. CASE ~(owed <= 0 \/ got <= 0) /\ owed >= Reserve(v, "weth")
  <2>1. quote.error = "InvalidAmount"
    BY <1>3 DEF QuoteIn
  <2> HIDE DEF quote
  <2>2. c.error = "InvalidAmount"
    BY <1>1, <1>3, <2>1 DEF QuotedLeg, LegResult, Fail
  <2> QED
    BY <2>2 DEF TradeRefusals, ComesBack
<1>4. CASE ~(owed <= 0 \/ got <= 0) /\ ~(owed >= Reserve(v, "weth"))
  <2>1. owed \in Positive /\ got \in Positive /\ Shape(v) /\ got <= v.held["usdc"]
    BY <1>4 DEF Positive, got
  <2>2. Reserve(v, "weth") \in Positive /\ Reserve(v, "usdc") \in Positive
    BY <2>1, ReservesOK DEF Tokens
  <2>3. /\ quote.error = "none" /\ in \in Positive
        /\ PairAccepts(Reserve(v, "usdc"), Reserve(v, "weth"), in, owed)
    <3>1. owed # 0 /\ Reserve(v, "usdc") # 0 /\ owed < Reserve(v, "weth")
      BY <1>4, <2>1, <2>2 DEF Positive
    <3> QED
      BY <1>4, <2>1, <2>2, <3>1, InIsAccepted DEF QuoteIn
  <2>4. c = LegResult(IF CheckProfit("execute", profit, req.minProfit) THEN s
                      ELSE Fail(v, "InsufficientProfit"), profit, in, owed, owed)
    BY <1>1, <1>4, <2>3 DEF QuotedLeg, ProfitableLeg
  <2> HIDE DEF quote, c
  <2>5. profit \in Int
    BY <2>1, <2>3 DEF Positive
  <2>6. CASE ~CheckProfit("execute", profit, req.minProfit)
    <3>1. c.error = "InsufficientProfit"
      BY <2>4, <2>6 DEF LegResult, Fail
    <3> QED
      BY <3>1 DEF TradeRefusals, ComesBack, c
  <2>7. CASE CheckProfit("execute", profit, req.minProfit)
    <3>1. profit >= 0 /\ profit >= req.minProfit
      BY <2>7 DEF CheckProfit
    <3>2. v.held["usdc"] \in Nat
      BY <2>1 DEF Shape, Tokens
    <3>3. in <= v.held["usdc"]
      BY <2>1, <2>3, <3>1, <3>2 DEF Positive
    <3>4. Leaves(s, v, v.held["weth"], v.held["usdc"] - in)
      <4> HIDE DEF in
      <4> QED
        BY <2>1, <2>3, <3>3, BackwardLegOK
    <3> HIDE DEF s
    <3>5. c.error = s.error /\ c.w = s.w /\ c.profit = profit /\ c.paid = owed
      BY <2>4, <2>7 DEF LegResult
    <3>6. v.held["usdc"] - in = v.held["usdc"] - got + profit
      BY <2>1, <2>3, <3>2 DEF Positive
    <3> QED
      BY <2>1, <2>5, <3>1, <3>4, <3>5, <3>6 DEF Settled, Leaves, ComesBack, Positive, c, got
  <2> QED
    BY <2>6, <2>7
<1> QED
  BY <1>2, <1>3, <1>4

-----------------------------------------------------------------------------
\* What a trade does when it is not refused: nothing stays with the contract, and
\* the owner has the profit.
Done(t, w, req) ==
  /\ t.error = "none" /\ Shape(t.w)
  /\ t.w.held = w.held /\ t.w.given = w.given /\ t.w.owner = w.owner
  /\ \E p \in Nat : p >= req.minProfit
                    /\ t.w.wallet = [w.wallet EXCEPT ![w.owner] = w.wallet[w.owner] + p]

\* The V3 pool answers a swap of the contract with integers, and is left at a price.
Answered(q) == q.in \in Int /\ q.out \in Int /\ q.price \in SqrtPrices /\ q.tick \in Int

LEMMA PoolAnswers ==
    ASSUME NEW w, PoolOK(w), NEW zeroForOne \in BOOLEAN, NEW amount \in Int
    PROVE  Answered(PoolSwap(w, zeroForOne, amount))
<1> DEFINE q == PoolSwap(w, zeroForOne, amount)
<1>1. q \in SwapState
  BY PoolSwapOK
<1> HIDE DEF q
<1>2. Answered(q)
  BY <1>1 DEF SwapState, Answered
<1> QED
  BY <1>2 DEF q

\* The V3 pool's part of a trade: what it sells is with the contract.
Sends(w, q, token) ==
  [w EXCEPT !.price = q.price, !.tick = q.tick, !.held[token] = @ + q.out]

LEMMA PoolSends ==
    ASSUME NEW w, Shape(w), NEW q, Answered(q), NEW token \in Tokens
    PROVE  LET v == Sends(w, q, token)
           IN  /\ Same(v, w)
               /\ v.held = [w.held EXCEPT ![token] = w.held[token] + q.out]
               /\ q.out > 0 => Shape(v)
<1> DEFINE held == [w.held EXCEPT ![token] = w.held[token] + q.out]
           v == [w EXCEPT !.price = q.price, !.tick = q.tick, !.held = held]
<1>1. q.out > 0 => held \in [Tokens -> Nat]
  BY DEF Shape, Answered
<1>2. Sends(w, q, token) = v
  BY DEF Sends, Shape, Fields
<1> HIDE DEF held
<1>3. /\ v.given = w.given /\ v.wallet = w.wallet /\ v.owner = w.owner /\ v.r = w.r
      /\ v.held = held /\ DOMAIN v = Fields
      /\ v.price = q.price /\ v.tick = q.tick /\ v.minted = w.minted
  BY DEF Shape, Fields, PoolOK
<1> HIDE DEF v
<1>4. q.out > 0 => Shape(v)
  BY <1>1, <1>3 DEF Shape, PoolOK, Answered
<1> QED
  BY <1>2, <1>3, <1>4 DEF held, Same

\* What is left of a trade once the callback has come back.
Ends(c, req, v3In, v3Out) ==
  Traded(Then(c, LAMBDA v : IF c.paid < v3In THEN Fail(v, "IIA") ELSE PayOwner(v, req, c.profit)),
         v3In, v3Out, c)

LEMMA RefusedEnds ==
    ASSUME NEW c, NEW req, NEW v3In, NEW v3Out, c.error \in TradeRefusals
    PROVE  Ends(c, req, v3In, v3Out).error = c.error
<1>1. c.error # "none"
  BY DEF TradeRefusals
<1>2. Ends(c, req, v3In, v3Out) = Traded(c, v3In, v3Out, c)
  BY <1>1 DEF Ends, Then
<1> QED
  BY <1>2 DEF Traded

LEMMA SettledEnds ==
    ASSUME NEW c, NEW v, NEW w, NEW req, NEW v3In \in Int, NEW v3Out, Shape(w), Same(v, w),
           c.error = "none", Settled(c, v, req, v3In), req.minProfit \in Nat,
           c.w.held["weth"] = w.held["weth"], c.w.held["usdc"] = w.held["usdc"] + c.profit
    PROVE  Done(Ends(c, req, v3In, v3Out), w, req)
<1> DEFINE s == PayOwner(c.w, req, c.profit)
           t == Ends(c, req, v3In, v3Out)
<1>1. t = Traded(s, v3In, v3Out, c)
  BY DEF Ends, Then, Settled
<1>2. w.held \in [Tokens -> Nat] /\ c.w.held \in [Tokens -> Nat] /\ c.profit \in Nat /\ Shape(c.w)
      /\ c.profit <= c.w.held["usdc"]
  BY DEF Settled, Shape, Tokens
<1>3. /\ s.error = "none" /\ Shape(s.w) /\ s.w.given = c.w.given /\ s.w.owner = c.w.owner
      /\ s.w.held = [c.w.held EXCEPT !["usdc"] = c.w.held["usdc"] - c.profit]
      /\ s.w.wallet = [c.w.wallet EXCEPT ![c.w.owner] = c.w.wallet[c.w.owner] + c.profit]
  <2> DEFINE u == c.w
             p == c.profit
  <2>1. Shape(u) /\ p \in Nat /\ p <= u.held["usdc"]
    BY <1>2
  <2> HIDE DEF u, p
  <2> QED
    BY <2>1, PayOwnerOK DEF u, p
<1> HIDE DEF s
<1>4. s.w.held = w.held
  <2>1. [c.w.held EXCEPT !["usdc"] = c.w.held["usdc"] - c.profit] = w.held
    BY <1>2 DEF Tokens
  <2> QED
    BY <1>3, <2>1
<1>5. c.w.given = w.given /\ c.w.owner = w.owner /\ c.w.wallet = w.wallet /\ c.profit >= req.minProfit
  BY DEF Settled, Same
<1> HIDE DEF t
<1>6. t.error = s.error /\ t.w = s.w
  BY <1>1 DEF Traded
<1> QED
  BY <1>2, <1>3, <1>4, <1>5, <1>6 DEF Done, t

\* A trade either is refused before a token moves or settles.
LEMMA TradeOK ==
    ASSUME NEW w, Shape(w), NEW req, req.minProfit \in Nat, req.amount \in Int,
           order \in [v3 : BOOLEAN, v2 : BOOLEAN]
    PROVE  LET t == Trade(w, req, "execute")
           IN  t.error \in TradeRefusals \/ Done(t, w, req)
<1> DEFINE q == PoolSwap(w, (req.direction = "v3_to_v2") = order.v3, req.amount)
           t == Trade(w, req, "execute")
           forward == Sends(w, q, "weth")
           backward == Sends(w, q, "usdc")
           fc == Callback(forward, "execute", req, q.in, -q.out)
           bc == Callback(backward, "execute", req, -q.out, q.in)
<1>0. Answered(q) /\ q.in \in Int /\ q.out \in Int /\ "usdc" \in Tokens /\ "weth" \in Tokens
  <2> DEFINE zeroForOne == (req.direction = "v3_to_v2") = order.v3
             amount == req.amount
  <2>1. zeroForOne \in BOOLEAN /\ amount \in Int /\ PoolOK(w)
    BY DEF Shape
  <2> HIDE DEF zeroForOne, amount
  <2>2. Answered(PoolSwap(w, zeroForOne, amount))
    BY <2>1, PoolAnswers
  <2> QED
    BY <2>2 DEF Answered, Tokens, zeroForOne, amount
<1>1. CASE req.amount = 0
  <2>1. t = Traded(Fail(w, "InvalidAmount"), 0, 0, LegResult(Ok(w), 0, 0, 0, 0))
    BY <1>1 DEF Trade
  <2>2. t.error = "InvalidAmount"
    BY <2>1, FailFields DEF Traded
  <2> QED
    BY <2>2 DEF TradeRefusals
<1>2. CASE req.amount # 0 /\ req.direction = "v3_to_v2"
  <2>1. t = Ends(fc, req, q.in, q.out)
    BY <1>2 DEF Trade, Ends, Sends
  <2>2. /\ Same(forward, w) /\ forward.held = [w.held EXCEPT !["weth"] = w.held["weth"] + q.out]
        /\ q.out > 0 => Shape(forward)
    <3> HIDE DEF q
    <3> QED
      BY <1>0, PoolSends
  <2> HIDE DEF q, forward, t
  <2>3. w.held \in [Tokens -> Nat] /\ forward.held["weth"] = w.held["weth"] + q.out
        /\ forward.held["usdc"] = w.held["usdc"]
    BY <1>0, <2>2 DEF Shape
  <2>4. -(-q.out) = q.out /\ -q.out \in Int
    BY <1>0
  <2>5. q.in > 0 /\ -(-q.out) > 0 => Shape(forward) /\ -(-q.out) <= forward.held["weth"]
    BY <1>0, <2>2, <2>3, <2>4
  <2>6. ComesBack(fc, forward, req, q.in, -(-q.out), forward.held["weth"] - (-(-q.out)),
                  forward.held["usdc"])
    <3> DEFINE weth == -q.out
               in == q.in
    <3>1. in \in Int /\ weth \in Int /\ (in > 0 /\ -weth > 0 => Shape(forward) /\ -weth <= forward.held["weth"])
      BY <1>0, <2>4, <2>5
    <3> HIDE DEF weth, in, fc
    <3> QED
      BY <1>2, <3>1, ForwardCallbackOK DEF weth, in, fc
  <2> HIDE DEF fc
  <2>7. CASE fc.error \in TradeRefusals
    BY <2>1, <2>7, RefusedEnds DEF t
  <2>8. CASE ~(fc.error \in TradeRefusals)
    <3>1. fc.w.held["weth"] = w.held["weth"] /\ fc.w.held["usdc"] = w.held["usdc"] + fc.profit
      BY <1>0, <2>3, <2>4, <2>6, <2>8 DEF ComesBack
    <3>2. Done(Ends(fc, req, q.in, q.out), w, req)
      BY <1>0, <2>2, <2>6, <2>8, <3>1, SettledEnds DEF ComesBack
    <3> QED
      BY <2>1, <3>2 DEF t
  <2> QED
    BY <2>7, <2>8
<1>3. CASE req.amount # 0 /\ req.direction # "v3_to_v2"
  <2>1. t = Ends(bc, req, q.in, q.out)
    BY <1>3 DEF Trade, Ends, Sends
  <2>2. /\ Same(backward, w) /\ backward.held = [w.held EXCEPT !["usdc"] = w.held["usdc"] + q.out]
        /\ q.out > 0 => Shape(backward)
    <3> HIDE DEF q
    <3> QED
      BY <1>0, PoolSends
  <2> HIDE DEF q, backward, t
  <2>3. w.held \in [Tokens -> Nat] /\ backward.held["usdc"] = w.held["usdc"] + q.out
        /\ backward.held["weth"] = w.held["weth"]
    BY <1>0, <2>2 DEF Shape
  <2>4. -(-q.out) = q.out /\ -q.out \in Int
    BY <1>0
  <2>5. q.in > 0 /\ -(-q.out) > 0 => Shape(backward) /\ -(-q.out) <= backward.held["usdc"]
    BY <1>0, <2>2, <2>3, <2>4
  <2>6. ComesBack(bc, backward, req, q.in, -(-q.out), backward.held["weth"],
                  backward.held["usdc"] - (-(-q.out)))
    <3> DEFINE usdc == -q.out
               in == q.in
    <3>1. in \in Int /\ usdc \in Int /\ (in > 0 /\ -usdc > 0 => Shape(backward) /\ -usdc <= backward.held["usdc"])
      BY <1>0, <2>4, <2>5
    <3> HIDE DEF usdc, in, bc
    <3> QED
      BY <1>3, <3>1, BackwardCallbackOK DEF usdc, in, bc
  <2> HIDE DEF bc
  <2>7. CASE bc.error \in TradeRefusals
    BY <2>1, <2>7, RefusedEnds DEF t
  <2>8. CASE ~(bc.error \in TradeRefusals)
    <3>1. bc.w.held["weth"] = w.held["weth"] /\ bc.w.held["usdc"] = w.held["usdc"] + bc.profit
      BY <1>0, <2>3, <2>4, <2>6, <2>8 DEF ComesBack
    <3>2. Done(Ends(bc, req, q.in, q.out), w, req)
      BY <1>0, <2>2, <2>6, <2>8, <3>1, SettledEnds DEF ComesBack
    <3> QED
      BY <2>1, <3>2 DEF t
  <2> QED
    BY <2>7, <2>8
<1> QED
  BY <1>1, <1>2, <1>3

-----------------------------------------------------------------------------
\* The transactions.

\* A state of the chain in which the contract holds what it was given.
Fine(w) == Shape(w) /\ w.held = w.given

\* How a transaction is refused that the contract receives as an execute.
Refusals == TradeRefusals \union {"Unauthorized", "Expired"}

\* What a transaction may do to the wallets, given how it ended.
Pays(tx, s, w) ==
  IF tx.kind = "execute"
  THEN tx.sender = w.owner /\ \E p \in Nat :
         p >= tx.req.minProfit /\ s.w.wallet = [w.wallet EXCEPT ![w.owner] = w.wallet[w.owner] + p]
  ELSE s.w.wallet = w.wallet

\* A transaction that commits.
Commits(tx, s, w) == Fine(s.w) /\ Pays(tx, s, w)

LEMMA RequestsOK ==
    ASSUME NEW req \in Requests
    PROVE  req.minProfit \in Nat /\ req.amount \in Int
<1>1. Min(Amounts) \in Amounts
  <2>1. \E x \in Amounts : \A y \in Amounts : x <= y
    BY FlashArbConstants, LeastNatural
  <2> QED
    BY <2>1 DEF Min
<1>2. /\ req.minProfit \in MinProfits \union {0}
      /\ req.amount \in Amounts \union {Min(Amounts), 0}
  BY DEF Requests, Request
<1>3. MinProfits \subseteq Nat /\ Amounts \subseteq Nat
  BY FlashArbConstants
<1> DEFINE least == Min(Amounts)
           minProfit == req.minProfit
           amount == req.amount
<1>4. least \in Nat
  BY <1>1, <1>3
<1>5. /\ minProfit \in MinProfits \/ minProfit = 0
      /\ amount \in Amounts \/ amount = least \/ amount = 0
  BY <1>2
<1> HIDE DEF least, minProfit, amount
<1>6. minProfit \in Nat
  <2>1. CASE minProfit = 0
    BY <2>1
  <2>2. CASE minProfit \in MinProfits
    BY <1>3, <2>2
  <2> QED
    BY <1>5, <2>1, <2>2
<1>7. amount \in Nat
  <2>1. CASE amount = 0
    BY <2>1
  <2>2. CASE amount \in Amounts
    BY <1>3, <2>2
  <2> QED
    BY <1>4, <1>5, <2>1, <2>2
<1> QED
  BY <1>6, <1>7 DEF minProfit, amount

LEMMA ExecuteOK ==
    ASSUME NEW w, Fine(w), order \in [v3 : BOOLEAN, v2 : BOOLEAN], NEW number, NEW tx,
           tx.kind = "execute",
           tx.sender = w.owner => tx.req.minProfit \in Nat /\ tx.req.amount \in Int
    PROVE  LET s == Execute(w, tx.sender, tx.req, number)
           IN  s.error \in Refusals \/ (s.error = "none" /\ Commits(tx, s, w))
<1> DEFINE req == tx.req
           s == Execute(w, tx.sender, req, number)
           t == Trade(w, req, "execute")
<1>1. CASE tx.sender # w.owner
  <2>1. s = Fail(w, "Unauthorized")
    BY <1>1 DEF Execute
  <2> QED
    BY <2>1, FailFields DEF Refusals
<1>2. CASE tx.sender = w.owner /\ number > req.deadline
  <2>1. s = Fail(w, "Expired")
    BY <1>2 DEF Execute
  <2> QED
    BY <2>1, FailFields DEF Refusals
<1>3. CASE tx.sender = w.owner /\ ~(number > req.deadline)
  <2>1. s = [w |-> t.w, error |-> t.error]
    BY <1>3 DEF Execute
  <2>2. t.error \in TradeRefusals \/ Done(t, w, req)
    <3> HIDE DEF req
    <3>1. req.minProfit \in Nat /\ req.amount \in Int
      BY <1>3 DEF req
    <3> QED
      BY <3>1, TradeOK DEF Fine
  <2> HIDE DEF t, s, req
  <2>3. s.error = t.error /\ s.w = t.w
    BY <2>1
  <2>4. CASE t.error \in TradeRefusals
    BY <2>3, <2>4 DEF Refusals, s, req
  <2>5. CASE Done(t, w, req)
    <3>1. s.error = "none" /\ Fine(s.w)
      BY <2>3, <2>5 DEF Done, Fine
    <3>2. Pays(tx, s, w)
      BY <1>3, <2>3, <2>5 DEF Done, Pays, req
    <3> QED
      BY <3>1, <3>2 DEF Commits, s, req
  <2> QED
    BY <2>2, <2>4, <2>5
<1> QED
  BY <1>1, <1>2, <1>3

\* A handover changes who the owner is, or who is to be.
LEMMA HandoverOK ==
    ASSUME NEW w, Fine(w), NEW tx, tx.kind \in {"transferOwnership", "acceptOwnership"},
           tx.sender \in Owners,
           NEW s, s.error = "none",
           s = TransferOwnership(w, tx.sender, tx.to) \/ s = AcceptOwnership(w, tx.sender)
    PROVE  Commits(tx, s, w)
<1>1. CASE s = TransferOwnership(w, tx.sender, tx.to)
  <2> DEFINE v == [w EXCEPT !.pending = tx.to]
  <2>1. s = Fail(w, "Unauthorized") \/ s = Ok(v)
    BY <1>1 DEF TransferOwnership
  <2>2. Fine(v) /\ v.wallet = w.wallet
    BY DEF Fine, Shape, Fields, PoolOK
  <2> HIDE DEF v
  <2>3. s.w = v
    BY <2>1, FailFields DEF Ok
  <2> QED
    BY <2>2, <2>3 DEF Commits, Pays
<1>2. CASE s = AcceptOwnership(w, tx.sender)
  <2> DEFINE v == [w EXCEPT !.owner = tx.sender, !.pending = "zero"]
  <2>1. s = Fail(w, "Unauthorized") \/ s = Ok(v)
    BY <1>2 DEF AcceptOwnership
  <2>2. Fine(v) /\ v.wallet = w.wallet
    BY DEF Fine, Shape, Fields, PoolOK, Accounts
  <2> HIDE DEF v
  <2>3. s.w = v
    BY <2>1, FailFields DEF Ok
  <2> QED
    BY <2>2, <2>3 DEF Commits, Pays
<1> QED
  BY <1>1, <1>2

\* What is recovered is no longer given.
LEMMA RecoverOK ==
    ASSUME NEW w, Fine(w), NEW tx, tx.kind = "recover", tx.token \in Tokens, tx.amount \in Nat,
           NEW s, s.error = "none", s = Recover(w, tx.sender, tx.token, tx.amount)
    PROVE  Commits(tx, s, w)
<1> DEFINE token == tx.token
           amount == tx.amount
           a == SafeTransfer(w, token, amount)
           u == a.w
           given == [u.given EXCEPT ![token] = u.given[token] - amount]
           v == [u EXCEPT !.given = given]
<1>1. w.held \in [Tokens -> Nat] /\ token \in Tokens /\ amount \in Nat
  BY DEF Fine, Shape
<1>2. CASE tx.sender # w.owner \/ w.held[token] < amount
  <2>1. s = Fail(w, "Unauthorized") \/ s = Fail(w, "TransferFailed")
    <3>1. Fail(w, "TransferFailed").error # "none"
      BY DEF Fail
    <3> QED
      BY <1>2, <3>1 DEF Recover, SafeTransfer, Then
  <2> QED
    BY <2>1, FailFields
<1>3. CASE ~(tx.sender # w.owner \/ w.held[token] < amount)
  <2>1. amount <= w.held[token]
    BY <1>1, <1>3
  <2> HIDE DEF token, amount
  <2>2. /\ a.error = "none" /\ Shape(u) /\ Same(u, w)
        /\ u.held = [w.held EXCEPT ![token] = w.held[token] - amount]
    BY <1>1, <2>1, SafeTransferOK DEF Fine
  <2>3. s = Ok(v)
    BY <1>3, <2>2 DEF Recover, Then, token, amount
  <2> HIDE DEF a, u
  <2>4. given = u.held
    BY <2>2 DEF Same, Fine
  <2> HIDE DEF given
  <2>5. Shape(v) /\ v.given = given /\ v.held = u.held /\ v.wallet = u.wallet
    BY <2>2 DEF Shape, Fields, PoolOK
  <2> HIDE DEF v
  <2>6. s.w = v
    BY <2>3 DEF Ok
  <2> QED
    BY <2>2, <2>4, <2>5, <2>6 DEF Commits, Fine, Pays, Same
<1> QED
  BY <1>2, <1>3

\* A gift is held and given.
LEMMA GiftOK ==
    ASSUME NEW w, Fine(w), NEW tx, tx.kind = "gift", tx.token \in Tokens, NEW s,
           s = Ok([w EXCEPT !.held[tx.token] = @ + Gift, !.given[tx.token] = @ + Gift])
    PROVE  Commits(tx, s, w)
<1> DEFINE held == [w.held EXCEPT ![tx.token] = w.held[tx.token] + Gift]
           v == [w EXCEPT !.held = held, !.given = held]
<1>1. w.held \in [Tokens -> Nat] /\ w.given = w.held /\ Gift \in Nat
  BY FlashArbConstants DEF Fine, Shape
<1>2. held \in [Tokens -> Nat]
  BY <1>1
<1>3. [w EXCEPT !.held[tx.token] = @ + Gift, !.given[tx.token] = @ + Gift] = v
  BY <1>1 DEF Fine, Shape, Fields, PoolOK
<1> HIDE DEF held
<1>4. Shape(v) /\ v.held = held /\ v.given = held /\ v.wallet = w.wallet
  BY <1>2 DEF Fine, Shape, Fields, PoolOK
<1> HIDE DEF v
<1>5. s.w = v
  BY <1>3 DEF Ok
<1> QED
  BY <1>4, <1>5 DEF Commits, Fine, Pays

\* What others do to the pools leaves the contract alone.
LEMMA MarketOK ==
    ASSUME NEW w, Fine(w), order \in [v3 : BOOLEAN, v2 : BOOLEAN], NEW tx,
           tx.kind \in {"swapV3", "swapV2"}, tx.token \in Tokens, tx.amount \in Positive,
           NEW s, s.error = "none",
           s = OthersSwapV3(w, tx.token, tx.amount) \/ s = OthersSwapV2(w, tx.token, tx.amount)
    PROVE  Commits(tx, s, w)
<1>1. CASE s = OthersSwapV3(w, tx.token, tx.amount)
  <2> DEFINE q == PoolSwap(w, (tx.token = "usdc") = order.v3, tx.amount)
             v == [w EXCEPT !.price = q.price, !.tick = q.tick]
  <2>1. s = Ok(v)
    BY <1>1 DEF OthersSwapV3
  <2>0. Answered(q)
    <3> DEFINE zeroForOne == (tx.token = "usdc") = order.v3
               amount == tx.amount
    <3>1. zeroForOne \in BOOLEAN /\ amount \in Int /\ PoolOK(w)
      BY DEF Fine, Shape, Positive
    <3> HIDE DEF zeroForOne, amount
    <3>2. Answered(PoolSwap(w, zeroForOne, amount))
      BY <3>1, PoolAnswers
    <3> QED
      BY <3>2 DEF zeroForOne, amount
  <2> HIDE DEF q
  <2>2. Fine(v) /\ v.wallet = w.wallet
    BY <2>0 DEF Fine, Shape, Fields, PoolOK, Answered
  <2> HIDE DEF v
  <2>3. s.w = v
    BY <2>1 DEF Ok
  <2> QED
    BY <2>2, <2>3 DEF Commits, Pays
<1>2. CASE s = OthersSwapV2(w, tx.token, tx.amount)
  <2> DEFINE token == tx.token
             in == tx.amount
             rIn == Reserve(w, token)
             rOut == Reserve(w, Other(token))
             out == (in * V2FeeNum * rOut) \div (rIn * V2FeeDen + in * V2FeeNum)
  <2>1. s = PairSwap(w, token, in, out)
    BY <1>2 DEF OthersSwapV2, GetAmountOut
  <2>2. token \in Tokens /\ in \in Positive
    OBVIOUS
  <2> HIDE DEF token, in
  <2>3. rIn \in Positive /\ rOut \in Positive
    BY <2>2, ReservesOK DEF Fine
  <2>4. out \in Nat /\ PairAccepts(rIn, rOut, in, out)
    <3> HIDE DEF rIn, rOut
    <3> QED
      BY <2>2, <2>3, OutIsAccepted
  <2> HIDE DEF out
  <2>5. out \in Positive
    <3>1. SUFFICES ASSUME out = 0 PROVE FALSE
      BY <2>4 DEF Positive
    <3>2. s = Fail(w, "InsufficientOutput")
      BY <2>1, <3>1 DEF PairSwap
    <3> QED
      BY <3>2, FailFields
  <2>6. Shape(s.w) /\ Same(s.w, w) /\ s.w.held = w.held
    <3>1. in \in Nat
      BY <2>2 DEF Positive
    <3> QED
      BY <2>1, <2>2, <2>4, <2>5, <3>1, PairSwapOK DEF Fine
  <2> QED
    BY <2>6 DEF Commits, Fine, Same, Pays
<1> QED
  BY <1>1, <1>2

\* Liquidity of others.
LEMMA RangesOK ==
    ASSUME NEW w, Fine(w), NEW tx, tx.kind \in {"mint", "burn"}, NEW minted \in SUBSET Ranges,
           NEW s,
           s = Ok([w EXCEPT !.minted = minted])
    PROVE  Commits(tx, s, w)
<1> DEFINE v == [w EXCEPT !.minted = minted]
<1>1. Fine(v) /\ v.wallet = w.wallet
  BY DEF Fine, Shape, Fields, PoolOK
<1> HIDE DEF v
<1>2. s.w = v
  BY DEF Ok, v
<1> QED
  BY <1>1, <1>2 DEF Commits, Pays

\* A call that always reverts.
LEMMA RevertsOK ==
    ASSUME NEW w, Fine(w), NEW tx, tx.kind \in {"simulate", "callback"}, NEW error, NEW s,
           s = Fail(w, error)
    PROVE  Commits(tx, s, w)
BY FailFields DEF Commits, Fine, Pays

\* What a transaction is, by its kind.
LEMMA Kinds ==
    ASSUME NEW w, Fine(w), NEW tx \in Transactions(w)
    PROVE  \/ tx.kind = "execute" /\ (tx.sender = w.owner => tx.req \in Requests)
           \/ tx.kind \in {"simulate", "callback"}
           \/ tx.kind \in {"transferOwnership", "acceptOwnership"} /\ tx.sender \in Owners
           \/ tx.kind = "recover" /\ tx.token \in Tokens /\ tx.amount \in Nat
           \/ tx.kind = "gift" /\ tx.token \in Tokens
           \/ tx.kind \in {"swapV3", "swapV2"} /\ tx.token \in Tokens /\ tx.amount \in Positive
           \/ tx.kind \in {"mint", "burn"} /\ tx.range \in Others
<1> HIDE DEF Requests
<1> QED
  BY FlashArbConstants DEF Transactions, Positive

\* What a transaction may end as.
RunEnds(tx, s, w) ==
  /\ s.error = "none" => Commits(tx, s, w)
  /\ tx.kind = "execute" => s.error \in Refusals \union {"none"}

LEMMA RunOK ==
    ASSUME NEW w, Fine(w), order \in [v3 : BOOLEAN, v2 : BOOLEAN], NEW number,
           NEW tx \in Transactions(w)
    PROVE  RunEnds(tx, Run(w, tx, number), w)
<1> DEFINE s == Run(w, tx, number)
<1>1. CASE tx.kind = "execute" /\ (tx.sender = w.owner => tx.req \in Requests)
  <2>1. s = Execute(w, tx.sender, tx.req, number)
    BY <1>1 DEF Run
  <2>2. tx.sender = w.owner => tx.req.minProfit \in Nat /\ tx.req.amount \in Int
    BY <1>1, RequestsOK
  <2> HIDE DEF s
  <2>3. s.error \in Refusals \/ (s.error = "none" /\ Commits(tx, s, w))
    BY <1>1, <2>1, <2>2, ExecuteOK
  <2>4. "none" \notin Refusals
    BY DEF Refusals, TradeRefusals
  <2> QED
    BY <2>3, <2>4 DEF RunEnds, s
<1>2. CASE tx.kind \in {"simulate", "callback"}
  <2>1. \E error : s = Fail(w, error)
    <3>1. CASE tx.kind = "simulate"
      BY <3>1 DEF Run
    <3>2. CASE tx.kind = "callback"
      BY <3>2 DEF Run
    <3> QED
      BY <1>2, <3>1, <3>2
  <2> HIDE DEF s
  <2> QED
    BY <1>2, <2>1, RevertsOK DEF RunEnds, s
<1>3. CASE tx.kind \in {"transferOwnership", "acceptOwnership"} /\ tx.sender \in Owners
  <2>1. s = TransferOwnership(w, tx.sender, tx.to) \/ s = AcceptOwnership(w, tx.sender)
    BY <1>3 DEF Run
  <2> HIDE DEF s
  <2> QED
    BY <1>3, <2>1, HandoverOK DEF RunEnds, s
<1>4. CASE tx.kind = "recover" /\ tx.token \in Tokens /\ tx.amount \in Nat
  <2>1. s = Recover(w, tx.sender, tx.token, tx.amount)
    BY <1>4 DEF Run
  <2> HIDE DEF s
  <2> QED
    BY <1>4, <2>1, RecoverOK DEF RunEnds, s
<1>5. CASE tx.kind = "gift" /\ tx.token \in Tokens
  <2>1. s = Ok([w EXCEPT !.held[tx.token] = @ + Gift, !.given[tx.token] = @ + Gift])
    BY <1>5 DEF Run
  <2> HIDE DEF s
  <2>2. Commits(tx, s, w)
    BY <1>5, <2>1, GiftOK
  <2> QED
    BY <1>5, <2>2 DEF RunEnds, s
<1>6. CASE tx.kind \in {"swapV3", "swapV2"} /\ tx.token \in Tokens /\ tx.amount \in Positive
  <2>1. s = OthersSwapV3(w, tx.token, tx.amount) \/ s = OthersSwapV2(w, tx.token, tx.amount)
    BY <1>6 DEF Run
  <2> HIDE DEF s
  <2> QED
    BY <1>6, <2>1, MarketOK DEF RunEnds, s
<1>7. CASE tx.kind \in {"mint", "burn"} /\ tx.range \in Others
  <2>0. w.minted \union {tx.range} \in SUBSET Ranges /\ w.minted \ {tx.range} \in SUBSET Ranges
    BY <1>7 DEF Fine, Shape, PoolOK, Ranges
  <2>1. \E minted \in SUBSET Ranges : s = Ok([w EXCEPT !.minted = minted])
    <3>1. CASE tx.kind = "mint"
      BY <2>0, <3>1 DEF Run
    <3>2. CASE tx.kind = "burn"
      BY <2>0, <3>2 DEF Run
    <3> QED
      BY <1>7, <3>1, <3>2
  <2> HIDE DEF s
  <2> QED
    BY <1>7, <2>1, RangesOK DEF RunEnds, s
<1> QED
  BY <1>1, <1>2, <1>3, <1>4, <1>5, <1>6, <1>7, Kinds

-----------------------------------------------------------------------------
\* The chain.

\* The inductive invariant: every block of the chain, not only the last, leaves the
\* contract with what it was given, since a reorganisation goes back to an earlier one.
FlashInv ==
  /\ order \in [v3 : BOOLEAN, v2 : BOOLEAN]
  /\ (\E S : chain \in Seq(S)) /\ Len(chain) >= 1
  /\ \A n \in 1..Len(chain) : Fine(chain[n])
  /\ RefusedBeforeMoving

\* What a block may do to the wallets, given what was sent.
Wallets(tx, w, v) ==
  \A a \in Accounts :
    IF tx.kind = "execute" /\ tx.error = "none" /\ a = w.owner
    THEN v.wallet[a] >= w.wallet[a] + tx.minProfit /\ tx.sender = a
    ELSE v.wallet[a] = w.wallet[a]

\* One more block.
LEMMA IncludeOK ==
    ASSUME NEW w, Fine(w), order \in [v3 : BOOLEAN, v2 : BOOLEAN], NEW number,
           NEW tx \in Transactions(w), NEW S, NEW before \in Seq(S), \A n \in 1..Len(before) : Fine(before[n]),
           Include(w, tx, number, before)
    PROVE  /\ (\E T : chain' \in Seq(T)) /\ Len(chain') = Len(before) + 1
           /\ \A n \in 1..Len(chain') : Fine(chain'[n])
           /\ RefusedBeforeMoving' /\ Wallets(sent', w, chain'[Len(chain')])
<1> DEFINE s == Run(w, tx, number)
           v == IF s.error = "none" THEN s.w ELSE w
<1>1. RunEnds(tx, s, w)
  BY RunOK
<1>2. /\ chain' = Append(before, v)
      /\ sent' = IF tx.kind = "execute"
                 THEN [kind |-> tx.kind, sender |-> tx.sender, minProfit |-> tx.req.minProfit,
                       error |-> s.error]
                 ELSE [kind |-> "other"]
  BY DEF Include
<1> HIDE DEF s
<1>3. Fine(v)
  BY <1>1 DEF RunEnds, Commits
<1>4. ASSUME tx.kind = "execute" PROVE RefusedBeforeMoving' /\ Wallets(sent', w, v)
  <2> DEFINE last == [kind |-> tx.kind, sender |-> tx.sender, minProfit |-> tx.req.minProfit,
                      error |-> s.error]
  <2>1. sent' = last
    BY <1>2, <1>4
  <2>2. /\ last.kind = "execute" /\ last.sender = tx.sender /\ last.minProfit = tx.req.minProfit
        /\ last.error = s.error
    BY <1>4
  <2> HIDE DEF last
  <2>3. s.error \in Refusals \union {"none"}
    BY <1>1, <1>4 DEF RunEnds
  <2>4. RefusedBeforeMoving'
    BY <2>1, <2>2, <2>3 DEF RefusedBeforeMoving, Refusals, TradeRefusals
  <2>5. CASE s.error # "none"
    <3>1. v = w
      BY <2>5
    <3> QED
      BY <2>1, <2>2, <2>4, <2>5, <3>1 DEF Wallets
  <2>6. CASE s.error = "none"
    <3>1. Pays(tx, s, w) /\ v = s.w /\ w.wallet \in [Accounts -> Int]
      BY <1>1, <2>6 DEF RunEnds, Commits, Fine, Shape
    <3>2. PICK p \in Nat : p >= tx.req.minProfit
            /\ v.wallet = [w.wallet EXCEPT ![w.owner] = w.wallet[w.owner] + p]
      BY <1>4, <3>1 DEF Pays
    <3>3. tx.sender = w.owner
      BY <1>4, <3>1 DEF Pays
    <3>4. tx.req.minProfit \in Nat
      BY <1>4, <3>3, Kinds, RequestsOK
    <3> HIDE DEF v
    <3>5. ASSUME NEW a \in Accounts
          PROVE  IF a = w.owner THEN v.wallet[a] >= w.wallet[a] + tx.req.minProfit /\ tx.sender = a
                 ELSE v.wallet[a] = w.wallet[a]
      <4>1. w.wallet[a] \in Int
        BY <3>1
      <4>2. CASE a = w.owner
        <5>1. v.wallet[a] = w.wallet[a] + p
          BY <3>1, <3>2, <4>2
        <5> QED
          BY <3>2, <3>3, <3>4, <4>1, <4>2, <5>1
      <4>3. CASE a # w.owner
        BY <3>1, <3>2, <4>3
      <4> QED
        BY <4>2, <4>3
    <3>6. Wallets(sent', w, v)
      BY <2>1, <2>2, <2>6, <3>5 DEF Wallets
    <3> QED
      BY <2>4, <3>6
  <2> QED
    BY <2>5, <2>6
<1>5. ASSUME tx.kind # "execute" PROVE RefusedBeforeMoving' /\ Wallets(sent', w, v)
  <2> DEFINE last == [kind |-> "other"]
  <2>1. sent' = last /\ last.kind = "other"
    BY <1>2, <1>5
  <2> HIDE DEF last
  <2>2. v.wallet = w.wallet
    BY <1>1, <1>5 DEF RunEnds, Commits, Pays
  <2> QED
    BY <2>1, <2>2 DEF RefusedBeforeMoving, Wallets
<1> HIDE DEF v
<1>6. /\ chain' \in Seq(S \union {v}) /\ Len(chain') = Len(before) + 1 /\ chain'[Len(chain')] = v
      /\ \A n \in 1..Len(before) : chain'[n] = before[n]
  <2> DEFINE T == S \union {v}
  <2>1. before \in Seq(T) /\ v \in T
    OBVIOUS
  <2> HIDE DEF T
  <2> QED
    BY <1>2, <2>1, AppendProperties DEF T
<1>7. ASSUME NEW n \in 1..Len(chain') PROVE Fine(chain'[n])
  <2>1. Len(before) \in Nat
    OBVIOUS
  <2>2. n \in 1..Len(before) \/ n = Len(chain')
    BY <1>6, <2>1
  <2> QED
    BY <1>3, <1>6, <2>2
<1> QED
  BY <1>4, <1>5, <1>6, <1>7

LEMMA StartOK == Init => FlashInv
<1> SUFFICES ASSUME Init PROVE FlashInv
  OBVIOUS
<1> DEFINE start == chain[1]
<1>1. FirstOwner \in Owners /\ order \in [v3 : BOOLEAN, v2 : BOOLEAN]
  BY FlashArbConstants DEF FirstOwner, Init
<1>2. PICK w : /\ chain = <<w>> /\ DOMAIN w = Fields /\ w.r = StartReserves
               /\ w.held = [t \in Tokens |-> 0] /\ w.given = [t \in Tokens |-> 0]
               /\ w.wallet = [a \in Accounts |-> 0] /\ w.owner = FirstOwner
               /\ w.price = Q96 /\ w.tick = GetTickAtSqrtRatio(Q96)
               /\ w.minted = {BaseRange} \union Others
  BY DEF Init, Fields
<1>3. PoolOK(w)
  <2>1. Q96 \in SqrtPrices /\ Q96 \in Int /\ MinSqrtRatio <= Q96
    BY FlashArbConstants, TickFacts DEF SqrtPrices, Positive
  <2>2. GetTickAtSqrtRatio(Q96) \in Int
    BY <2>1, TickOfPrice, TickFacts
  <2> QED
    BY <1>2, <2>1, <2>2 DEF PoolOK, Ranges
<1>6. Fine(w)
  BY <1>1, <1>2, <1>3, FlashArbConstants DEF Fine, Shape, Positive, Accounts
<1>4. chain \in Seq({w}) /\ Len(chain) = 1 /\ chain[1] = w
  BY <1>2
<1>5. RefusedBeforeMoving
  BY DEF Init, RefusedBeforeMoving
<1> QED
  BY <1>1, <1>4, <1>5, <1>6 DEF FlashInv

\* What a step may do to the wallets: the body of OwnerIsPaid.
WalletStep ==
  chain' # chain =>
    /\ Len(chain') \in Nat
    /\ Len(chain') > 1 => Wallets(sent', chain[Len(chain') - 1], chain'[Len(chain')])

LEMMA MineOK ==
    ASSUME FlashInv, NEW tx \in Transactions(Tip), Mine(tx)
    PROVE  FlashInv' /\ WalletStep
<1>1. PICK S : chain \in Seq(S)
  BY DEF FlashInv
<1>2. Len(chain) \in Nat /\ Len(chain) >= 1 /\ Len(chain) \in 1..Len(chain)
  BY <1>1 DEF FlashInv
<1>3. /\ Fine(Tip) /\ order \in [v3 : BOOLEAN, v2 : BOOLEAN]
      /\ \A n \in 1..Len(chain) : Fine(chain[n])
  BY <1>2 DEF FlashInv, Tip
<1>4. Include(Tip, tx, Len(chain) + 1, chain) /\ order' = order
  BY DEF Mine
<1>5. /\ (\E T : chain' \in Seq(T)) /\ Len(chain') = Len(chain) + 1
      /\ \A n \in 1..Len(chain') : Fine(chain'[n])
      /\ RefusedBeforeMoving' /\ Wallets(sent', Tip, chain'[Len(chain')])
  BY <1>1, <1>3, <1>4, IncludeOK
<1>6. FlashInv'
  BY <1>2, <1>3, <1>4, <1>5 DEF FlashInv
<1>7. WalletStep
  <2>1. Tip = chain[Len(chain') - 1] /\ Len(chain') \in Nat
    BY <1>2, <1>5 DEF Tip
  <2> QED
    BY <1>5, <2>1 DEF WalletStep
<1> QED
  BY <1>6, <1>7

LEMMA ReorgOK ==
    ASSUME FlashInv, Len(chain) > 1,
           NEW tx \in Transactions(chain[Len(chain) - 1]), Reorg(tx)
    PROVE  FlashInv' /\ WalletStep
<1> DEFINE w == chain[Len(chain) - 1]
           before == Front(chain)
<1>1. PICK S : chain \in Seq(S)
  BY DEF FlashInv
<1>2. Len(chain) \in Nat /\ Len(chain) - 1 \in 1..Len(chain)
  BY <1>1
<1>3. /\ Fine(w) /\ order \in [v3 : BOOLEAN, v2 : BOOLEAN]
  BY <1>2 DEF FlashInv
<1>4. /\ before \in Seq(S) /\ Len(before) = Len(chain) - 1
      /\ \A n \in 1..Len(before) : before[n] = chain[n]
  BY <1>1, <1>2 DEF Front
<1>5. \A n \in 1..Len(before) : Fine(before[n])
  BY <1>2, <1>4 DEF FlashInv
<1>6. Include(w, tx, Len(chain), before) /\ order' = order
  BY DEF Reorg
<1>7. tx \in Transactions(w)
  OBVIOUS
<1> HIDE DEF w, before
<1>8. /\ (\E T : chain' \in Seq(T)) /\ Len(chain') = Len(before) + 1
      /\ \A n \in 1..Len(chain') : Fine(chain'[n])
      /\ RefusedBeforeMoving' /\ Wallets(sent', w, chain'[Len(chain')])
  BY <1>3, <1>4, <1>5, <1>6, <1>7, IncludeOK
<1>9. Len(chain') = Len(chain) /\ Len(chain') \in Nat /\ Len(chain') >= 1
  BY <1>2, <1>4, <1>8
<1>10. FlashInv'
  BY <1>3, <1>6, <1>8, <1>9 DEF FlashInv
<1>11. WalletStep
  BY <1>8, <1>9 DEF WalletStep, w
<1> QED
  BY <1>10, <1>11

\* The service only reads.
LEMMA ServiceOK ==
    ASSUME FlashInv, UNCHANGED <<order, chain, sent>>
    PROVE  FlashInv' /\ WalletStep
<1>1. RefusedBeforeMoving'
  BY DEF FlashInv, RefusedBeforeMoving
<1> QED
  BY <1>1 DEF FlashInv, WalletStep

LEMMA FlashStep ==
    ASSUME FlashInv, [Next]_vars
    PROVE  FlashInv' /\ WalletStep
<1>1. ASSUME NEW tx \in Transactions(Tip), Mine(tx) PROVE FlashInv' /\ WalletStep
  BY <1>1, MineOK
<1>2. ASSUME Len(chain) > 1, NEW tx \in Transactions(chain[Len(chain) - 1]), Reorg(tx)
      PROVE  FlashInv' /\ WalletStep
  BY <1>2, ReorgOK
<1>3. ASSUME NEW live, NEW refresh, RunStarts(live, refresh) PROVE FlashInv' /\ WalletStep
  <2>1. UNCHANGED <<order, chain, sent>>
    BY <1>3 DEF RunStarts
  <2> QED
    BY <2>1, ServiceOK
<1>4. CASE ReadAndScan
  <2>1. UNCHANGED <<order, chain, sent>>
    BY <1>4 DEF ReadAndScan
  <2> QED
    BY <2>1, ServiceOK
<1>5. CASE SimulateAndRecord
  <2>1. UNCHANGED <<order, chain, sent>>
    BY <1>5 DEF SimulateAndRecord
  <2> QED
    BY <2>1, ServiceOK
<1>6. ASSUME NEW why, RunFails(why) PROVE FlashInv' /\ WalletStep
  <2>1. UNCHANGED <<order, chain, sent>>
    BY <1>6 DEF RunFails
  <2> QED
    BY <2>1, ServiceOK
<1>7. CASE UNCHANGED vars
  <2>1. UNCHANGED <<order, chain, sent>>
    BY <1>7 DEF vars
  <2> QED
    BY <2>1, ServiceOK
<1> QED
  BY <1>1, <1>2, <1>3, <1>4, <1>5, <1>6, <1>7 DEF Next

-----------------------------------------------------------------------------
\* The service and its estimates.

ReservesOf(w) == [usdc |-> Reserve(w, "usdc"), weth |-> Reserve(w, "weth")]

\* The snapshot holds the state w; what it holds of the ticks was loaded there.
Reads(snap, w) ==
  /\ snap.price = w.price /\ snap.tick = w.tick /\ snap.liq = LiquidityOf(w)
  /\ snap.current => snap.window = LoadWindow(w, WindowWords)

\* The candidate is what the scanner computes from the snapshot and the pair in w.
Estimated(cand, snap, w) ==
  /\ cand.exact => snap.current
  /\ cand.leg # None
  /\ cand.leg = Evaluate(cand.direction, cand.amount, snap, ReservesOf(w))
  /\ cand.optimal => cand.leg.profit > 0

\* The search found a size, and the contract can make a trade without a profit: the
\* legs move tokens and the simulator's subsidy covers the loss.
Simulable ==
  svc.result # None =>
    LET leg == svc.result.cand.leg
    IN  /\ svc.result.cand.amount \in Nat
        /\ \/ svc.result.cand.optimal
           \/ leg.v3Out > 0 /\ leg.v2Out > 0 /\ leg.profit + Subsidy >= 0

Steady == ~svc.forked

\* While no reorganisation has touched its block, the snapshot still is the block of
\* its number, and the candidate is what the scanner made of it.
Pinned ==
  svc.pc # "idle" /\ Steady =>
    /\ svc.snap.block \in 1..Len(chain)
    /\ Reads(svc.snap, chain[svc.snap.block])
    /\ svc.pc = "simulate" => Estimated(svc.cand, svc.snap, chain[svc.snap.block])

ServiceFields == {"pc", "calls", "state", "lastBlock", "window", "snap", "cand", "ready",
                  "result", "forked"}

ServiceInv ==
  /\ DOMAIN svc = ServiceFields
  /\ svc.pc = "idle" => Steady
  /\ Pinned
  /\ Simulable => EstimateIsExact

\* The first tick of a word's position is in that word.
LEMMA WordOfMultiple ==
    ASSUME NEW c \in Int
    PROVE  c * Spacing \in Int /\ WordPositionForTick(c * Spacing, Spacing) = WordOf(c)
<1>1. Spacing \in Positive /\ Spacing \in Int
  BY SpacingFacts DEF Positive
<1>2. c * Spacing \in Int /\ c * Spacing = Spacing * c /\ Spacing * (c + 1) = Spacing * c + Spacing
  BY <1>1
<1>3. (c * Spacing) \div Spacing \in Int
  BY <1>1, <1>2, DivBound
<1>4. c <= (c * Spacing) \div Spacing
  BY <1>1, <1>2, DivLargest
<1>5. ~(c + 1 <= (c * Spacing) \div Spacing)
  <2>1. ~(Spacing * (c + 1) <= c * Spacing)
    BY <1>1, <1>2 DEF Positive
  <2> QED
    BY <1>1, <1>2, <2>1, DivLargest
<1>6. (c * Spacing) \div Spacing = c
  BY <1>3, <1>4, <1>5
<1> QED
  BY <1>2, <1>6 DEF WordPositionForTick, Compress

\* The pool's own window holds the one that is loaded.
LEMMA WindowsWithin ==
    ASSUME NEW w, PoolOK(w), NEW span \in Nat, NEW wide \in Nat, span <= wide
    PROVE  Within(LoadWindow(w, span), LoadWindow(w, wide))
<1> DEFINE small == LoadWindow(w, span)
           big == LoadWindow(w, wide)
           center == WordPositionForTick(w.tick, Spacing)
<1>1. center \in Int
  BY WordType DEF PoolOK
<1>2. /\ small.minWord = center - span /\ small.maxWord = center + span
      /\ small.spacing = Spacing /\ small.ticks = Loaded(w, span)
      /\ DOMAIN small.infos = Loaded(w, span)
      /\ \A t \in Loaded(w, span) : small.infos[t] = Net(w, t)
  BY WindowFields
<1>3. /\ big.minWord = center - wide /\ big.maxWord = center + wide
      /\ big.spacing = Spacing /\ big.ticks = Loaded(w, wide)
      /\ DOMAIN big.infos = Loaded(w, wide)
      /\ \A t \in Loaded(w, wide) : big.infos[t] = Net(w, t)
  BY WindowFields
<1> HIDE DEF small, big
<1>4. \A s \in Nat : \A t : t \in Loaded(w, s) <=>
        t \in Initialized(w) /\ WordPositionForTick(t, Spacing) \in center - s .. center + s
  BY DEF Loaded
<1> HIDE DEF center
<1>5. ASSUME NEW t \in Loaded(w, span) PROVE t \in Loaded(w, wide)
  <2>1. t \in Initialized(w) /\ WordPositionForTick(t, Spacing) \in center - span .. center + span
    BY <1>4
  <2>2. center - span .. center + span \subseteq center - wide .. center + wide
    BY <1>1
  <2> QED
    BY <1>4, <2>1, <2>2
<1>6. ASSUME NEW c \in Int, center - span <= WordOf(c), WordOf(c) <= center + span
      PROVE  c * Spacing \in Loaded(w, span) <=> c * Spacing \in Loaded(w, wide)
  <2>1. WordPositionForTick(c * Spacing, Spacing) = WordOf(c) /\ WordOf(c) \in Int
    BY WordOfMultiple, MathWidths, DivBound DEF WordOf
  <2>2. WordOf(c) \in center - span .. center + span
    BY <1>1, <1>6, <2>1
  <2> QED
    BY <1>4, <1>5, <2>1, <2>2
<1>7. Within(small, big)
  BY <1>1, <1>2, <1>3, <1>5, <1>6 DEF Within
<1> QED
  BY <1>7 DEF small, big

\* What the scanner computes for an exact snapshot, when it computes something, is about
\* the very swap of the pool.
LEMMA EvaluateIs ==
    ASSUME NEW w, PoolOK(w), NEW snap, Reads(snap, w), snap.current, NEW amount \in Nat,
           NEW direction, NEW reserves, order \in [v3 : BOOLEAN, v2 : BOOLEAN],
           Evaluate(direction, amount, snap, reserves) # None
    PROVE  LET q == PoolSwap(w, (direction = "v3_to_v2") = order.v3, amount)
           IN  /\ q.in = amount /\ amount > 0
               /\ Evaluate(direction, amount, snap, reserves)
                    = IF direction = "v3_to_v2" THEN ForwardLeg(amount, q.out, reserves)
                                                ELSE BackwardLeg(amount, q.out, reserves)
<1> DEFINE zeroForOne == (direction = "v3_to_v2") = order.v3
           state == [price |-> snap.price, tick |-> snap.tick, liquidity |-> snap.liq,
                     fee |-> FeePips]
           small == LoadWindow(w, WindowWords)
           big == LoadWindow(w, 2 * MaxTick)
           quote == SimulateExactInput(state, snap.window, zeroForOne, amount)
<1>1. Evaluate(direction, amount, snap, reserves) =
        IF snap.window = None \/ amount <= 0 THEN None
        ELSE IF quote.reason # "none" \/ quote.in # amount THEN None
        ELSE IF direction = "v3_to_v2" THEN ForwardLeg(amount, quote.out, reserves)
                                       ELSE BackwardLeg(amount, quote.out, reserves)
  BY DEF Evaluate
<1>2. state = PoolState(w) /\ snap.window = small
  BY DEF Reads, PoolState
<1>3. WindowWords \in Nat /\ 2 * MaxTick \in Nat /\ WindowWords <= 2 * MaxTick
  BY FlashArbConstants, MathWidths
<1>4. StateOK(state) /\ WindowOK(small) /\ WindowOK(big) /\ Within(small, big)
  BY <1>2, <1>3, PoolStateOK, WindowType, WindowsWithin
<1>5. zeroForOne \in BOOLEAN /\ amount \in Int
  OBVIOUS
<1>6. PoolSwap(w, zeroForOne, amount) = SimulateExactInput(state, big, zeroForOne, amount)
  BY <1>2 DEF PoolSwap, PoolSwapTo, SimulateExactInput
<1>7. quote = SimulateExactInput(state, small, zeroForOne, amount)
  BY <1>2
<1> HIDE DEF zeroForOne, state, small, big, quote
<1>8. quote.reason = "none" /\ quote.in = amount /\ ~(amount <= 0)
  BY <1>1
<1>9. PoolSwap(w, zeroForOne, amount) = quote
  BY <1>4, <1>5, <1>6, <1>7, <1>8, SimulateAgrees
<1>10. amount > 0
  BY <1>8
<1> QED
  BY <1>1, <1>8, <1>9, <1>10 DEF zeroForOne

\* A swap depends on the pool alone.
LEMMA SamePool ==
    ASSUME NEW u, NEW w, u.price = w.price, u.tick = w.tick, u.minted = w.minted,
           NEW zeroForOne, NEW amount
    PROVE  PoolSwap(u, zeroForOne, amount) = PoolSwap(w, zeroForOne, amount)
<1>1. LiquidityOf(u) = LiquidityOf(w) /\ Initialized(u) = Initialized(w)
  BY DEF LiquidityOf, Initialized
<1>2. \A t : Net(u, t) = Net(w, t) /\ Gross(u, t) = Gross(w, t)
  BY DEF Net, Gross
<1>3. LoadWindow(u, 2 * MaxTick) = LoadWindow(w, 2 * MaxTick)
  BY <1>1, <1>2 DEF LoadWindow
<1>4. PoolState(u) = PoolState(w)
  BY <1>1 DEF PoolState
<1> QED
  BY <1>3, <1>4 DEF PoolSwap, PoolSwapTo

\* The state a simulation runs on.
LEMMA OverriddenOK ==
    ASSUME NEW w, Shape(w)
    PROVE  LET u == Overridden(w)
           IN  /\ Shape(u) /\ u.owner = SimOwner /\ u.held["usdc"] = Subsidy /\ u.held["weth"] = 0
               /\ u.price = w.price /\ u.tick = w.tick /\ u.minted = w.minted /\ u.r = w.r
<1> DEFINE held == [usdc |-> Subsidy, weth |-> 0]
           u == [w EXCEPT !.owner = SimOwner, !.held = held]
<1>1. held \in [Tokens -> Nat] /\ held["usdc"] = Subsidy /\ held["weth"] = 0
  <2>1. Subsidy \in Nat
    BY FlashArbConstants
  <2> QED
    BY <2>1 DEF Tokens
<1>2. Overridden(w) = u
  BY DEF Overridden
<1> HIDE DEF held
<1>3. /\ DOMAIN u = Fields /\ u.owner = SimOwner /\ u.held = held /\ u.price = w.price
      /\ u.tick = w.tick /\ u.minted = w.minted /\ u.r = w.r /\ u.wallet = w.wallet
  BY DEF Shape, Fields
<1> HIDE DEF u
<1>4. Shape(u)
  BY <1>1, <1>3 DEF Shape, PoolOK, Accounts
<1> QED
  BY <1>1, <1>2, <1>3, <1>4

\* What the call reports is what was estimated.
Reported(t, leg, amount) ==
  /\ t.error = "none" /\ t.profit = leg.profit /\ t.v3In = amount /\ t.v3Out = leg.v3Out
  /\ t.v2In = leg.v2In /\ t.v2Out = leg.v2Out

\* The legs move tokens, and the subsidy covers a loss.
Feasible(leg) == leg.v3Out > 0 /\ leg.v2Out > 0 /\ leg.profit + Subsidy >= 0

LEMMA LegIs ==
    ASSUME NEW profit, NEW v3Out, NEW v2In, NEW v2Out
    PROVE  LET leg == Leg(profit, v3Out, v2In, v2Out)
           IN  leg.profit = profit /\ leg.v3Out = v3Out /\ leg.v2In = v2In /\ leg.v2Out = v2Out
BY DEF Leg

\* A loss is not paid out, and a profit can be.
LEMMA PaymentEnds ==
    ASSUME NEW w, Shape(w), NEW req, NEW profit \in Int, profit <= w.held["usdc"]
    PROVE  PayOwner(w, req, profit).error = "none"
<1>1. CASE profit <= 0
  <2>1. PayOwner(w, req, profit) = Ok(w)
    BY <1>1 DEF PayOwner
  <2> QED
    BY <2>1 DEF Ok
<1>2. CASE ~(profit <= 0)
  <2> DEFINE p == profit
  <2>1. p \in Nat /\ p <= w.held["usdc"]
    BY <1>2
  <2> HIDE DEF p
  <2>2. LET s == PayOwner(w, req, p)
        IN  /\ s.error = "none" /\ Shape(s.w) /\ s.w.given = w.given /\ s.w.owner = w.owner
            /\ s.w.held = [w.held EXCEPT !["usdc"] = w.held["usdc"] - p]
            /\ s.w.wallet = [w.wallet EXCEPT ![w.owner] = w.wallet[w.owner] + p]
    BY <2>1, PayOwnerOK
  <2> QED
    BY <2>2 DEF p
<1> QED
  BY <1>1, <1>2

\* A simulated trade ends once the callback has.
LEMMA SimulationEnds ==
    ASSUME NEW c, NEW req, NEW v3In \in Int, NEW v3Out, c.error = "none", Shape(c.w),
           c.paid = v3In, c.profit \in Int, c.profit <= c.w.held["usdc"]
    PROVE  LET t == Ends(c, req, v3In, v3Out)
           IN  /\ t.error = "none" /\ t.profit = c.profit /\ t.v3In = v3In /\ t.v3Out = v3Out
               /\ t.v2In = c.v2In /\ t.v2Out = c.v2Out
<1> DEFINE u == c.w
           profit == c.profit
           s == PayOwner(u, req, profit)
<1>1. Ends(c, req, v3In, v3Out) = Traded(s, v3In, v3Out, c)
  BY DEF Ends, Then
<1>2. Shape(u) /\ profit \in Int /\ profit <= u.held["usdc"]
  OBVIOUS
<1> HIDE DEF u, profit
<1>3. s.error = "none"
  BY <1>2, PaymentEnds
<1> HIDE DEF s
<1> QED
  BY <1>1, <1>3 DEF Traded

\* A trade: the pool's answer, the callback and its end.
LEMMA ForwardTrade ==
    ASSUME NEW u, NEW req, NEW phase, req.amount # 0, req.direction = "v3_to_v2"
    PROVE  LET p == PoolSwap(u, (req.direction = "v3_to_v2") = order.v3, req.amount)
           IN  Trade(u, req, phase)
                 = Ends(Callback(Sends(u, p, "weth"), phase, req, p.in, -p.out), req, p.in, p.out)
BY DEF Trade, Ends, Sends

LEMMA BackwardTrade ==
    ASSUME NEW u, NEW req, NEW phase, req.amount # 0, req.direction # "v3_to_v2"
    PROVE  LET p == PoolSwap(u, (req.direction = "v3_to_v2") = order.v3, req.amount)
           IN  Trade(u, req, phase)
                 = Ends(Callback(Sends(u, p, "usdc"), phase, req, -p.out, p.in), req, p.in, p.out)
BY DEF Trade, Ends, Sends

\* The simulated trade of v3_to_v2, from the pool's answer on.
LEMMA ForwardSimulation ==
    ASSUME NEW u, Shape(u), u.held["usdc"] = Subsidy, u.held["weth"] = 0,
           order \in [v3 : BOOLEAN, v2 : BOOLEAN], NEW req, req.direction = "v3_to_v2",
           NEW amount \in Positive, req.amount = amount,
           NEW q, q = PoolSwap(u, (req.direction = "v3_to_v2") = order.v3, req.amount), Answered(q),
           q.in = amount,
           ForwardLeg(amount, q.out, ReservesOf(u)) # None,
           ForwardLeg(amount, q.out, ReservesOf(u)).profit > 0
             \/ Feasible(ForwardLeg(amount, q.out, ReservesOf(u)))
    PROVE  Reported(Trade(u, req, "simulate"), ForwardLeg(amount, q.out, ReservesOf(u)), amount)
<1> DEFINE v == Sends(u, q, "weth")
           got == q.out
           rIn == Reserve(u, "weth")
           rOut == Reserve(u, "usdc")
           out == (got * V2FeeNum * rOut) \div (rIn * V2FeeDen + got * V2FeeNum)
           profit == out - amount
           leg == ForwardLeg(amount, got, ReservesOf(u))
           c == Callback(v, "simulate", req, amount, -got)
           s == SecondLeg(v, TRUE, got, out, amount)
<1>0. "usdc" \in Tokens /\ "weth" \in Tokens /\ got \in Int /\ Subsidy \in Nat
  BY FlashArbConstants DEF Tokens, Answered
<1>1. rIn \in Positive /\ rOut \in Positive
  BY ReservesOK DEF Tokens
<1>2. ReservesOf(u).weth = rIn /\ ReservesOf(u).usdc = rOut
  BY DEF ReservesOf
<1>3. HasAmountOut(got, rIn, rOut)
  BY <1>2 DEF ForwardLeg
<1>4. leg = Leg(profit, got, got, out)
  BY <1>2, <1>3 DEF ForwardLeg, GetAmountOut
<1>5. got \in Positive
  BY <1>0, <1>3 DEF HasAmountOut, Positive
<1>6. /\ Shape(v) /\ v.held = [u.held EXCEPT !["weth"] = u.held["weth"] + q.out]
      /\ Reserve(v, "weth") = rIn /\ Reserve(v, "usdc") = rOut
  <2>1. v.held = [u.held EXCEPT !["weth"] = u.held["weth"] + q.out] /\ Shape(v)
    BY <1>0, <1>5, PoolSends DEF Positive
  <2>2. v.r = u.r
    BY DEF Sends, Shape, Fields
  <2> HIDE DEF v
  <2> QED
    BY <2>1, <2>2 DEF Reserve
<1>7. Trade(u, req, "simulate") = Ends(c, req, amount, got)
  <2> DEFINE p == PoolSwap(u, (req.direction = "v3_to_v2") = order.v3, req.amount)
  <2>1. req.amount # 0 /\ p = q
    BY DEF Positive
  <2>2. Trade(u, req, "simulate")
          = Ends(Callback(Sends(u, p, "weth"), "simulate", req, p.in, -p.out), req, p.in, p.out)
    BY <2>1, ForwardTrade
  <2> HIDE DEF p
  <2> QED
    BY <2>1, <2>2
<1>8. -(-got) = got /\ ~(amount <= 0) /\ ~(got <= 0) /\ amount \in Int
  BY <1>5 DEF Positive
<1> HIDE DEF v, leg
<1>9. c = LegResult(s, profit, got, out, amount)
  <2>1. got # 0 /\ rIn # 0 /\ rOut # 0
    BY <1>1, <1>5 DEF Positive
  <2>2. QuoteOut(got, Reserve(v, "weth"), Reserve(v, "usdc")) = [error |-> "none", value |-> out]
    BY <1>6, <2>1 DEF QuoteOut
  <2>3. c = QuotedLeg(v, "simulate", req, TRUE, amount, got, [error |-> "none", value |-> out])
    BY <1>8, <2>2 DEF Callback
  <2> QED
    BY <2>3 DEF QuotedLeg, ProfitableLeg, CheckProfit
<1> HIDE DEF c
<1>10. out \in Nat /\ PairAccepts(rIn, rOut, got, out)
  <2> HIDE DEF rIn, rOut, got
  <2> QED
    BY <1>1, <1>5, OutIsAccepted
<1> HIDE DEF out, rIn, rOut
<1>11. leg.profit = profit /\ leg.v3Out = got /\ leg.v2In = got /\ leg.v2Out = out
  <2> HIDE DEF got, profit
  <2> QED
    BY <1>4, LegIs
<1>12. profit \in Int /\ out \in Positive /\ profit + Subsidy >= 0
  BY <1>0, <1>8, <1>10, <1>11 DEF Feasible, Positive, leg
<1>13. v.held["weth"] = got /\ v.held["usdc"] = Subsidy
  BY <1>0, <1>6 DEF Shape
<1>14. Leaves(s, v, v.held["weth"] - got, v.held["usdc"] + profit)
  <2>1. amount <= v.held["usdc"] + out /\ got <= v.held["weth"]
    BY <1>0, <1>8, <1>12, <1>13 DEF Positive
  <2> HIDE DEF got, s
  <2> QED
    BY <1>5, <1>6, <1>10, <1>12, <2>1, ForwardLegOK DEF s
<1> HIDE DEF s
<1>15. c.error = "none" /\ Shape(c.w) /\ c.paid = amount /\ c.profit = profit
       /\ c.v2In = got /\ c.v2Out = out /\ c.w.held["usdc"] = Subsidy + profit
  BY <1>9, <1>13, <1>14 DEF LegResult, Leaves
<1> HIDE DEF profit, got
<1>16. c.profit \in Int /\ c.profit <= c.w.held["usdc"]
  BY <1>0, <1>12, <1>15
<1> QED
  BY <1>7, <1>8, <1>11, <1>15, <1>16, SimulationEnds DEF Reported, leg, got

\* The same for v2_to_v3.
LEMMA BackwardSimulation ==
    ASSUME NEW u, Shape(u), u.held["usdc"] = Subsidy, u.held["weth"] = 0,
           order \in [v3 : BOOLEAN, v2 : BOOLEAN], NEW req, req.direction # "v3_to_v2",
           NEW amount \in Positive, req.amount = amount,
           NEW q, q = PoolSwap(u, (req.direction = "v3_to_v2") = order.v3, req.amount), Answered(q),
           q.in = amount,
           BackwardLeg(amount, q.out, ReservesOf(u)) # None,
           BackwardLeg(amount, q.out, ReservesOf(u)).profit > 0
             \/ Feasible(BackwardLeg(amount, q.out, ReservesOf(u)))
    PROVE  Reported(Trade(u, req, "simulate"), BackwardLeg(amount, q.out, ReservesOf(u)), amount)
<1> DEFINE v == Sends(u, q, "usdc")
           got == q.out
           rIn == Reserve(u, "usdc")
           rOut == Reserve(u, "weth")
           in == (rIn * amount * V2FeeDen) \div ((rOut - amount) * V2FeeNum) + 1
           profit == got - in
           leg == BackwardLeg(amount, got, ReservesOf(u))
           c == Callback(v, "simulate", req, -got, amount)
           s == SecondLeg(v, FALSE, in, amount, amount)
<1>0. "usdc" \in Tokens /\ "weth" \in Tokens /\ got \in Int /\ Subsidy \in Nat
  BY FlashArbConstants DEF Tokens, Answered
<1>1. rIn \in Positive /\ rOut \in Positive
  BY ReservesOK DEF Tokens
<1>2. ReservesOf(u).weth = rOut /\ ReservesOf(u).usdc = rIn
  BY DEF ReservesOf
<1>3. HasAmountIn(amount, rIn, rOut)
  BY <1>2 DEF BackwardLeg
<1>4. leg = Leg(profit, got, in, amount)
  BY <1>2, <1>3 DEF BackwardLeg, GetAmountIn
<1>5. amount < rOut
  BY <1>3 DEF HasAmountIn
<1>6. in \in Positive /\ PairAccepts(rIn, rOut, in, amount)
  <2> HIDE DEF rIn, rOut
  <2> QED
    BY <1>1, <1>5, InIsAccepted
<1> HIDE DEF leg
<1>7. leg.profit = profit /\ leg.v3Out = got /\ leg.v2In = in /\ leg.v2Out = amount
  <2> HIDE DEF got, profit, in
  <2> QED
    BY <1>4, LegIs
<1>8. /\ profit \in Int /\ got \in Positive /\ profit + Subsidy >= 0
      /\ amount \in Int /\ ~(amount <= 0) /\ ~(got <= 0) /\ -(-got) = got
  <2> HIDE DEF in
  <2> QED
    BY <1>0, <1>6, <1>7 DEF Feasible, Positive, leg
<1>9. /\ Shape(v) /\ v.held = [u.held EXCEPT !["usdc"] = u.held["usdc"] + q.out]
      /\ Reserve(v, "weth") = rOut /\ Reserve(v, "usdc") = rIn
  <2>1. v.held = [u.held EXCEPT !["usdc"] = u.held["usdc"] + q.out] /\ Shape(v)
    BY <1>0, <1>8, PoolSends DEF Positive
  <2>2. v.r = u.r
    BY DEF Sends, Shape, Fields
  <2> HIDE DEF v
  <2> QED
    BY <2>1, <2>2 DEF Reserve
<1>10. Trade(u, req, "simulate") = Ends(c, req, amount, got)
  <2> DEFINE p == PoolSwap(u, (req.direction = "v3_to_v2") = order.v3, req.amount)
  <2>1. req.amount # 0 /\ p = q
    BY DEF Positive
  <2>2. Trade(u, req, "simulate")
          = Ends(Callback(Sends(u, p, "usdc"), "simulate", req, -p.out, p.in), req, p.in, p.out)
    BY <2>1, BackwardTrade
  <2> HIDE DEF p
  <2> QED
    BY <2>1, <2>2
<1> HIDE DEF v
<1>11. c = LegResult(s, profit, in, amount, amount)
  <2>1. amount # 0 /\ rIn # 0 /\ ~(amount >= rOut)
    BY <1>1, <1>5 DEF Positive
  <2>2. QuoteIn(amount, Reserve(v, "usdc"), Reserve(v, "weth")) = [error |-> "none", value |-> in]
    BY <1>9, <2>1 DEF QuoteIn
  <2> HIDE DEF in
  <2>3. c = QuotedLeg(v, "simulate", req, FALSE, amount, got, [error |-> "none", value |-> in])
    BY <1>8, <2>2 DEF Callback
  <2> QED
    BY <2>3 DEF QuotedLeg, ProfitableLeg, CheckProfit
<1> HIDE DEF c, in, rIn, rOut
<1>12. v.held["weth"] = 0 /\ v.held["usdc"] = Subsidy + got
  BY <1>0, <1>9 DEF Shape
<1>13. Leaves(s, v, v.held["weth"], v.held["usdc"] - in)
  <2>1. in <= v.held["usdc"]
    BY <1>0, <1>6, <1>8, <1>12 DEF Positive
  <2> HIDE DEF s
  <2> QED
    BY <1>6, <1>9, <2>1, BackwardLegOK DEF s
<1> HIDE DEF s
<1>14. c.error = "none" /\ Shape(c.w) /\ c.paid = amount /\ c.profit = profit
       /\ c.v2In = in /\ c.v2Out = amount /\ c.w.held["usdc"] = v.held["usdc"] - in
  <2> HIDE DEF profit
  <2> QED
    BY <1>11, <1>13 DEF LegResult, Leaves
<1>15. c.profit \in Int /\ c.profit <= c.w.held["usdc"]
  BY <1>0, <1>6, <1>8, <1>12, <1>14 DEF Positive
<1> HIDE DEF profit, got
<1> QED
  BY <1>7, <1>8, <1>10, <1>14, <1>15, SimulationEnds DEF Reported, leg, got

\* The call reports what the scanner computed on the block it runs on.
LEMMA SimulationReports ==
    ASSUME NEW w, Shape(w), order \in [v3 : BOOLEAN, v2 : BOOLEAN], NEW snap, Reads(snap, w),
           snap.current, NEW direction, NEW amount \in Nat, NEW leg, leg # None,
           leg = Evaluate(direction, amount, snap, ReservesOf(w)),
           leg.profit > 0 \/ Feasible(leg)
    PROVE  Reported(Trade(Overridden(w), [direction |-> direction, amount |-> amount,
                                          minProfit |-> 0], "simulate"), leg, amount)
<1> DEFINE u == Overridden(w)
           req == [direction |-> direction, amount |-> amount, minProfit |-> 0]
           zeroForOne == (direction = "v3_to_v2") = order.v3
           q == PoolSwap(w, zeroForOne, amount)
<1>1. /\ Shape(u) /\ u.held["usdc"] = Subsidy /\ u.held["weth"] = 0 /\ PoolOK(w)
      /\ u.price = w.price /\ u.tick = w.tick /\ u.minted = w.minted /\ u.r = w.r
  BY OverriddenOK DEF Shape
<1>2. /\ q.in = amount /\ amount > 0
      /\ leg = IF direction = "v3_to_v2" THEN ForwardLeg(amount, q.out, ReservesOf(w))
                                         ELSE BackwardLeg(amount, q.out, ReservesOf(w))
  BY <1>1, EvaluateIs
<1> HIDE DEF u
<1>3. ReservesOf(u) = ReservesOf(w)
  BY <1>1 DEF ReservesOf, Reserve
<1>4. PoolSwap(u, zeroForOne, amount) = q
  BY <1>1, SamePool
<1>5. Answered(q)
  <2>1. zeroForOne \in BOOLEAN /\ amount \in Int
    OBVIOUS
  <2> HIDE DEF zeroForOne
  <2> QED
    BY <1>1, <2>1, PoolAnswers
<1>6. req.direction = direction /\ req.amount = amount /\ amount \in Positive
  BY <1>2 DEF Positive
<1>7. q = PoolSwap(u, (req.direction = "v3_to_v2") = order.v3, req.amount)
  BY <1>4
<1> HIDE DEF q, zeroForOne, req
<1>8. CASE direction = "v3_to_v2"
  <2>1. leg = ForwardLeg(amount, q.out, ReservesOf(u))
    BY <1>2, <1>3, <1>8
  <2> QED
    BY <1>1, <1>2, <1>5, <1>6, <1>7, <1>8, <2>1, ForwardSimulation DEF u, req
<1>9. CASE direction # "v3_to_v2"
  <2>1. leg = BackwardLeg(amount, q.out, ReservesOf(u))
    BY <1>2, <1>3, <1>9
  <2> QED
    BY <1>1, <1>2, <1>5, <1>6, <1>7, <1>9, <2>1, BackwardSimulation DEF u, req
<1> QED
  BY <1>8, <1>9

\* What the service is told.
Told(raw, leg, amount) ==
  /\ raw.error = "SimulationResult" /\ raw.profit = leg.profit /\ raw.v3In = amount
  /\ raw.v3Out = leg.v3Out /\ raw.v2In = leg.v2In /\ raw.v2Out = leg.v2Out

LEMMA CallTells ==
    ASSUME NEW w, NEW sender, sender = w.owner, NEW req, NEW leg, NEW amount,
           Reported(Trade(w, req, "simulate"), leg, amount)
    PROVE  Told(SimulateCall(w, sender, req), leg, amount)
<1> DEFINE t == Trade(w, req, "simulate")
           raw == [error |-> "SimulationResult", profit |-> t.profit, v3In |-> t.v3In,
                   v3Out |-> t.v3Out, v2In |-> t.v2In, v2Out |-> t.v2Out]
<1>1. SimulateCall(w, sender, req) = raw
  BY DEF SimulateCall, Reported
<1>2. Reported(t, leg, amount)
  OBVIOUS
<1> HIDE DEF t
<1>3. Told(raw, leg, amount)
  BY <1>2 DEF Reported, Told
<1> QED
  BY <1>1, <1>3

\* The scanner's candidate is its own estimate.
LEMMA CandidateIs ==
    ASSUME NEW snap, NEW direction, NEW amount, NEW optimal, NEW leg,
           Candidate(snap, direction, amount, optimal, leg) # None
    PROVE  LET cand == Candidate(snap, direction, amount, optimal, leg)
           IN  /\ leg # None /\ cand.leg = leg /\ cand.direction = direction
               /\ cand.amount = amount /\ cand.optimal = optimal /\ cand.exact = snap.current
BY DEF Candidate

LEMMA ScanEstimates ==
    ASSUME NEW snap, NEW w, NEW cand, cand = ScanDexArb(snap, ReservesOf(w)), cand # None
    PROVE  Estimated(cand, snap, w)
<1> DEFINE reserves == ReservesOf(w)
           price == V3Price(snap)
           direction == IF price[1] * reserves.weth < reserves.usdc * price[2]
                        THEN "v3_to_v2" ELSE "v2_to_v3"
           size == BestSize(direction, snap, reserves)
           reference == ReferenceOf(direction, snap)
           Of(amount) == Evaluate(direction, amount, snap, reserves)
           yes == TRUE
           no == FALSE
<1>1. cand = IF Of(size) # None /\ Of(size).profit > 0
             THEN Candidate(snap, direction, size, yes, Of(size))
             ELSE Candidate(snap, direction, reference, no, Of(reference))
  BY DEF ScanDexArb
<1> HIDE DEF reserves, direction, size, reference, yes, no
<1>2. CASE Of(size) # None /\ Of(size).profit > 0
  <2>1. cand = Candidate(snap, direction, size, yes, Of(size))
    BY <1>1, <1>2
  <2>2. /\ cand.leg = Of(size) /\ cand.direction = direction /\ cand.amount = size
        /\ cand.exact = snap.current
    BY <2>1, CandidateIs
  <2> QED
    BY <1>2, <2>2 DEF Estimated, reserves
<1>3. CASE ~(Of(size) # None /\ Of(size).profit > 0)
  <2>1. cand = Candidate(snap, direction, reference, no, Of(reference))
    BY <1>1, <1>3
  <2>2. /\ cand.leg = Of(reference) /\ cand.direction = direction /\ cand.amount = reference
        /\ cand.exact = snap.current /\ cand.optimal = no /\ Of(reference) # None
    BY <2>1, CandidateIs
  <2> QED
    BY <2>2 DEF Estimated, reserves, no
<1> QED
  BY <1>2, <1>3

\* A block on top of others leaves those as they were.
LEMMA IncludeKeeps ==
    ASSUME NEW w, NEW tx, NEW number, NEW S, NEW before \in Seq(S),
           Include(w, tx, number, before)
    PROVE  Len(chain') = Len(before) + 1 /\ \A n \in 1..Len(before) : chain'[n] = before[n]
<1>1. PICK v : chain' = Append(before, v)
  BY DEF Include
<1> QED
  BY <1>1

\* What the service knows of a block stays true while the block does.
LEMMA PinnedStays ==
    ASSUME Pinned, order' = order, Len(chain) \in Nat, Len(chain') \in Nat,
           svc'.pc = svc.pc, svc'.snap = svc.snap, svc'.cand = svc.cand,
           svc.pc # "idle" /\ Steady' =>
             /\ Steady /\ svc.snap.block \in 1..Len(chain')
             /\ chain'[svc.snap.block] = chain[svc.snap.block]
    PROVE  Pinned'
<1> SUFFICES ASSUME svc'.pc # "idle", Steady'
             PROVE  (/\ svc.snap.block \in 1..Len(chain)
                     /\ Reads(svc.snap, chain[svc.snap.block])
                     /\ svc.pc = "simulate" => Estimated(svc.cand, svc.snap, chain[svc.snap.block]))'
  BY DEF Pinned
<1>1. /\ svc.pc # "idle" /\ Steady /\ svc.snap.block \in 1..Len(chain')
      /\ chain'[svc.snap.block] = chain[svc.snap.block]
  OBVIOUS
<1>2. /\ Reads(svc.snap, chain[svc.snap.block])
      /\ svc.pc = "simulate" => Estimated(svc.cand, svc.snap, chain[svc.snap.block])
  BY <1>1 DEF Pinned
<1>3. Reads(svc.snap, chain[svc.snap.block])'
  BY <1>1, <1>2 DEF Reads
<1>4. ASSUME svc.pc = "simulate" PROVE Estimated(svc.cand, svc.snap, chain[svc.snap.block])'
  BY <1>1, <1>2, <1>4 DEF Estimated, Evaluate, ReservesOf, Reserve
<1> QED
  BY <1>1, <1>3, <1>4

\* What was recorded stays as it is.
LEMMA ResultStays ==
    ASSUME Simulable => EstimateIsExact, svc'.result = svc.result
    PROVE  (Simulable => EstimateIsExact)'
BY DEF Simulable, EstimateIsExact

LEMMA ServiceStart == Init => ServiceInv
<1> SUFFICES ASSUME Init PROVE ServiceInv
  OBVIOUS
<1>1. svc = NewService
  BY DEF Init
<1>2. DOMAIN svc = ServiceFields /\ svc.pc = "idle" /\ svc.result = None /\ Steady
  BY <1>1 DEF NewService, ServiceFields, Steady
<1> QED
  BY <1>2 DEF ServiceInv, Pinned, Simulable, EstimateIsExact

LEMMA MineKeepsService ==
    ASSUME FlashInv, ServiceInv, NEW tx, Mine(tx)
    PROVE  ServiceInv'
<1>1. PICK S : chain \in Seq(S)
  BY DEF FlashInv
<1>2. Include(Tip, tx, Len(chain) + 1, chain) /\ order' = order /\ svc' = svc
  BY DEF Mine
<1>3. Len(chain') = Len(chain) + 1 /\ \A n \in 1..Len(chain) : chain'[n] = chain[n]
  BY <1>1, <1>2, IncludeKeeps
<1>4. Len(chain) \in Nat /\ Len(chain') \in Nat
  BY <1>1, <1>3
<1>5. Steady' <=> Steady
  BY <1>2 DEF Steady
<1>6. svc.pc # "idle" /\ Steady => svc.snap.block \in 1..Len(chain)
  BY DEF ServiceInv, Pinned
<1>7. Pinned'
  <2>1. svc.pc # "idle" /\ Steady' => /\ Steady /\ svc.snap.block \in 1..Len(chain')
                                      /\ chain'[svc.snap.block] = chain[svc.snap.block]
    BY <1>3, <1>4, <1>5, <1>6
  <2> QED
    BY <1>2, <1>4, <2>1, PinnedStays DEF ServiceInv
<1>8. (Simulable => EstimateIsExact)'
  BY <1>2, ResultStays DEF ServiceInv
<1> QED
  BY <1>2, <1>5, <1>7, <1>8 DEF ServiceInv

LEMMA ReorgKeepsService ==
    ASSUME FlashInv, ServiceInv, Len(chain) > 1, NEW tx, Reorg(tx)
    PROVE  ServiceInv'
<1> DEFINE before == Front(chain)
           hit == svc.pc # "idle" /\ svc.snap.block = Len(chain)
<1>1. PICK S : chain \in Seq(S)
  BY DEF FlashInv
<1>2. Len(chain) \in Nat /\ before \in Seq(S) /\ Len(before) = Len(chain) - 1
      /\ \A n \in 1..Len(before) : before[n] = chain[n]
  BY <1>1 DEF Front
<1>3. /\ Include(chain[Len(chain) - 1], tx, Len(chain), before) /\ order' = order
      /\ svc' = [svc EXCEPT !.forked = svc.forked \/ hit]
  BY DEF Reorg
<1> HIDE DEF before
<1>4. Len(chain') = Len(before) + 1 /\ \A n \in 1..Len(before) : chain'[n] = before[n]
  BY <1>2, <1>3, IncludeKeeps
<1>5. /\ DOMAIN svc' = ServiceFields /\ svc'.pc = svc.pc /\ svc'.snap = svc.snap
      /\ svc'.cand = svc.cand /\ svc'.result = svc.result /\ svc'.forked = (svc.forked \/ hit)
  <2> HIDE DEF hit
  <2> QED
    BY <1>3 DEF ServiceInv, ServiceFields
<1>6. Steady' <=> Steady /\ ~hit
  BY <1>5 DEF Steady
<1>7. svc.pc # "idle" /\ Steady => svc.snap.block \in 1..Len(chain)
  BY DEF ServiceInv, Pinned
<1>8. Pinned'
  <2>1. ASSUME svc.pc # "idle", Steady'
        PROVE  /\ Steady /\ svc.snap.block \in 1..Len(chain')
               /\ chain'[svc.snap.block] = chain[svc.snap.block]
    <3>1. Steady /\ svc.snap.block \in 1..Len(chain) /\ svc.snap.block # Len(chain)
      BY <1>6, <1>7, <2>1
    <3>2. svc.snap.block \in 1..Len(before) /\ Len(chain') = Len(chain)
      BY <1>2, <1>4, <3>1
    <3> QED
      BY <1>2, <1>4, <3>1, <3>2
  <2>2. Len(chain') \in Nat
    BY <1>2, <1>4
  <2> QED
    BY <1>2, <1>3, <1>5, <2>1, <2>2, PinnedStays DEF ServiceInv
<1>9. (Simulable => EstimateIsExact)'
  BY <1>5, ResultStays DEF ServiceInv
<1>10. svc'.pc = "idle" => Steady'
  BY <1>5, <1>6 DEF ServiceInv
<1> QED
  BY <1>5, <1>8, <1>9, <1>10 DEF ServiceInv

\* The service goes back to waiting; what it recorded stays or is gone.
LEMMA Waits ==
    ASSUME ServiceInv, DOMAIN svc' = ServiceFields, svc'.pc = "idle", Steady',
           svc'.result = svc.result
    PROVE  ServiceInv'
<1>1. Pinned'
  BY DEF Pinned
<1>2. (Simulable => EstimateIsExact)'
  BY ResultStays DEF ServiceInv
<1> QED
  BY <1>1, <1>2 DEF ServiceInv

LEMMA SkipFields ==
    ASSUME DOMAIN svc = ServiceFields
    PROVE  /\ DOMAIN Skip = ServiceFields /\ Skip.pc = "idle" /\ ~Skip.forked
           /\ Skip.result = svc.result
BY DEF Skip, ServiceFields

LEMMA FailureKeepsService ==
    ASSUME ServiceInv, NEW why, RunFails(why)
    PROVE  ServiceInv'
<1>1. svc' = Skip /\ DOMAIN svc = ServiceFields
  BY DEF RunFails, ServiceInv
<1>2. DOMAIN svc' = ServiceFields /\ svc'.pc = "idle" /\ Steady' /\ svc'.result = svc.result
  BY <1>1, SkipFields DEF Steady
<1> QED
  BY <1>2, Waits

LEMMA StartKeepsService ==
    ASSUME FlashInv, ServiceInv, NEW live, NEW refresh, RunStarts(live, refresh)
    PROVE  ServiceInv'
<1> DEFINE calls == (svc.calls + 1) % EveryTicks
           window == IF refresh THEN LoadWindow(Tip, WindowWords) ELSE svc.window
           snap == [block |-> Len(chain), price |-> Tip.price, tick |-> Tip.tick,
                    liq |-> LiquidityOf(Tip), window |-> window, current |-> refresh]
           counted == [svc EXCEPT !.calls = calls]
           kept == [counted EXCEPT !.window = window]
           begun == [counted EXCEPT !.pc = "read", !.snap = snap, !.window = window,
                                    !.result = None]
<1>1. DOMAIN svc = ServiceFields /\ svc.pc = "idle" /\ Steady /\ UNCHANGED <<order, chain>>
  BY DEF RunStarts, ServiceInv
<1>2. \/ svc' = counted
      \/ svc' = [Skip EXCEPT !.calls = (Skip.calls + 1) % EveryTicks]
      \/ svc' = kept
      \/ svc' = begun
  BY DEF RunStarts, Snapshot
<1>3. CASE svc' = counted \/ svc' = kept
  <2> HIDE DEF calls, window
  <2>1. DOMAIN svc' = ServiceFields /\ svc'.pc = "idle" /\ svc'.forked = svc.forked
        /\ svc'.result = svc.result
    BY <1>1, <1>3 DEF ServiceFields
  <2>2. Steady'
    BY <1>1, <2>1 DEF Steady
  <2> QED
    BY <2>1, <2>2, Waits
<1>4. CASE svc' = [Skip EXCEPT !.calls = (Skip.calls + 1) % EveryTicks]
  <2> DEFINE s == Skip
             more == (s.calls + 1) % EveryTicks
  <2>1. DOMAIN s = ServiceFields /\ s.pc = "idle" /\ ~s.forked /\ s.result = svc.result
    BY <1>1, SkipFields
  <2>2. svc' = [s EXCEPT !.calls = more]
    BY <1>4
  <2> HIDE DEF s, more
  <2>3. DOMAIN svc' = ServiceFields /\ svc'.pc = "idle" /\ svc'.forked = s.forked
        /\ svc'.result = svc.result
    BY <2>1, <2>2 DEF ServiceFields
  <2>4. Steady'
    BY <2>1, <2>3 DEF Steady
  <2> QED
    BY <2>3, <2>4, Waits
<1>5. CASE svc' = begun
  <2> HIDE DEF calls, snap
  <2>1. DOMAIN svc' = ServiceFields /\ svc'.pc = "read" /\ svc'.forked = svc.forked
        /\ svc'.result = None /\ svc'.snap = snap
    BY <1>1, <1>5 DEF ServiceFields
  <2>2. (Simulable => EstimateIsExact)'
    BY <2>1 DEF EstimateIsExact
  <2>3. Len(chain) \in 1..Len(chain)
    BY DEF FlashInv
  <2>4. snap.block = Len(chain) /\ Reads(snap, Tip)
    <3> HIDE DEF window
    <3>1. /\ snap.block = Len(chain) /\ snap.price = Tip.price /\ snap.tick = Tip.tick
          /\ snap.liq = LiquidityOf(Tip) /\ snap.window = window /\ snap.current = refresh
      BY DEF snap
    <3>2. refresh => window = LoadWindow(Tip, WindowWords)
      BY DEF window
    <3> QED
      BY <3>1, <3>2 DEF Reads
  <2>5. Pinned'
    <3>1. svc'.snap.block \in 1..Len(chain') /\ chain'[svc'.snap.block] = Tip
      BY <1>1, <2>1, <2>3, <2>4 DEF Tip
    <3>2. Reads(svc.snap, chain[svc.snap.block])'
      BY <2>1, <2>4, <3>1 DEF Reads
    <3> QED
      BY <2>1, <3>1, <3>2 DEF Pinned
  <2> QED
    BY <2>1, <2>2, <2>5 DEF ServiceInv
<1> QED
  BY <1>2, <1>3, <1>4, <1>5

LEMMA ScanKeepsService ==
    ASSUME FlashInv, ServiceInv, ReadAndScan
    PROVE  ServiceInv'
<1> DEFINE w == chain[svc.snap.block]
           cand == ScanDexArb(svc.snap, ReservesOf(w))
<1>1. DOMAIN svc = ServiceFields /\ svc.pc = "read" /\ UNCHANGED <<order, chain>>
  BY DEF ReadAndScan, ServiceInv
<1>2. svc' = IF cand = None THEN Skip ELSE [svc EXCEPT !.pc = "simulate", !.cand = cand]
  BY DEF ReadAndScan, StateAt, ReservesOf
<1>3. CASE cand = None
  <2>1. svc' = Skip
    BY <1>2, <1>3
  <2>2. DOMAIN svc' = ServiceFields /\ svc'.pc = "idle" /\ Steady' /\ svc'.result = svc.result
    BY <1>1, <2>1, SkipFields DEF Steady
  <2> QED
    BY <2>2, Waits
<1>4. CASE cand # None
  <2>1. Estimated(cand, svc.snap, w)
    <3> HIDE DEF w
    <3> QED
      BY <1>4, ScanEstimates
  <2> HIDE DEF cand
  <2>2. /\ DOMAIN svc' = ServiceFields /\ svc'.pc = "simulate" /\ svc'.snap = svc.snap
        /\ svc'.cand = cand /\ svc'.result = svc.result /\ svc'.forked = svc.forked
    BY <1>1, <1>2, <1>4 DEF ServiceFields
  <2>3. (Simulable => EstimateIsExact)'
    BY <2>2, ResultStays DEF ServiceInv
  <2>4. Steady' => svc.snap.block \in 1..Len(chain) /\ Reads(svc.snap, w)
    BY <1>1, <2>2 DEF Steady, ServiceInv, Pinned
  <2>5. Steady' => Reads(svc.snap, chain[svc.snap.block])'
    BY <1>1, <2>2, <2>4 DEF Reads
  <2>6. Estimated(svc.cand, svc.snap, chain[svc.snap.block])'
    BY <1>1, <2>1, <2>2 DEF Estimated, Evaluate, ReservesOf, Reserve
  <2>7. Pinned'
    BY <1>1, <2>2, <2>4, <2>5, <2>6 DEF Pinned
  <2> QED
    BY <2>2, <2>3, <2>7 DEF ServiceInv
<1> QED
  BY <1>3, <1>4

\* An estimate is checked against what the executor does on the block it was made on.
LEMMA CallKeepsService ==
    ASSUME FlashInv, ServiceInv, SimulateAndRecord
    PROVE  ServiceInv'
<1> DEFINE w == chain[svc.snap.block]
           cand == svc.cand
           req == [direction |-> cand.direction, amount |-> cand.amount, minProfit |-> 0]
           raw == SimulateCall(Overridden(w), SimOwner, req)
           forked == svc.forked
           outcome == Outcome(raw)
           result == [cand |-> cand, raw |-> raw, outcome |-> outcome, forked |-> forked]
           lastBlock == svc.snap.block
<1>1. DOMAIN svc = ServiceFields /\ svc.pc = "simulate"
  BY DEF SimulateAndRecord, ServiceInv
<1>2. svc' = [svc EXCEPT !.pc = "idle", !.state = "ok", !.ready = TRUE, !.lastBlock = lastBlock,
                         !.result = result, !.snap = None, !.cand = None, !.forked = FALSE]
  BY DEF SimulateAndRecord, StateAt
<1>3. DOMAIN svc' = ServiceFields /\ svc'.pc = "idle" /\ svc'.result = result /\ Steady'
  <2> HIDE DEF result, lastBlock
  <2> QED
    BY <1>1, <1>2 DEF ServiceFields, Steady
<1>4. result.cand = cand /\ result.raw = raw /\ result.forked = forked
  <2> HIDE DEF cand, raw, forked, outcome
  <2> QED
    OBVIOUS
<1>5. ASSUME cand.exact, Steady, cand.amount \in Nat,
             cand.optimal \/ Feasible(cand.leg)
      PROVE  Told(raw, cand.leg, cand.amount)
  <2>1. /\ svc.snap.block \in 1..Len(chain) /\ Reads(svc.snap, w)
        /\ Estimated(cand, svc.snap, w)
    BY <1>1, <1>5 DEF ServiceInv, Pinned
  <2>2. Shape(w) /\ order \in [v3 : BOOLEAN, v2 : BOOLEAN]
    BY <2>1 DEF FlashInv, Fine
  <2> DEFINE snap == svc.snap
             direction == cand.direction
             amount == cand.amount
             leg == cand.leg
  <2>3. /\ Reads(snap, w) /\ snap.current /\ leg # None /\ amount \in Nat
        /\ leg = Evaluate(direction, amount, snap, ReservesOf(w))
        /\ leg.profit > 0 \/ Feasible(leg)
    BY <1>5, <2>1 DEF Estimated
  <2>4. req = [direction |-> direction, amount |-> amount, minProfit |-> 0]
    OBVIOUS
  <2> HIDE DEF snap, direction, amount, leg, w, cand, req
  <2>5. Reported(Trade(Overridden(w), [direction |-> direction, amount |-> amount,
                                       minProfit |-> 0], "simulate"), leg, amount)
    BY <2>2, <2>3, SimulationReports
  <2>6. Reported(Trade(Overridden(w), req, "simulate"), leg, amount)
    BY <2>4, <2>5
  <2>7. Overridden(w).owner = SimOwner
    BY <2>2, OverriddenOK
  <2>8. Told(raw, leg, amount)
    BY <2>6, <2>7, CallTells
  <2> QED
    BY <2>8 DEF leg, amount
<1>6. (Simulable => EstimateIsExact)'
  <2>1. SUFFICES ASSUME Simulable', (svc.result # None /\ svc.result.cand.exact
                                       /\ ~svc.result.forked)'
                 PROVE  Told(raw, cand.leg, cand.amount)
    <3> HIDE DEF result, raw, cand
    <3> QED
      BY <1>3, <1>4 DEF EstimateIsExact, Told
  <2> HIDE DEF result, raw, cand
  <2>2. cand.exact /\ Steady
    BY <1>3, <1>4, <2>1 DEF Steady, forked
  <2>3. cand.amount \in Nat /\ (cand.optimal \/ Feasible(cand.leg))
    BY <1>3, <1>4, <2>1 DEF Simulable, Feasible
  <2> QED
    BY <1>5, <2>2, <2>3
<1>7. Pinned'
  BY <1>3 DEF Pinned
<1> QED
  BY <1>3, <1>6, <1>7 DEF ServiceInv

LEMMA ServiceStep ==
    ASSUME FlashInv, ServiceInv, [Next]_vars
    PROVE  ServiceInv'
<1>1. ASSUME NEW tx, Mine(tx) PROVE ServiceInv'
  BY <1>1, MineKeepsService
<1>2. ASSUME Len(chain) > 1, NEW tx, Reorg(tx) PROVE ServiceInv'
  BY <1>2, ReorgKeepsService
<1>3. ASSUME NEW live, NEW refresh, RunStarts(live, refresh) PROVE ServiceInv'
  BY <1>3, StartKeepsService
<1>4. CASE ReadAndScan
  BY <1>4, ScanKeepsService
<1>5. CASE SimulateAndRecord
  BY <1>5, CallKeepsService
<1>6. ASSUME NEW why, RunFails(why) PROVE ServiceInv'
  BY <1>6, FailureKeepsService
<1>7. CASE UNCHANGED vars
  <2>1. order' = order /\ svc' = svc /\ chain' = chain
    BY <1>7 DEF vars
  <2>2. Len(chain) \in Nat
    BY DEF FlashInv
  <2>3. svc.pc # "idle" /\ Steady => svc.snap.block \in 1..Len(chain)
    BY DEF ServiceInv, Pinned
  <2>4. Steady' <=> Steady
    BY <2>1 DEF Steady
  <2>5. Pinned'
    BY <2>1, <2>2, <2>3, <2>4, PinnedStays DEF ServiceInv
  <2>6. (Simulable => EstimateIsExact)'
    BY <2>1, ResultStays DEF ServiceInv
  <2> QED
    BY <2>1, <2>4, <2>5, <2>6 DEF ServiceInv
<1> QED
  BY <1>1, <1>2, <1>3, <1>4, <1>5, <1>6, <1>7 DEF Next

-----------------------------------------------------------------------------
\* Every block leaves the executor with what it was given and the V3 pool at a price,
\* and no execute is refused after a token moved.
THEOREM FlashInvariant == Spec => []FlashInv
<1>1. Init => FlashInv
  BY StartOK
<1>2. FlashInv /\ [Next]_vars => FlashInv'
  BY FlashStep
<1> QED
  BY <1>1, <1>2, PTL DEF Spec

\* The executor ends every trade with a zero balance (FlashArbExecutor.sol: _trade,
\* uniswapV3SwapCallback): it holds the gifts that nobody recovered, on every block,
\* for every fee, reserve, order of the tokens and sequence of transactions.
THEOREM FlashHeldIsGifts == Spec => []HeldIsGifts
<1>1. FlashInv => HeldIsGifts
  BY DEF FlashInv, Fine, HeldIsGifts
<1> QED
  BY <1>1, FlashInvariant, PTL

\* An execute that is refused is refused by the contract's own checks: the amounts
\* of getAmountOut and getAmountIn pass the pair's invariant, and the V3 pool is paid.
THEOREM FlashRefusedBeforeMoving == Spec => []RefusedBeforeMoving
<1>1. FlashInv => RefusedBeforeMoving
  BY DEF FlashInv
<1> QED
  BY <1>1, FlashInvariant, PTL

\* An execute that commits pays the owner, who sent it, the least profit asked for or
\* more; nothing else changes a wallet.
THEOREM FlashOwnerIsPaid == Spec => OwnerIsPaid
<1> DEFINE Body == chain' # chain =>
             LET n == Len(chain')
                 before == chain[n - 1].wallet
                 after == chain'[n].wallet
                 paid == sent'.kind = "execute" /\ sent'.error = "none"
             IN  n > 1 =>
                   \A a \in Accounts :
                     IF paid /\ a = chain[n - 1].owner
                     THEN after[a] >= before[a] + sent'.minProfit /\ sent'.sender = a
                     ELSE after[a] = before[a]
<1>1. WalletStep => Body
  BY DEF WalletStep, Wallets
<1>2. FlashInv /\ [Next]_vars => [Body]_vars
  BY <1>1, FlashStep
<1>3. OwnerIsPaid <=> [][Body]_vars
  BY PTL DEF OwnerIsPaid
<1> HIDE DEF Body
<1> QED
  BY <1>2, <1>3, FlashInvariant, PTL DEF Spec

\* What the service recorded is consistent with the chain it read (flash_arb_service.py:
\* run; executor_simulator.py: simulate): until a reorganisation touches its block, the
\* snapshot is that block and the candidate is the scanner's estimate on it.
THEOREM FlashServiceInvariant == Spec => []ServiceInv
<1>1. Init => ServiceInv
  BY ServiceStart
<1>2. FlashInv /\ ServiceInv /\ [Next]_vars => ServiceInv'
  BY ServiceStep
<1> QED
  BY <1>1, <1>2, FlashInvariant, PTL DEF Spec

\* An estimate marked exact is what the executor does (dex_arb_scanner.py: evaluate,
\* FlashArbExecutor.sol: _trade): same legs, same profit, for every pool, window, fee and
\* order of the tokens, however many blocks arrived between the reads, provided that the
\* search found a size and that a trade without a profit is one the contract can make.
THEOREM FlashEstimateIsExact == Spec => [](Simulable => EstimateIsExact)
<1>1. ServiceInv => (Simulable => EstimateIsExact)
  BY DEF ServiceInv
<1> QED
  BY <1>1, FlashServiceInvariant, PTL
=============================================================================
