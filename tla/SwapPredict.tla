---------------------------- MODULE SwapPredict -----------------------------
(***************************************************************************)
(* What the mempool watcher says of a swap: the prediction on the tracked   *)
(* pools (app/services/mempool/predictor.py), the pools rolled forward from  *)
(* the events of a block (pool_state.py, app/adapters/dex/pool_events.py,   *)
(* anchor.py), the comparison with what happened (verifier.py) and the      *)
(* replay of swaps nobody announced (replay.py).  When a block is read,      *)
(* skipped or undone is the subject of MempoolWatcher; here every block is   *)
(* read in order, possibly late.  The scanner's flags are left out.          *)
(*                                                                         *)
(* The chain, the pools and the routers are external.  Every hop that is    *)
(* not on our pools halves its amount.                                      *)
(***************************************************************************)
EXTENDS V3Pool, RouterDecoder

CONSTANTS
  BaseRange, StartReserves, Orders,   \* the pools at the start, as in FlashArb
  Calls,           \* transactions that are announced before they are mined
  Others,          \* transactions that are not
  WindowWords,     \* words of ticks read on each side
  ReanchorBlocks,  \* MEMPOOL_REANCHOR_BLOCKS
  BlockTime,       \* BLOCK_TIME_SEC
  MaxBlocks, MaxTxs, MaxPerBlock   \* bounds

VARIABLES
  order,     \* is USDC token0: of the V3 pool, of the V2 pair
  chain,     \* blocks: the state after each, its transactions and events
  tracker,   \* PoolStateTracker: the newest state
  watched,   \* the announced transaction and its prediction
  verified   \* the records of the block processed last

vars == <<order, chain, tracker, watched, verified>>

Nothing == [kind |-> "nothing"]

-----------------------------------------------------------------------------
(* A transaction on the chain.  x is its progress: the state, the events of *)
(* the block, the next log index, the router's balances, a failure.         *)

Emit(x, event) ==
  [x EXCEPT !.events = Append(@, [event EXCEPT !.tx = x.tx, !.log = x.log]), !.log = @ + 1]
Revert(x) == [x EXCEPT !.failed = TRUE]

SyncEvent(w) == [kind |-> "sync", tx |-> 0, log |-> 0,
                 r |-> IF order.v2 THEN <<w.usdc, w.weth>> ELSE <<w.weth, w.usdc>>]

\* The pair takes any payment its invariant allows.
V2InvariantHolds(rIn, rOut, in, out) ==
  /\ out > 0 /\ out < rOut /\ in > 0
  /\ ((rIn + in) * V2FeeDen - in * (V2FeeDen - V2FeeNum)) * (rOut - out)
       >= rIn * rOut * V2FeeDen

PairSwap(x, usdcIn, in, out) ==
  LET moved == [x.w EXCEPT !.usdc = IF usdcIn THEN @ + in ELSE @ - out,
                           !.weth = IF usdcIn THEN @ - out ELSE @ + in]
      swap == [kind |-> "swap2", tx |-> 0, log |-> 0,
               in |-> IF usdcIn = order.v2 THEN <<in, 0>> ELSE <<0, in>>,
               out |-> IF usdcIn = order.v2 THEN <<0, out>> ELSE <<out, 0>>]
  IN  IF ~V2InvariantHolds(IF usdcIn THEN x.w.usdc ELSE x.w.weth,
                           IF usdcIn THEN x.w.weth ELSE x.w.usdc, in, out)
      THEN Revert(x)
      ELSE [Emit(Emit([x EXCEPT !.w = moved], SyncEvent(moved)), swap)
              EXCEPT !.paid = in, !.got = out]

\* A router pays the pair what its formula asks for.
RouterPair(x, usdcIn, amount) ==
  LET rIn == IF usdcIn THEN x.w.usdc ELSE x.w.weth
      rOut == IF usdcIn THEN x.w.weth ELSE x.w.usdc
  IN  CASE amount > 0 /\ HasAmountOut(amount, rIn, rOut) ->
             PairSwap(x, usdcIn, amount, GetAmountOut(amount, rIn, rOut))
        [] amount < 0 /\ HasAmountIn(-amount, rIn, rOut) ->
             PairSwap(x, usdcIn, GetAmountIn(-amount, rIn, rOut), -amount)
        [] OTHER -> Revert(x)

V3PoolSwap(x, usdcIn, amount, price) ==
  LET zeroForOne == usdcIn = order.v3
      Moved(q) ==
        IF q.reason = "raised" \/ (amount < 0 /\ price = 0 /\ q.out # -amount) THEN Revert(x)
        ELSE [Emit([x EXCEPT !.w.price = q.price, !.w.tick = q.tick],
                   [kind |-> "swap3", tx |-> 0, log |-> 0,
                    amount |-> IF zeroForOne THEN <<q.in, -q.out>> ELSE <<-q.out, q.in>>,
                    price |-> q.price, tick |-> q.tick, liq |-> q.liquidity])
                EXCEPT !.paid = q.in, !.got = q.out]
  IN  Moved(PoolSwapTo(x.w, zeroForOne, amount,
                       IF price = 0 THEN SwapLimit(zeroForOne) ELSE price))

\* Swaps are [pool, usdcIn, amount, price]; a negative amount is an output.
SwapOn(x, swap) == IF swap.pool = "v3" THEN V3PoolSwap(x, swap.usdcIn, swap.amount, swap.price)
                                       ELSE RouterPair(x, swap.usdcIn, swap.amount)

\* What bots and liquidity providers do: a payment of their own choice, reserves
\* added to the pair (its Mint event is not among those read), liquidity of the
\* V3 pool, and a burn of nothing.
LiquidityEvent(range, amount, isMint) ==
  [kind |-> "liquidity", tx |-> 0, log |-> 0, lower |-> range.lower, upper |-> range.upper,
   amount |-> amount, mint |-> isMint]

OtherOp(x, op) ==
  CASE op.op = "pay" -> PairSwap(x, op.usdcIn, op.in, op.out)
    [] op.op = "add" ->
         LET w == [x.w EXCEPT !.usdc = @ + op.usdc, !.weth = @ + op.weth]
         IN  [Emit([x EXCEPT !.w = w], SyncEvent(w)) EXCEPT !.log = @ + 1]
    [] op.op = "mint" -> Emit([x EXCEPT !.w.minted = @ \union {op.range}],
                              LiquidityEvent(op.range, op.range.liq, TRUE))
    [] op.op = "burn" -> Emit([x EXCEPT !.w.minted = @ \ {op.range}],
                              LiquidityEvent(op.range, op.range.liq, FALSE))
    [] op.op = "poke" -> Emit(x, LiquidityEvent(op.range, 0, FALSE))

Halved(amount, hops) == amount \div 2^hops

\* The swap on our pool that a command of a router comes to.
RouterSwap(x, tx, cmd) ==
  LET pool == IF cmd.op \in {"v3_in", "v3_out"} THEN "v3" ELSE "v2"
      exactIn == cmd.op \in {"v3_in", "v2_in", "eth_in"}
      i == Min(OurHops(pool, cmd.path))
      token == IF cmd.op = "v3_out" THEN cmd.path[i].b ELSE cmd.path[i].a
      funds == CASE cmd.op = "eth_in" -> tx.value
                 [] cmd.amount = (IF tx.to = "universal_router" THEN UrBalance ELSE Sr02Balance)
                      -> x.balance[cmd.path[1].a]
                 [] OTHER -> cmd.amount
      after == IF cmd.op = "v3_out" THEN i - 1 ELSE Len(cmd.path) - i
  IN  [pool |-> pool, usdcIn |-> token = "usdc", price |-> cmd.price,
       amount |-> IF exactIn THEN Halved(funds, i - 1) ELSE -(cmd.amount * 2^after),
       exactIn |-> exactIn, after |-> after, before |-> Len(cmd.path) - 1 - after,
       limit |-> IF cmd.op = "eth_out" THEN tx.value ELSE cmd.limit]

\* The router holds it to its limit; what stays in the router can be spent by
\* the next command.
Limited(y, swap, cmd) ==
  CASE y.failed -> y
    [] ~y.failed /\ swap.exactIn /\ Halved(y.got, swap.after) < swap.limit -> Revert(y)
    [] ~y.failed /\ ~swap.exactIn /\ y.paid * 2^swap.before > swap.limit -> Revert(y)
    [] OTHER -> IF cmd.keep
                THEN [y EXCEPT !.balance[IF swap.usdcIn THEN "weth" ELSE "usdc"] = @ + y.got]
                ELSE y

RouterCommand(x, tx, cmd) ==
  LET Held(swap) == Limited(SwapOn(x, swap), swap, cmd)
  IN  IF cmd.op = "wrap"
      THEN [x EXCEPT !.balance["weth"] = @ + (IF cmd.amount = UrBalance THEN tx.value
                                                                        ELSE cmd.amount)]
      ELSE Held(RouterSwap(x, tx, cmd))

IsOurs(cmd) ==
  \/ cmd.op \in {"v3_in", "v3_out"} /\ OurHops("v3", cmd.path) # {}
  \/ cmd.op \in {"v2_in", "v2_out", "eth_in", "eth_out"} /\ OurHops("v2", cmd.path) # {}

\* The caller of a pair pays what it chooses to; other calls pass our pools by.
Command(x, tx, cmd) ==
  CASE x.failed -> x
    [] ~x.failed /\ cmd.op \in {"pay", "add", "mint", "burn", "poke"} -> OtherOp(x, cmd)
    [] ~x.failed /\ cmd.op = "swap" /\ tx.to = "v2_pair" ->
         PairSwap(x, (cmd.out0 > 0) # order.v2, cmd.pays, cmd.out0 + cmd.out1)
    [] ~x.failed /\ cmd.op = "swap" /\ tx.to = "v3_pool" ->
         V3PoolSwap(x, cmd.zeroForOne = order.v3, cmd.amount, cmd.price)
    [] ~x.failed /\ (cmd.op = "wrap" \/ IsOurs(cmd)) -> RouterCommand(x, tx, cmd)
    [] OTHER -> x

\* Transaction number n of a block; one that fails leaves no trace.
Execute(block, n) ==
  LET tx == block.txs[n]
      start == [w |-> block.w, events |-> block.events, tx |-> n, log |-> block.log,
                balance |-> [t \in {"usdc", "weth"} |-> 0], paid |-> 0, got |-> 0,
                failed |-> tx.deadline # NoAmount /\ tx.deadline < block.time]
      End(x) == IF x.failed THEN [block EXCEPT !.failed = @ \union {n}]
                ELSE [block EXCEPT !.w = x.w, !.events = x.events, !.log = x.log]
  IN  End(FoldLeft(LAMBDA x, cmd : Command(x, tx, cmd), start, tx.cmds))

TxsMined == FoldLeft(LAMBDA n, b : n + Len(b.txs), 0, chain)
Tip == chain[Len(chain)]

\* A block comes one slot after the last.
Mine(txs) ==
  /\ Len(chain) < MaxBlocks
  /\ TxsMined + Len(txs) <= MaxTxs
  /\ LET block == [w |-> Tip.w, txs |-> txs, events |-> << >>, log |-> 1, failed |-> {},
                   time |-> Tip.time + BlockTime]
     IN  chain' = Append(chain, FoldLeft(Execute, block, [n \in DOMAIN txs |-> n]))
  /\ UNCHANGED <<order, tracker, watched, verified>>

-----------------------------------------------------------------------------
(* predictor.py *)

V2State(usdc, weth) == [usdc |-> usdc, weth |-> weth]
V3State(price, tick, liq, window) ==
  [price |-> price, tick |-> tick, liquidity |-> liq, window |-> window, fee |-> FeePips]

\* 0 when there is no limit, or it has been passed.
ValidLimit(limit, zeroForOne, price) ==
  IF limit # 0 /\ (IF zeroForOne THEN limit < price ELSE limit > price) THEN limit ELSE 0

\* A price limit may stop a swap early; the end of the window may not.
V3Sim(v3, q, limit) ==
  [in |-> q.in, out |-> q.out, raised |-> q.reason = "raised",
   limited |-> q.reason = "window_exhausted" \/ (q.reason = "price_limit" /\ limit = 0),
   after |-> V3State(q.price, q.tick, q.liquidity, v3.window)]

SimulateV3To(v3, zeroForOne, amount, limit) ==
  V3Sim(v3, Simulate(v3, v3.window, zeroForOne, amount,
                     IF limit = 0 THEN SwapLimit(zeroForOne) ELSE limit), limit)

SimulateV3Leg(v3, leg, amount) ==
  LET zeroForOne == (leg.direction = "buy_weth") = order.v3
  IN  SimulateV3To(v3, zeroForOne, IF leg.kind = "exact_in" THEN amount ELSE -amount,
                   ValidLimit(leg.price, zeroForOne, v3.price))

V2Sim(v2, sells, in, out, completes) ==
  [in |-> IF completes THEN in ELSE 0, out |-> IF completes THEN out ELSE 0, raised |-> FALSE,
   limited |-> ~completes,
   after |-> CASE ~completes -> v2
               [] completes /\ sells -> V2State(v2.usdc - out, v2.weth + in)
               [] OTHER -> V2State(v2.usdc + in, v2.weth - out)]

SimulateV2Leg(v2, leg, amount, fixedOut) ==
  LET sells == leg.direction = "sell_weth"
      Of(rIn, rOut) ==
        CASE leg.kind = "exact_in" ->
               V2Sim(v2, sells, amount, GetAmountOut(amount, rIn, rOut),
                     HasAmountOut(amount, rIn, rOut))
          [] leg.kind = "exact_out" /\ ~HasAmountIn(amount, rIn, rOut) ->
               V2Sim(v2, sells, 0, 0, FALSE)
          [] leg.kind = "exact_out" /\ HasAmountIn(amount, rIn, rOut) ->
               V2Sim(v2, sells, GetAmountIn(amount, rIn, rOut), amount, TRUE)
          [] leg.kind = "exact_amounts" ->
               V2Sim(v2, sells, amount, fixedOut, V2InvariantHolds(rIn, rOut, amount, fixedOut))
  IN  IF sells THEN Of(v2.weth, v2.usdc) ELSE Of(v2.usdc, v2.weth)

SimulateLeg(v2, v3, leg, amount, fixedOut) ==
  IF leg.pool = "v3" THEN SimulateV3Leg(v3, leg, amount)
                     ELSE SimulateV2Leg(v2, leg, amount, fixedOut)

\* One leg predicted on the running state.
BreaksLimit(leg, sim) ==
  /\ leg.limit # NoAmount
  /\ IF leg.kind = "exact_in" THEN sim.out < leg.limit
                              ELSE leg.kind = "exact_out" /\ sim.in > leg.limit

PredictedLeg(leg, sim, expired) ==
  [pool |-> leg.pool, direction |-> leg.direction, kind |-> leg.kind, amount |-> leg.amount,
   limit |-> leg.limit, price |-> leg.price, fixedOut |-> leg.fixedOut,
   in |-> sim.in, out |-> sim.out, after |-> sim.after,
   flags |-> leg.flags
     \union (IF expired THEN {"expired"} ELSE {})
     \union (IF sim.limited THEN {"beyond_range"}
             ELSE IF BreaksLimit(leg, sim) THEN {"would_revert"} ELSE {})]

PredictLeg(running, leg, expired) ==
  LET With(sim) ==
        [running EXCEPT
          !.raised = @ \/ sim.raised,
          !.legs = Append(@, PredictedLeg(leg, sim, expired)),
          !.v3 = IF leg.pool = "v3" /\ ~sim.limited THEN sim.after ELSE @,
          !.v2 = IF leg.pool = "v2" /\ ~sim.limited THEN sim.after ELSE @]
  IN  With(SimulateLeg(running.v2, running.v3, leg, leg.amount, leg.fixedOut))

Expired(deadline, time) == deadline # NoAmount /\ deadline < time + BlockTime

\* Every leg in order on a state, that of the latest block processed.
PredictAll(state, legs, deadline) ==
  FoldLeft(LAMBDA running, leg : PredictLeg(running, leg, Expired(deadline, state.time)),
           [v2 |-> state.v2, v3 |-> state.v3, legs |-> << >>, raised |-> FALSE], legs)

\* The amount of a later hop, asked of the routers' quoters.
ResolveUpstream(leg) ==
  IF leg.amount # NoAmount THEN leg
  ELSE [leg EXCEPT !.amount = Halved(leg.upstream, Len(leg.prefix))]

\* on_pending and _predict_item: a transaction that is not decoded, or whose
\* simulation raises, is not watched.
Submit(tx) ==
  LET Predicted(p) ==
        watched' = IF p.raised THEN [kind |-> "unpredicted", tx |-> tx]
                   ELSE [kind |-> "watched", tx |-> tx, seenHead |-> tracker.number,
                         legs |-> p.legs]
      Decoded(d) ==
        IF d.kind # "decoded" THEN watched' = [kind |-> d.kind, tx |-> tx]
        ELSE Predicted(PredictAll(tracker, [i \in DOMAIN d.legs |-> ResolveUpstream(d.legs[i])],
                                  d.deadline))
  IN  /\ watched = Nothing
      /\ Decoded(DecodeTransaction(tx, order.v2, order.v3))
      /\ UNCHANGED <<order, chain, tracker, verified>>

-----------------------------------------------------------------------------
(* pool_state.py *)

\* Liquidity added to, or taken from, one bound of a range.
WindowWithLiquidity(window, tick, grossDelta, netDelta) ==
  LET gross == grossDelta + (IF tick \in window.ticks THEN window.gross[tick] ELSE 0)
      net == netDelta + (IF tick \in window.ticks THEN window.infos[tick] ELSE 0)
      Holding(ticks) ==
        [window EXCEPT
          !.ticks = ticks,
          !.infos = [t \in ticks |-> IF t = tick THEN net ELSE window.infos[t]],
          !.gross = [t \in ticks |-> IF t = tick THEN gross ELSE window.gross[t]]]
  IN  IF WordPositionForTick(tick, Spacing) \notin window.minWord .. window.maxWord THEN window
      ELSE Holding(IF gross = 0 THEN window.ticks \ {tick} ELSE window.ticks \union {tick})

\* Mutant: the upper bound belongs to the range.
ApplyLiquidityUpToUpper(v3, event) ==
  LET delta == IF event.mint THEN event.amount ELSE -event.amount
  IN  IF event.amount = 0 THEN v3
      ELSE [v3 EXCEPT
             !.window = WindowWithLiquidity(WindowWithLiquidity(@, event.lower, delta, delta),
                                            event.upper, delta, -delta),
             !.liquidity = IF event.lower <= v3.tick /\ v3.tick <= event.upper THEN @ + delta
                                                                               ELSE @]

ApplyLiquidity(v3, event) ==
  LET delta == IF event.mint THEN event.amount ELSE -event.amount
  IN  IF event.amount = 0 THEN v3
      ELSE [v3 EXCEPT
             !.window = WindowWithLiquidity(WindowWithLiquidity(@, event.lower, delta, delta),
                                            event.upper, delta, -delta),
             !.liquidity = IF event.lower <= v3.tick /\ v3.tick < event.upper THEN @ + delta
                                                                              ELSE @]

Reserves(event) == IF order.v2 THEN V2State(event.r[1], event.r[2])
                               ELSE V2State(event.r[2], event.r[1])

\* Mutant: a swap starts from the reserves known when its event comes.
OwnSyncNever(sync, event) == FALSE

\* A swap of the pair starts from the state before the Sync just ahead of it.
OwnSync(sync, event) ==
  sync # Nothing /\ sync.event.tx = event.tx /\ sync.event.log = event.log - 1

ApplyEvent(t, event) ==
  LET Step(before, after) ==
        Append(t.steps, [event |-> event, before |-> before, after |-> after])
      NextV3(v3) == [t EXCEPT !.v3 = v3, !.steps = Step(t.v3, v3)]
      NextV2(v2) == [t EXCEPT !.v2 = v2, !.steps = Step(t.v2, v2),
                              !.sync = [kind |-> "sync", event |-> event, before |-> t.v2]]
  IN  CASE event.kind = "sync" -> NextV2(Reserves(event))
        [] event.kind = "swap2" ->
             [t EXCEPT !.sync = Nothing,
                       !.steps = Step(IF OwnSync(t.sync, event) THEN t.sync.before ELSE t.v2, t.v2)]
        [] event.kind = "swap3" ->
             NextV3(V3State(event.price, event.tick, event.liq, t.v3.window))
        [] event.kind = "liquidity" -> NextV3(ApplyLiquidity(t.v3, event))

ApplyBlock(state, events) ==
  FoldLeft(ApplyEvent,
           [v2 |-> state.v2, v3 |-> state.v3, sync |-> Nothing, steps |-> << >>], events)

\* Both pools after block n, `since' blocks after the last read of them.
PairState(n, v2, v3, since) ==
  [number |-> n, time |-> chain[n].time, v2 |-> v2, v3 |-> v3, since |-> since]

\* A read of both pools at a block (AnchorLoader).
Anchor(n) ==
  LET w == chain[n].w
  IN  PairState(n, V2State(w.usdc, w.weth),
                V3State(w.price, w.tick, LiquidityOf(w), LoadWindow(w, WindowWords)), 0)

WindowIsSafe(v3) ==
  LET word == WordPositionForTick(v3.tick, Spacing)
  IN  v3.window.minWord < word /\ word < v3.window.maxWord

NeedsReanchor(state) == state.since >= ReanchorBlocks \/ ~WindowIsSafe(state.v3)

\* What differs between a state rolled forward and a fresh read.
CompareStates(rolled, fresh) ==
  LET a == rolled.v3
      b == fresh.v3
      words == MaxOf(a.window.minWord, b.window.minWord) .. MinOf(a.window.maxWord, b.window.maxWord)
      Shared(window) == {t \in window.ticks : WordPositionForTick(t, Spacing) \in words}
  IN  {issue \in {"v2", "slot0", "bitmap", "net"} :
         CASE issue = "v2" -> rolled.v2 # fresh.v2
           [] issue = "slot0" -> <<a.price, a.tick, a.liquidity>> # <<b.price, b.tick, b.liquidity>>
           [] issue = "bitmap" -> Shared(a.window) # Shared(b.window)
           [] issue = "net" -> \E t \in a.window.ticks \intersect b.window.ticks :
                                 a.window.infos[t] # b.window.infos[t]}

-----------------------------------------------------------------------------
(* verifier.py *)

PoolOf(step) == IF step.event.kind = "swap3" THEN "v3" ELSE "v2"
IsSwap(step) == step.event.kind \in {"swap2", "swap3"}
SwapsOf(steps, tx) == SelectSeq(steps, LAMBDA s : IsSwap(s) /\ s.event.tx = tx)

\* (amount_in, amount_out) of an event for a direction.
EventAmounts(step, direction) ==
  LET usdc0 == IF PoolOf(step) = "v3" THEN order.v3 ELSE order.v2
      usdc == IF usdc0 THEN 1 ELSE 2
      weth == 3 - usdc
      from == IF direction = "sell_weth" THEN weth ELSE usdc
      to == 3 - from
  IN  IF PoolOf(step) = "v3" THEN <<step.event.amount[from], -step.event.amount[to]>>
                             ELSE <<step.event.in[from], step.event.out[to]>>

EventDirection(step) ==
  IF EventAmounts(step, "sell_weth")[1] > 0 THEN "sell_weth" ELSE "buy_weth"

PostStateEqual(sim, step) ==
  IF PoolOf(step) = "v3"
  THEN /\ sim.after.price = step.after.price
       /\ sim.after.tick = step.after.tick
       /\ sim.after.liquidity = step.after.liquidity
  ELSE sim.after = step.after

Reproduces(sim, step, amounts) ==
  ~sim.raised /\ ~sim.limited /\ PostStateEqual(sim, step) /\ <<sim.in, sim.out>> = amounts

\* The two prices are the same, so that the ordering effect is 0.
SamePrice(pool, a, b) ==
  IF pool = "v3" THEN a.price = b.price ELSE a.usdc * b.weth = b.usdc * a.weth

FromTruePre(start, leg, step, amount, fixedOut) ==
  SimulateLeg(IF leg.pool = "v2" THEN step.before ELSE start.v2,
              IF leg.pool = "v3" THEN step.before ELSE start.v3, leg, amount, fixedOut)

Judged(leg, step, amounts, math, same) ==
  [in |-> amounts[1], out |-> amounts[2],
   exact |-> Reproduces(math, step, amounts), limited |-> math.limited,
   ordering |-> ~("beyond_range" \in leg.flags \/ same.limited
                    \/ SamePrice(leg.pool, leg.after, same.after))]

LegOutcome(start, leg, step) ==
  LET amounts == EventAmounts(step, leg.direction)
  IN  Judged(leg, step, amounts,
             FromTruePre(start, leg, step, amounts[IF leg.kind = "exact_out" THEN 2 ELSE 1],
                         amounts[2]),
             FromTruePre(start, leg, step, leg.amount, leg.fixedOut))

\* Legs are paired with the transaction's events on their pool, in order.
Nth(legs, i) == Cardinality({j \in 1..i : legs[j].pool = legs[i].pool})
EventsOn(steps, pool) == SelectSeq(steps, LAMBDA s : PoolOf(s) = pool)
Matches(legs, steps) ==
  \A pool \in {"v2", "v3"} :
    Cardinality({i \in DOMAIN legs : legs[i].pool = pool}) = Len(EventsOn(steps, pool))

VerifyIncluded(start, record, steps, failed) ==
  LET Ended(status, outcomes) ==
        [mode |-> record.mode, tx |-> record.tx, status |-> status, legs |-> record.legs,
         seenHead |-> record.seenHead, outcomes |-> outcomes]
  IN  CASE steps = << >> -> Ended(IF failed THEN "included_reverted"
                                            ELSE "included_no_pool_event", << >>)
        [] steps # << >> /\ ~Matches(record.legs, steps) -> Ended("verification_mismatch", << >>)
        [] OTHER ->
             Ended("included",
                   [i \in DOMAIN record.legs |->
                     LegOutcome(start, record.legs[i],
                                EventsOn(steps, record.legs[i].pool)[Nth(record.legs, i)])])

-----------------------------------------------------------------------------
(* replay.py *)

\* The kinds of trade an event can come from, in the order they are tried; a
\* V3 swap that a price limit stopped ends at that limit.
Candidates(step) ==
  LET Kind(kind, price) == [kind |-> kind, price |-> price]
  IN  << Kind("exact_in", 0), Kind("exact_out", 0) >>
      \o (IF PoolOf(step) = "v3"
          THEN << Kind("exact_in", step.after.price), Kind("exact_out", step.after.price) >>
          ELSE << Kind("exact_amounts", 0) >>)

ReplayLeg(step, direction, amounts, candidate) ==
  [Leg(PoolOf(step), direction, candidate.kind,
       amounts[IF candidate.kind = "exact_out" THEN 2 ELSE 1], NoAmount)
     EXCEPT !.price = candidate.price, !.flags = {"kind_inferred"},
            !.fixedOut = IF candidate.kind = "exact_amounts" THEN amounts[2] ELSE 0]

Fits(start, step, amounts, leg) ==
  /\ leg.amount > 0
  /\ Reproduces(FromTruePre(start, leg, step, leg.amount, leg.fixedOut), step, amounts)

\* The first leg that reproduces the event; the first one when none does.
FirstOf(legs, fitting) == legs[IF fitting = {} THEN 1 ELSE Min(fitting)]
FittingLeg(start, step, amounts, legs) ==
  FirstOf(legs, {i \in DOMAIN legs : Fits(start, step, amounts, legs[i])})
InferKind(start, step, direction, amounts) ==
  FittingLeg(start, step, amounts,
             [i \in DOMAIN Candidates(step) |->
                ReplayLeg(step, direction, amounts, Candidates(step)[i])])
InferLeg(start, step) ==
  InferKind(start, step, EventDirection(step), EventAmounts(step, EventDirection(step)))

\* Every swap nobody announced, as if it had been seen before the block.
ReplayRecord(start, tx, steps) ==
  [mode |-> "replay", tx |-> tx, seenHead |-> start.number,
   legs |-> PredictAll(start, [i \in DOMAIN steps |-> InferLeg(start, steps[i])], NoAmount).legs]

LiveRecord(tx) == [mode |-> "live", tx |-> tx, seenHead |-> watched.seenHead,
                   legs |-> watched.legs]

Swapped(steps) == {s.event.tx : s \in {q \in ToSet(steps) : IsSwap(q)}}

Records(start, steps, live) ==
  {LiveRecord(i) : i \in live}
  \union {ReplayRecord(start, i, SwapsOf(steps, i)) : i \in Swapped(steps) \ live}

AfterBlock(start, block, t, live) ==
  /\ tracker' = PairState(start.number + 1, t.v2, t.v3, start.since + 1)
  /\ verified' = {VerifyIncluded(start, r, SwapsOf(t.steps, r.tx), r.tx \in block.failed) :
                    r \in Records(start, t.steps, live)}

ProcessFrom(start, block, live) ==
  AfterBlock(start, block, ApplyBlock(start, block.events), live)

\* process_block: the state before the block is read again when it is due, the
\* block's events are applied, and its swaps are verified.
Process ==
  LET n == tracker.number + 1
      live == {i \in DOMAIN chain[n].txs : watched.kind = "watched" /\ chain[n].txs[i] = watched.tx}
  IN  /\ n <= Len(chain)
      /\ ProcessFrom(IF NeedsReanchor(tracker) THEN Anchor(n - 1) ELSE tracker, chain[n], live)
      /\ watched' = IF live = {} THEN watched ELSE [kind |-> "resolved"]
      /\ UNCHANGED <<order, chain>>

\* Before the first block has been anchored nothing is predicted.
Init ==
  /\ order \in Orders
  /\ chain = << [w |-> [price |-> Q96, tick |-> GetTickAtSqrtRatio(Q96), minted |-> {BaseRange},
                        usdc |-> StartReserves.usdc, weth |-> StartReserves.weth],
                 txs |-> << >>, events |-> << >>, log |-> 1, failed |-> {}, time |-> 0] >>
  /\ tracker = Anchor(1)
  /\ watched = Nothing
  /\ verified = {}

\* Others, and what was announced and is not yet mined.  A range is minted once.
Minable ==
  LET Possible(tx) == \A i \in DOMAIN tx.cmds :
                        /\ tx.cmds[i].op = "mint" => tx.cmds[i].range \notin Tip.w.minted
                        /\ tx.cmds[i].op = "burn" => tx.cmds[i].range \in Tip.w.minted
      mined == UNION {ToSet(chain[n].txs) : n \in DOMAIN chain}
  IN  {tx \in Others : Possible(tx)}
      \union (IF watched.kind \in {"nothing", "resolved"} THEN {} ELSE {watched.tx} \ mined)

Next ==
  \/ \E n \in 1..MaxPerBlock : \E txs \in {t \in [1..n -> Minable] : IsInjective(t)} :
       Mine(txs)
  \/ \E tx \in Calls : Submit(tx)
  \/ Process

Spec == Init /\ [][Next]_vars

-----------------------------------------------------------------------------
(* Properties *)

\* Re-simulated from the true state just before it, every leg of an included
\* swap, announced or replayed, comes out exactly as it happened (specs/004
\* SC-001), except where the loaded range ends and where the input of a direct
\* call of the pair had to be worked out.
MathIsExact ==
  \A r \in verified : \A i \in DOMAIN r.outcomes :
    r.outcomes[i].exact \/ r.outcomes[i].limited \/ "input_inferred" \in r.legs[i].flags

\* The state rolled forward from events is what a fresh read of the same block
\* gives, after any mix of swaps, mints, burns and syncs.
TrackerIsTrue == CompareStates(tracker, Anchor(tracker.number)) = {}

CommandsOf(r) == chain[tracker.number].txs[r.tx].cmds
DecodedOps == {"v2_in", "v2_out", "eth_in", "eth_out", "v3_in", "v3_out", "wrap", "swap"}

\* An announced swap that is first in the block after the one it was predicted
\* on does what was predicted: it reverts when that was said, and its legs move
\* the amounts predicted, with no ordering effect.  Its events and its legs can
\* only fail to match when it has a command the decoder passes over.
PredictedIfFirst ==
  \A r \in verified :
    (r.mode = "live" /\ r.tx = 1 /\ r.seenHead = tracker.number - 1) =>
      /\ (\E i \in DOMAIN r.legs : r.legs[i].flags \intersect {"expired", "would_revert"} # {})
           => r.status = "included_reverted"
      /\ r.status = "verification_mismatch" =>
           \E i \in DOMAIN CommandsOf(r) : CommandsOf(r)[i].op \notin DecodedOps
      /\ \A i \in DOMAIN r.outcomes :
           \/ r.legs[i].flags \intersect {"beyond_range", "input_inferred"} # {}
           \/ /\ <<r.outcomes[i].in, r.outcomes[i].out>> = <<r.legs[i].in, r.legs[i].out>>
              /\ ~r.outcomes[i].ordering
=============================================================================
