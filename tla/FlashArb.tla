------------------------------ MODULE FlashArb ------------------------------
(***************************************************************************)
(* The flash-arbitrage executor (contracts/src/FlashArbExecutor.sol) and the *)
(* service that scans for a trade and simulates it with eth_call           *)
(* (app/services/flash_arb_service.py, dex_arb_scanner.py,                 *)
(* app/adapters/dex/executor_simulator.py, v2_reserves.py).                *)
(*                                                                         *)
(* The chain is a sequence of states, one transaction per block; its last   *)
(* block may be replaced.  The service reads it in three steps pinned to a  *)
(* block number, and blocks arrive, or are replaced, between them.  The V3  *)
(* pool, the V2 pair and the tokens are external: the pool swaps by the     *)
(* mathematics of PoolMath over all its ticks, the pair enforces its        *)
(* invariant on what it really received.                                    *)
(***************************************************************************)
EXTENDS V3Pool

CONSTANTS
  BaseRange, Others,        \* ranges of the V3 pool, at the start and minted by others
  Orders,                   \* values of `order'
  StartReserves,            \* of the V2 pair, away from the price of the V3 pool
  Owners, SimOwner,         \* accounts; SimOwner is the simulator's
  Amounts, MinProfits,      \* arguments of an execute
  Moves,                    \* sizes of other people's swaps
  Gift,                     \* tokens sent to the contract by mistake
  SmallUsdc, SmallWeth,     \* where the search for a size starts
  ReferenceSize, GasCost,   \* in raw USDC
  Subsidy,                  \* the simulated balance of the executor
  EveryTicks,               \* ARB_SIM_EVERY_TICKS
  WindowWords,
  MaxSearch,                \* bound on the iterations of the search
  MaxBlocks, MaxReorgs, MaxRuns, MaxFaults   \* bounds

ASSUME FlashArbConstants ==
  /\ V2FeeNum \in Nat \ {0} /\ V2FeeDen \in Nat \ {0} /\ V2FeeNum <= V2FeeDen
  /\ Orders \subseteq [v3 : BOOLEAN, v2 : BOOLEAN] /\ StartReserves \in [1..2 -> Nat \ {0}]
  /\ (\E a, b \in Owners : a # b) /\ SimOwner \notin Owners
  /\ Moves \subseteq Nat \ {0} /\ MinProfits \subseteq Nat /\ Gift \in Nat /\ Subsidy \in Nat
  /\ Amounts \subseteq Nat /\ Amounts # {} /\ WindowWords \in 0 .. 2 * MaxTick
  /\ Q96 \in MinSqrtRatio..MaxSqrtRatio /\ IsFiniteSet(Others)
  /\ Others \union {BaseRange} \subseteq [lower : Int, upper : Int, liq : Nat]

VARIABLES
  order,   \* is USDC token0: of the V3 pool, of the V2 pair
  chain,   \* the states after each block
  sent,    \* the last transaction and how it ended
  svc,     \* FlashArbService, with its reader and simulator
  budget   \* what is left of the bounds

vars == <<order, chain, sent, svc, budget>>

None == [none |-> TRUE]
Accounts == Owners \union {SimOwner}
Tip == chain[Len(chain)]

-----------------------------------------------------------------------------
(* A transaction is a chain of steps, each a state and how it ended; the    *)
(* first that fails decides.                                                *)

Ok(w) == [w |-> w, error |-> "none"]
Fail(w, error) == [w |-> w, error |-> error]
Then(step, Rest(_)) == IF step.error = "none" THEN Rest(step.w) ELSE step

\* _safeTransfer out of the contract; what arrives elsewhere is the caller's.
SafeTransfer(w, token, amount) ==
  IF w.held[token] < amount THEN Fail(w, "TransferFailed")
  ELSE Ok([w EXCEPT !.held[token] = @ - amount])

Reserve(w, token) == w.r[IF order.v2 = (token = "usdc") THEN 1 ELSE 2]

\* The pair pays `out', then requires its invariant of what it received.
PairAccepts(rIn, rOut, in, out) ==
  /\ in > 0
  /\ out < rOut
  /\ ((rIn + in) * V2FeeDen - in * (V2FeeDen - V2FeeNum)) * (rOut - out)
       >= rIn * rOut * V2FeeDen

Other(token) == IF token = "usdc" THEN "weth" ELSE "usdc"

PairSwap(w, tokenIn, in, out) ==
  CASE out <= 0 -> Fail(w, "InsufficientOutput")
    [] out > 0 /\ ~PairAccepts(Reserve(w, tokenIn), Reserve(w, Other(tokenIn)), in, out) ->
         Fail(w, "K")
    [] OTHER -> Ok([w EXCEPT !.r = [i \in 1..2 |->
                     IF i = (IF order.v2 = (tokenIn = "usdc") THEN 1 ELSE 2)
                     THEN @[i] + in ELSE @[i] - out]])

-----------------------------------------------------------------------------
(* The contract *)

\* getAmountOut and getAmountIn of the contract; they revert where the
\* functions of PoolMath are not defined.
QuoteOut(in, rIn, rOut) ==
  IF in = 0 \/ rIn = 0 \/ rOut = 0 THEN [error |-> "InvalidAmount", value |-> 0]
  ELSE [error |-> "none",
        value |-> (in * V2FeeNum * rOut) \div (rIn * V2FeeDen + in * V2FeeNum)]

\* Mutant: rounded down.
QuoteInFloor(out, rIn, rOut) ==
  IF out = 0 \/ rIn = 0 \/ out >= rOut THEN [error |-> "InvalidAmount", value |-> 0]
  ELSE [error |-> "none",
        value |-> (rIn * out * V2FeeDen) \div ((rOut - out) * V2FeeNum)]

QuoteIn(out, rIn, rOut) ==
  IF out = 0 \/ rIn = 0 \/ out >= rOut THEN [error |-> "InvalidAmount", value |-> 0]
  ELSE [error |-> "none",
        value |-> (rIn * out * V2FeeDen) \div ((rOut - out) * V2FeeNum) + 1]

\* Mutant: only execute's own loss is refused.
ProfitAboveZero(phase, profit, minProfit) == phase = "simulate" \/ profit >= 0

CheckProfit(phase, profit, minProfit) ==
  phase = "simulate" \/ (profit >= 0 /\ profit >= minProfit)

\* uniswapV3SwapCallback: the second leg.  Its result carries the profit, the
\* amounts of the V2 leg and what the V3 pool was paid.
SecondLeg(w, forward, in, out, owed) ==
  LET tokenIn == IF forward THEN "weth" ELSE "usdc"
      Settle(v) == IF forward
                   THEN SafeTransfer([v EXCEPT !.held["usdc"] = @ + out], "usdc", owed)
                   ELSE Ok(v)
  IN  Then(Then(SafeTransfer(w, tokenIn, in), LAMBDA v : PairSwap(v, tokenIn, in, out)), Settle)

LegResult(step, profit, in, out, owed) ==
  [w |-> step.w, error |-> step.error, profit |-> profit, v2In |-> in, v2Out |-> out,
   paid |-> owed]

ProfitableLeg(w, phase, req, forward, in, out, owed, profit) ==
  LegResult(IF CheckProfit(phase, profit, req.minProfit) THEN SecondLeg(w, forward, in, out, owed)
            ELSE Fail(w, "InsufficientProfit"), profit, in, out, owed)

QuotedLeg(w, phase, req, forward, owed, got, quote) ==
  IF quote.error # "none" THEN LegResult(Fail(w, quote.error), 0, 0, 0, 0)
  ELSE IF forward
  THEN ProfitableLeg(w, phase, req, TRUE, got, quote.value, owed, quote.value - owed)
  ELSE ProfitableLeg(w, phase, req, FALSE, quote.value, owed, owed, got - quote.value)

Callback(w, phase, req, usdcDelta, wethDelta) ==
  LET Leg(forward, owed, got) ==
        IF phase = "idle" \/ owed <= 0 \/ got <= 0
        THEN LegResult(Fail(w, "InvalidCallback"), 0, 0, 0, 0)
        ELSE QuotedLeg(w, phase, req, forward, owed, got,
               IF forward THEN QuoteOut(got, Reserve(w, "weth"), Reserve(w, "usdc"))
                          ELSE QuoteIn(owed, Reserve(w, "usdc"), Reserve(w, "weth")))
  IN  IF req.direction = "v3_to_v2" THEN Leg(TRUE, usdcDelta, -wethDelta)
                                    ELSE Leg(FALSE, wethDelta, -usdcDelta)

\* Mutant: the profit is what the owner asked for.
PaidOnlyMinimum(w, req, profit) ==
  IF profit <= 0 THEN Ok(w)
  ELSE Then(SafeTransfer(w, "usdc", req.minProfit),
            LAMBDA v : Ok([v EXCEPT !.wallet[v.owner] = @ + req.minProfit]))

PayOwner(w, req, profit) ==
  IF profit <= 0 THEN Ok(w)
  ELSE Then(SafeTransfer(w, "usdc", profit),
            LAMBDA v : Ok([v EXCEPT !.wallet[v.owner] = @ + profit]))

\* _trade: the V3 pool sends its output, calls back, and must have been paid.
Traded(step, v3In, v3Out, called) ==
  [w |-> step.w, error |-> step.error, profit |-> called.profit, v3In |-> v3In,
   v3Out |-> v3Out, v2In |-> called.v2In, v2Out |-> called.v2Out]

Trade(w, req, phase) ==
  LET usdcIn == req.direction = "v3_to_v2"
      Paid(q, called) ==
        Traded(Then(called, LAMBDA v : IF called.paid < q.in THEN Fail(v, "IIA")
                                       ELSE PayOwner(v, req, called.profit)),
               q.in, q.out, called)
      Swap(q) ==
        Paid(q, Callback([w EXCEPT !.price = q.price, !.tick = q.tick,
                                   !.held[IF usdcIn THEN "weth" ELSE "usdc"] = @ + q.out],
                         phase, req, IF usdcIn THEN q.in ELSE -q.out,
                         IF usdcIn THEN -q.out ELSE q.in))
  IN  IF req.amount = 0
      THEN Traded(Fail(w, "InvalidAmount"), 0, 0, LegResult(Ok(w), 0, 0, 0, 0))
      ELSE Swap(PoolSwap(w, usdcIn = order.v3, req.amount))

Execute(w, sender, req, number) ==
  LET Ended(trade) == [w |-> trade.w, error |-> trade.error]
  IN  CASE sender # w.owner -> Fail(w, "Unauthorized")
        [] sender = w.owner /\ number > req.deadline -> Fail(w, "Expired")
        [] OTHER -> Ended(Trade(w, req, "execute"))

\* `simulate' always reverts: the state it ran on is gone, its result is not.
SimulateCall(w, sender, req) ==
  LET Reverted(trade) ==
        IF trade.error # "none" THEN [error |-> trade.error]
        ELSE [error |-> "SimulationResult", profit |-> trade.profit, v3In |-> trade.v3In,
              v3Out |-> trade.v3Out, v2In |-> trade.v2In, v2Out |-> trade.v2Out]
  IN  IF sender # w.owner THEN [error |-> "Unauthorized"]
      ELSE Reverted(Trade(w, req, "simulate"))

TransferOwnership(w, sender, newOwner) ==
  IF sender # w.owner THEN Fail(w, "Unauthorized")
  ELSE Ok([w EXCEPT !.pending = newOwner])

AcceptOwnership(w, sender) ==
  IF sender # w.pending THEN Fail(w, "Unauthorized")
  ELSE Ok([w EXCEPT !.owner = sender, !.pending = "zero"])

\* To an account of no interest; `given' remembers what was sent by mistake.
Recover(w, sender, token, amount) ==
  IF sender # w.owner THEN Fail(w, "Unauthorized")
  ELSE Then(SafeTransfer(w, token, amount),
            LAMBDA v : Ok([v EXCEPT !.given[token] = @ - amount]))

-----------------------------------------------------------------------------
(* The chain *)

\* In time for any block; one comes too late, one asks for nothing.
Request(direction, amount, minProfit, deadline) ==
  [direction |-> direction, amount |-> amount, minProfit |-> minProfit, deadline |-> deadline]
Requests ==
  {Request(d, a, m, MaxBlocks) : d \in {"v3_to_v2", "v2_to_v3"}, a \in Amounts, m \in MinProfits}
  \union {Request("v3_to_v2", Min(Amounts), 0, 1), Request("v2_to_v3", 0, 0, MaxBlocks)}
Tokens == {"usdc", "weth"}

\* What can be in a block: a call of the contract by one of its owners or by
\* somebody else, a gift, or a move of the market.
Transactions(w) ==
       [kind : {"execute"}, sender : {w.owner}, req : Requests]
  \union [kind : {"execute"}, sender : Owners \ {w.owner},
          req : {Request("v3_to_v2", Min(Amounts), 0, MaxBlocks)}]
  \union [kind : {"simulate"}, sender : Owners,
          req : {Request(d, Min(Amounts), 0, MaxBlocks) : d \in {"v3_to_v2", "v2_to_v3"}}]
  \union [kind : {"callback"}, usdc : {1}, weth : {-1}]
  \union [kind : {"transferOwnership"}, sender : Owners, to : Owners]
  \union [kind : {"acceptOwnership"}, sender : Owners]
  \union [kind : {"recover"}, sender : Owners, token : Tokens, amount : {Gift}]
  \union [kind : {"gift"}, token : Tokens]
  \union [kind : {"swapV3", "swapV2"}, token : Tokens, amount : Moves]
  \union [kind : {"mint", "burn"}, range : Others]

OthersSwapV2(w, tokenIn, in) ==
  PairSwap(w, tokenIn, in,
           GetAmountOut(in, Reserve(w, tokenIn), Reserve(w, Other(tokenIn))))

OthersSwapV3(w, tokenIn, in) ==
  LET Moved(q) == Ok([w EXCEPT !.price = q.price, !.tick = q.tick])
  IN  Moved(PoolSwap(w, (tokenIn = "usdc") = order.v3, in))

Run(w, tx, number) ==
  CASE tx.kind = "execute" -> Execute(w, tx.sender, tx.req, number)
    [] tx.kind = "simulate" -> Fail(w, SimulateCall(w, tx.sender, tx.req).error)
    [] tx.kind = "callback" -> Fail(w, Callback(w, "idle", [direction |-> "v3_to_v2",
                                                 minProfit |-> 0], tx.usdc, tx.weth).error)
    [] tx.kind = "transferOwnership" -> TransferOwnership(w, tx.sender, tx.to)
    [] tx.kind = "acceptOwnership" -> AcceptOwnership(w, tx.sender)
    [] tx.kind = "recover" -> Recover(w, tx.sender, tx.token, tx.amount)
    [] tx.kind = "gift" -> Ok([w EXCEPT !.held[tx.token] = @ + Gift,
                                        !.given[tx.token] = @ + Gift])
    [] tx.kind = "swapV3" -> OthersSwapV3(w, tx.token, tx.amount)
    [] tx.kind = "swapV2" -> OthersSwapV2(w, tx.token, tx.amount)
    [] tx.kind = "mint" -> Ok([w EXCEPT !.minted = @ \union {tx.range}])
    [] tx.kind = "burn" -> Ok([w EXCEPT !.minted = @ \ {tx.range}])

\* Block `number' on top of w holds tx; one that fails leaves the state as it
\* was.
Include(w, tx, number, before) ==
  LET End(result) ==
        /\ chain' = Append(before, IF result.error = "none" THEN result.w ELSE w)
        /\ sent' = IF tx.kind = "execute"
                   THEN [kind |-> tx.kind, sender |-> tx.sender, minProfit |-> tx.req.minProfit,
                         error |-> result.error]
                   ELSE [kind |-> "other"]
  IN  End(Run(w, tx, number))

Mine(tx) ==
  /\ Len(chain) < MaxBlocks
  /\ Include(Tip, tx, Len(chain) + 1, chain)
  /\ UNCHANGED <<order, svc, budget>>

\* Another block takes the place of the last one; `forked' remembers that it
\* is the one the service is working on.
Reorg(tx) ==
  /\ Len(chain) > 1
  /\ budget.reorgs > 0
  /\ Include(chain[Len(chain) - 1], tx, Len(chain), Front(chain))
  /\ svc' = [svc EXCEPT !.forked = @ \/ (svc.pc # "idle" /\ svc.snap.block = Len(chain))]
  /\ budget' = [budget EXCEPT !.reorgs = @ - 1]
  /\ UNCHANGED order

-----------------------------------------------------------------------------
(* The scanner *)

\* USDC per WETH on the V3 pool as a fraction <<numerator, denominator>>.
V3Price(snap) == IF order.v3 THEN <<Q96 * Q96, snap.price * snap.price>>
                             ELSE <<snap.price * snap.price, Q96 * Q96>>

Leg(profit, v3Out, v2In, v2Out) ==
  [profit |-> profit, v3Out |-> v3Out, v2In |-> v2In, v2Out |-> v2Out]

\* An amount for the V3 pool and what it gives there; None where the V2 leg
\* raises.
ForwardLeg(amount, out, reserves) ==
  LET Sold(usdcOut) == Leg(usdcOut - amount, out, out, usdcOut)
  IN  IF ~HasAmountOut(out, reserves.weth, reserves.usdc) THEN None
      ELSE Sold(GetAmountOut(out, reserves.weth, reserves.usdc))

BackwardLeg(amount, out, reserves) ==
  LET Bought(usdcCost) == Leg(out - usdcCost, out, usdcCost, amount)
  IN  IF ~HasAmountIn(amount, reserves.usdc, reserves.weth) THEN None
      ELSE Bought(GetAmountIn(amount, reserves.usdc, reserves.weth))

Evaluate(direction, amount, snap, reserves) ==
  LET Of(quote) ==
        IF quote.reason # "none" \/ quote.in # amount THEN None
        ELSE IF direction = "v3_to_v2" THEN ForwardLeg(amount, quote.out, reserves)
                                       ELSE BackwardLeg(amount, quote.out, reserves)
  IN  IF snap.window = None \/ amount <= 0 THEN None
      ELSE Of(SimulateExactInput([price |-> snap.price, tick |-> snap.tick,
                                  liquidity |-> snap.liq, fee |-> FeePips],
                                 snap.window, (direction = "v3_to_v2") = order.v3, amount))

Floor == -1000000

ProfitOrFloor(direction, amount, snap, reserves) ==
  LET Of(leg) == IF leg = None THEN Floor ELSE leg.profit
  IN  Of(Evaluate(direction, amount, snap, reserves))

Smallest(direction) == IF direction = "v3_to_v2" THEN SmallUsdc ELSE SmallWeth
Largest(direction, reserves) ==
  (IF direction = "v3_to_v2" THEN reserves.usdc ELSE reserves.weth) \div 4

\* The ternary search, then the best of what is left, the smallest first.
BestSize(direction, snap, reserves) ==
  LET profit == [x \in Smallest(direction) .. Largest(direction, reserves) |->
                   ProfitOrFloor(direction, x, snap, reserves)]
      Narrow(p, lo, hi, third) == CASE hi - lo <= 2 -> <<lo, hi>>
                                    [] hi - lo > 2 /\ p[lo + third] < p[hi - third] ->
                                         <<lo + third, hi>>
                                    [] OTHER -> <<lo, hi - third>>
      Step(p, range) == Narrow(p, range[1], range[2], (range[2] - range[1]) \div 3)
      Best(p, left) == CHOOSE x \in left : \A y \in left : p[y] < p[x] \/ (p[y] = p[x] /\ x <= y)
      Search(p) ==
        LET search[n \in 0..MaxSearch] ==
              IF n = 0 THEN <<Smallest(direction), Largest(direction, reserves)>>
              ELSE Step(p, search[n - 1])
            From(range) == Best(p, range[1] .. range[2])
        IN  From(search[MaxSearch])
  IN  Search(profit)

ReferenceOf(direction, snap) ==
  IF direction = "v3_to_v2" THEN ReferenceSize
  ELSE (ReferenceSize * V3Price(snap)[2]) \div V3Price(snap)[1]

\* scan_dex_arb; the reserves are those of the snapshot's block number.
Candidate(snap, direction, amount, optimal, leg) ==
  IF leg = None THEN None
  ELSE [direction |-> direction, amount |-> amount, optimal |-> optimal, leg |-> leg,
        exact |-> snap.current, block |-> snap.block]

ScanDexArb(snap, reserves) ==
  LET Reference(direction, amount) ==
        Candidate(snap, direction, amount, FALSE, Evaluate(direction, amount, snap, reserves))
      Choose(direction, size, best) ==
        IF best # None /\ best.profit > 0 THEN Candidate(snap, direction, size, TRUE, best)
        ELSE Reference(direction, ReferenceOf(direction, snap))
      Try(direction, size) == Choose(direction, size, Evaluate(direction, size, snap, reserves))
      Toward(direction) == Try(direction, BestSize(direction, snap, reserves))
      Cheap(price) == price[1] * reserves.weth < reserves.usdc * price[2]
  IN  Toward(IF Cheap(V3Price(snap)) THEN "v3_to_v2" ELSE "v2_to_v3")

-----------------------------------------------------------------------------
(* The service *)

\* A labelled skip; the label is left out.
Skip == [svc EXCEPT !.pc = "idle", !.state = "unavailable", !.snap = None, !.cand = None,
                    !.forked = FALSE]

\* The snapshot is read at the tip, its window loaded now or kept.
Snapshot(refresh) ==
  LET window == IF refresh THEN LoadWindow(Tip, WindowWords) ELSE svc.window
  IN  [block |-> Len(chain), price |-> Tip.price, tick |-> Tip.tick,
       liq |-> LiquidityOf(Tip), window |-> window, current |-> refresh]

\* FlashArbService.run up to its first request.  A snapshot that is recorded
\* or stale is not live; a tick without a snapshot makes no call at all.
RunStarts(live, refresh) ==
  LET counted == [svc EXCEPT !.calls = (@ + 1) % EveryTicks]
      Started(snap) ==
        CASE svc.calls # 0 -> counted
          [] svc.calls = 0 /\ ~live -> [Skip EXCEPT !.calls = (@ + 1) % EveryTicks]
          [] svc.calls = 0 /\ live /\ snap.block = svc.lastBlock ->
               [counted EXCEPT !.window = snap.window]
          [] OTHER -> [counted EXCEPT !.pc = "read", !.snap = snap, !.window = snap.window,
                                      !.result = None]
  IN  /\ svc.pc = "idle"
      /\ budget.runs > 0
      /\ refresh \/ svc.window # None
      /\ budget' = [budget EXCEPT !.runs = @ - 1]
      /\ svc' = Started(Snapshot(refresh))
      /\ UNCHANGED <<order, chain, sent>>

\* Mutant: a read of the latest state.
LatestState(number) == Tip

\* What a read pinned to a block number sees.
StateAt(number) == chain[number]

\* V2ReservesReader.read at the snapshot's block number, and the scan.
ReadAndScan ==
  LET Reserves(w) == [usdc |-> Reserve(w, "usdc"), weth |-> Reserve(w, "weth")]
      Scanned(cand) == IF cand = None THEN Skip
                       ELSE [svc EXCEPT !.pc = "simulate", !.cand = cand]
  IN  /\ svc.pc = "read"
      /\ svc' = Scanned(ScanDexArb(svc.snap, Reserves(StateAt(svc.snap.block))))
      /\ UNCHANGED <<order, chain, sent, budget>>

\* The state eth_call runs on: the executor's code and owner are put in place
\* and it is given the subsidy.
Overridden(w) == [w EXCEPT !.owner = SimOwner, !.held = [usdc |-> Subsidy, weth |-> 0]]

Outcome(raw) ==
  CASE raw.error # "SimulationResult" -> "reverted"
    [] raw.error = "SimulationResult" /\ raw.profit - GasCost > 0 -> "profitable"
    [] OTHER -> "unprofitable"

\* ExecutorSimulator.simulate: the constructor and the balance slot are asked
\* for until known (`ready'), then the call itself.
SimulateAndRecord ==
  LET Recorded(raw) ==
        [svc EXCEPT !.pc = "idle", !.state = "ok", !.ready = TRUE, !.lastBlock = svc.snap.block,
                    !.result = [cand |-> svc.cand, raw |-> raw, outcome |-> Outcome(raw),
                                forked |-> svc.forked],
                    !.snap = None, !.cand = None, !.forked = FALSE]
  IN  /\ svc.pc = "simulate"
      /\ svc' = Recorded(SimulateCall(Overridden(StateAt(svc.snap.block)), SimOwner,
                            [direction |-> svc.cand.direction, amount |-> svc.cand.amount,
                             minProfit |-> 0]))
      /\ UNCHANGED <<order, chain, sent, budget>>

\* A request fails, or the endpoint cannot simulate.  The block stays due.
RunFails(why) ==
  /\ svc.pc # "idle"
  /\ budget.faults > 0
  /\ why = "backend" => svc.pc = "simulate" /\ ~svc.ready
  /\ budget' = [budget EXCEPT !.faults = @ - 1]
  /\ svc' = Skip
  /\ UNCHANGED <<order, chain, sent>>

FirstOwner == CHOOSE a \in Owners : TRUE

\* A handover is pending at the start.
\* FlashArbService as it is built: nothing read, no block simulated yet.
NewService ==
  [pc |-> "idle", calls |-> 0, state |-> "waiting", lastBlock |-> 0, window |-> None,
   snap |-> None, cand |-> None, ready |-> FALSE, result |-> None, forked |-> FALSE]

Init ==
  /\ order \in Orders
  /\ chain = << [price |-> Q96, tick |-> GetTickAtSqrtRatio(Q96),
                 minted |-> {BaseRange} \union Others, r |-> StartReserves,
                 held |-> [t \in Tokens |-> 0], given |-> [t \in Tokens |-> 0],
                 wallet |-> [a \in Accounts |-> 0],
                 owner |-> FirstOwner, pending |-> CHOOSE a \in Owners : a # FirstOwner] >>
  /\ sent = None
  /\ svc = NewService
  /\ budget = [reorgs |-> MaxReorgs, runs |-> MaxRuns, faults |-> MaxFaults]

Next ==
  \/ \E tx \in Transactions(Tip) : Mine(tx)
  \/ Len(chain) > 1 /\ \E tx \in Transactions(chain[Len(chain) - 1]) : Reorg(tx)
  \/ \E live \in BOOLEAN, refresh \in BOOLEAN : RunStarts(live, refresh)
  \/ ReadAndScan
  \/ SimulateAndRecord
  \/ \E why \in {"error", "backend"} : RunFails(why)

Spec == Init /\ [][Next]_vars

-----------------------------------------------------------------------------
(* Properties *)

\* The contract keeps nothing of a trade and never pays for one with what it
\* was sent by mistake: on every block, whatever was executed, simulated,
\* handed over or recovered, it holds exactly the gifts nobody recovered
\* (specs/003 FR-004: "end every trade with zero balance").
HeldIsGifts == \A n \in 1..Len(chain) : chain[n].held = chain[n].given

\* An execute that is refused is refused before a token moves: never by the V2
\* pair's invariant, never for want of balance, never by the V3 pool.  The
\* amounts getAmountOut and getAmountIn compute are always accepted.
RefusedBeforeMoving ==
  (sent # None /\ sent.kind = "execute") =>
    sent.error \in {"none", "Unauthorized", "Expired", "InvalidAmount", "InvalidCallback",
                    "InsufficientProfit"}

\* An execute that commits pays its caller, who is the owner, what was asked
\* for or more, and touches nobody else's wallet; nothing else pays anybody.
OwnerIsPaid ==
  [][chain' # chain =>
       LET n == Len(chain')
           before == chain[n - 1].wallet
           after == chain'[n].wallet
           paid == sent'.kind = "execute" /\ sent'.error = "none"
       IN  n > 1 =>
             \A a \in Accounts :
               IF paid /\ a = chain[n - 1].owner
               THEN after[a] >= before[a] + sent'.minProfit /\ sent'.sender = a
               ELSE after[a] = before[a]]_vars

\* An estimate marked exact is what the executor really does: same legs, same
\* profit, at both orders of the tokens, both directions, with or without a
\* profit, however many blocks arrived since (specs/003 SC-003).  The exception
\* is a reorganisation of the block between the reads (README, section 3).
EstimateIsExact ==
  (svc.result # None /\ svc.result.cand.exact /\ ~svc.result.forked) =>
    LET leg == svc.result.cand.leg
        raw == svc.result.raw
    IN  /\ raw.error = "SimulationResult"
        /\ raw.profit = leg.profit
        /\ raw.v3In = svc.result.cand.amount
        /\ <<raw.v3Out, raw.v2In, raw.v2Out>> = <<leg.v3Out, leg.v2In, leg.v2Out>>
=============================================================================
