--------------------------- MODULE RouterDecoder ----------------------------
(***************************************************************************)
(* app/services/mempool/router_decoder.py: what a pending transaction will  *)
(* do to the two pools.  Calldata is a sequence of commands, of which a     *)
(* plain call has one; the parsing of bytes is left out.                    *)
(*                                                                         *)
(*   tx       to, cmds, value (ETH sent), deadline, multi (a multicall),    *)
(*            mentions (the address of a pool is in the data)               *)
(*   command  op, path, amount, limit, price                                *)
(*   path     a sequence of hops [a, fee, b]; for a V3 exact output it is   *)
(*            reversed, the output first                                    *)
(***************************************************************************)
EXTENDS Integers, Sequences, SequencesExt, FiniteSets, FiniteSetsExt

CONSTANTS
  V3Fee,          \* fee of the V3 pool that is watched
  UrBalance,      \* UR_CONTRACT_BALANCE
  Sr02Balance     \* SR02_CONTRACT_BALANCE

NoAmount == -1    \* None, for an amount, a limit or a deadline

IsPair(hop) == {hop.a, hop.b} = {"usdc", "weth"}
Ours(pool, hop) == IsPair(hop) /\ (pool = "v3" => hop.fee = V3Fee)
OurHops(pool, path) == {i \in DOMAIN path : Ours(pool, path[i])}
Direction(tokenIn) == IF tokenIn = "weth" THEN "sell_weth" ELSE "buy_weth"

Leg(pool, direction, kind, amount, limit) ==
  [pool |-> pool, direction |-> direction, kind |-> kind, amount |-> amount, limit |-> limit,
   price |-> 0, fixedOut |-> 0, prefix |-> << >>, upstream |-> 0, flags |-> {}]

-----------------------------------------------------------------------------
(* _Builder: the legs so far, and whether a hop could not be decoded        *)

NoLegs == [legs |-> << >>, undecodable |-> FALSE]
Undecodable(b) == [b EXCEPT !.undecodable = TRUE]
Add(b, legs) == [b EXCEPT !.legs = @ \o legs]

\* Mutant: the quote of a later hop leaves the last hop before it out.
ExactInLegShort(pool, path, i, amount, minOut, price) ==
  LET base == Leg(pool, Direction(path[i].a), "exact_in", IF i = 1 THEN amount ELSE NoAmount,
                  IF i = Len(path) THEN minOut ELSE NoAmount)
  IN  IF i = 1 THEN [base EXCEPT !.price = price]
      ELSE [base EXCEPT !.prefix = SubSeq(path, 1, i - 2), !.upstream = amount,
                        !.flags = {"upstream_quoted"}]

\* The limit of a route binds its last hop, a price limit its first, and a hop
\* that is not the first gets its amount from a quote of the hops before it.
ExactInLeg(pool, path, i, amount, minOut, price) ==
  LET base == Leg(pool, Direction(path[i].a), "exact_in", IF i = 1 THEN amount ELSE NoAmount,
                  IF i = Len(path) THEN minOut ELSE NoAmount)
  IN  IF i = 1 THEN [base EXCEPT !.price = price]
      ELSE [base EXCEPT !.prefix = SubSeq(path, 1, i - 1), !.upstream = amount,
                        !.flags = {"upstream_quoted"}]

ExactIn(b, pool, path, amount, minOut, price) ==
  LET hops == SetToSortSeq(OurHops(pool, path), <)
  IN  CASE hops = << >> -> b
        [] hops # << >> /\ amount = NoAmount -> Undecodable(b)
        [] OTHER -> Add(b, [k \in DOMAIN hops |->
                              ExactInLeg(pool, path, hops[k], amount, minOut, price)])

\* Only the hop next to the fixed amount: the first of a V3 path, the last of
\* a V2 path.  The limit binds the input of the whole route.
ExactOut(b, pool, path, amountOut, maxIn, price) ==
  LET fixed == IF pool = "v3" THEN 1 ELSE Len(path)
      hop == path[fixed]
      leg == Leg(pool, Direction(IF pool = "v3" THEN hop.b ELSE hop.a), "exact_out", amountOut,
                 IF Len(path) = 1 THEN maxIn ELSE NoAmount)
  IN  CASE OurHops(pool, path) = {} -> b
        [] OurHops(pool, path) = {fixed} -> Add(b, << [leg EXCEPT !.price = price] >>)
        [] OTHER -> Undecodable(b)

-----------------------------------------------------------------------------
(* The targets.  Each gives a builder.                                     *)

DecodeV2Router(tx) ==
  LET cmd == tx.cmds[1]
  IN  CASE cmd.op = "v2_in" -> ExactIn(NoLegs, "v2", cmd.path, cmd.amount, cmd.limit, 0)
        [] cmd.op = "v2_out" -> ExactOut(NoLegs, "v2", cmd.path, cmd.amount, cmd.limit, 0)
        [] cmd.op = "eth_in" -> ExactIn(NoLegs, "v2", cmd.path, tx.value, cmd.limit, 0)
        [] cmd.op = "eth_out" -> ExactOut(NoLegs, "v2", cmd.path, cmd.amount, tx.value, 0)
        [] OTHER -> NoLegs

SrAmount(tx, cmd) ==
  IF tx.to = "swap_router02" /\ cmd.amount = Sr02Balance
  THEN IF tx.value > 0 /\ cmd.path[1].a = "weth" THEN tx.value ELSE NoAmount
  ELSE cmd.amount

SrSwaps(tx) == {"v3_in", "v3_out"} \union (IF tx.to = "swap_router02" THEN {"v2_in", "v2_out"}
                                                                   ELSE {})

\* A call inside a multicall that is not a swap is passed over.
DecodeSwapRouter(tx) ==
  LET Command(b, cmd) ==
        CASE cmd.op \notin SrSwaps(tx) -> b
          [] cmd.op \in SrSwaps(tx) /\ cmd.op = "v3_in" ->
               ExactIn(b, "v3", cmd.path, SrAmount(tx, cmd), cmd.limit, cmd.price)
          [] cmd.op \in SrSwaps(tx) /\ cmd.op = "v2_in" ->
               ExactIn(b, "v2", cmd.path, SrAmount(tx, cmd), cmd.limit, 0)
          [] cmd.op \in SrSwaps(tx) /\ cmd.op = "v3_out" ->
               ExactOut(b, "v3", cmd.path, cmd.amount, cmd.limit, cmd.price)
          [] OTHER -> ExactOut(b, "v2", cmd.path, cmd.amount, cmd.limit, 0)
  IN  FoldLeft(Command, NoLegs, tx.cmds)

\* The builder and what is left of the wrapped ether, which the first command
\* that spends the router's balance uses up.
UniversalIn(u, pool, cmd) ==
  LET all == cmd.amount = UrBalance
  IN  [b |-> ExactIn(u.b, pool, cmd.path, IF all THEN u.wrapped ELSE cmd.amount, cmd.limit, 0),
       wrapped |-> IF all THEN NoAmount ELSE u.wrapped]

DecodeUniversalRouter(tx) ==
  LET Command(u, cmd) ==
        CASE u.b.undecodable -> u
          [] ~u.b.undecodable /\ cmd.op = "wrap" ->
               [u EXCEPT !.wrapped = IF cmd.amount = UrBalance THEN tx.value ELSE cmd.amount]
          [] ~u.b.undecodable /\ cmd.op \in {"v3_in", "v2_in"} ->
               UniversalIn(u, IF cmd.op = "v3_in" THEN "v3" ELSE "v2", cmd)
          [] ~u.b.undecodable /\ cmd.op \in {"v3_out", "v2_out"} ->
               [u EXCEPT !.b = ExactOut(u.b, IF cmd.op = "v3_out" THEN "v3" ELSE "v2", cmd.path,
                                        cmd.amount, cmd.limit, 0)]
          [] OTHER -> u
  IN  FoldLeft(Command, [b |-> NoLegs, wrapped |-> NoAmount], tx.cmds).b

\* A direct call of the pair names its outputs; the input is worked out from them.
DecodeV2Pair(cmd, usdcIsToken0) ==
  LET leg == Leg("v2", IF (cmd.out0 > 0) = usdcIsToken0 THEN "sell_weth" ELSE "buy_weth",
                 "exact_out", cmd.out0 + cmd.out1, NoAmount)
  IN  IF cmd.payload \/ (cmd.out0 > 0 /\ cmd.out1 > 0) \/ (cmd.out0 = 0 /\ cmd.out1 = 0)
      THEN Undecodable(NoLegs)
      ELSE Add(NoLegs, << [leg EXCEPT !.flags = {"input_inferred"}] >>)

DecodeV3Pool(cmd, usdcIsToken0) ==
  LET leg == Leg("v3", IF cmd.zeroForOne = usdcIsToken0 THEN "buy_weth" ELSE "sell_weth",
                 IF cmd.amount > 0 THEN "exact_in" ELSE "exact_out",
                 IF cmd.amount > 0 THEN cmd.amount ELSE -cmd.amount, NoAmount)
  IN  Add(NoLegs, << [leg EXCEPT !.price = cmd.price] >>)

\* Where the call itself is not known a KeyError ends the decoding: inside a
\* multicall it does not, and the V2 router answers without one.
UnknownCall(tx) ==
  \/ tx.to = "other"
  \/ tx.to \in {"swap_router", "swap_router02"} /\ ~tx.multi /\ tx.cmds[1].op \notin SrSwaps(tx)
  \/ tx.to \in {"v2_pair", "v3_pool"} /\ tx.cmds[1].op # "swap"

Builder(tx, v2UsdcIs0, v3UsdcIs0) ==
  CASE tx.to = "v2_router" -> DecodeV2Router(tx)
    [] tx.to \in {"swap_router", "swap_router02"} -> DecodeSwapRouter(tx)
    [] tx.to = "universal_router" -> DecodeUniversalRouter(tx)
    [] tx.to = "v2_pair" -> DecodeV2Pair(tx.cmds[1], v2UsdcIs0)
    [] tx.to = "v3_pool" -> DecodeV3Pool(tx.cmds[1], v3UsdcIs0)

\* `not_decoded' is counted and never predicted, `unrelated' is dropped.
DecodeTransaction(tx, v2UsdcIs0, v3UsdcIs0) ==
  LET Result(b) == CASE b.undecodable -> [kind |-> "not_decoded"]
                     [] ~b.undecodable /\ b.legs = << >> -> [kind |-> "unrelated"]
                     [] OTHER -> [kind |-> "decoded", legs |-> b.legs,
                                  deadline |-> IF tx.to \in {"v2_pair", "v3_pool"} THEN NoAmount
                                               ELSE tx.deadline]
  IN  IF UnknownCall(tx)
      THEN [kind |-> IF tx.mentions THEN "not_decoded" ELSE "unrelated"]
      ELSE Result(Builder(tx, v2UsdcIs0, v3UsdcIs0))
=============================================================================
