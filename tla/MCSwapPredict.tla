--------------------------- MODULE MCSwapPredict ----------------------------
(* Model checking SwapPredict: a pool as in MCFlashArb, one announced           *)
(* transaction of every route, and what others do around it.                  *)
EXTENDS SwapPredict

MCMultiplier == [b \in {1, 2, 4, 8} |-> CASE b = 1 -> 1037 [] b = 2 -> 829
                                          [] b = 4 -> 531 [] b = 8 -> 217]
MCBaseRange == [lower |-> -8, upper |-> 8, liq |-> 60]
MCReserves == [usdc |-> 260, weth |-> 255]
MCOrders == {[v3 |-> TRUE, v2 |-> FALSE], [v3 |-> FALSE, v2 |-> TRUE]}

Tx(to, cmds, value, deadline) ==
  [to |-> to, cmds |-> cmds, value |-> value, deadline |-> deadline,
   multi |-> Len(cmds) > 1, mentions |-> to = "other"]
Cmd(op, path, amount, limit) ==
  [op |-> op, path |-> path, amount |-> amount, limit |-> limit, price |-> 0, keep |-> FALSE]
Hop(a, b) == [a |-> a, fee |-> V3Fee, b |-> b]
Buy == << Hop("usdc", "weth") >>
Sell == << Hop("weth", "usdc") >>
OtherFee == << [a |-> "usdc", fee |-> V3Fee + 1, b |-> "weth"] >>
Wrap(amount) == Cmd("wrap", << >>, amount, 0)
Anything == 1000

\* The deadline 12 is that of the next block, 11 has passed by then.
MCCalls ==
  {Tx("v2_router", << Cmd("v2_in", Buy, 30, 24) >>, 0, 12),
   Tx("v2_router", << Cmd("v2_out", Sell, 20, 22) >>, 0, 11),
   Tx("v2_router", << Cmd("eth_in", Sell \o << Hop("usdc", "dai") >>, 0, 5) >>, 20, 24),
   Tx("v2_router", << Cmd("eth_out", Sell, 15, 0) >>, 18, 24),
   Tx("v2_router", << Cmd("v2_in", << Hop("dai", "usdc") >> \o Buy, 40, 15) >>, 0, 24),
   Tx("v2_router", << Cmd("add_liquidity", Buy, 5, 0) >>, 0, 24),
   Tx("swap_router", << [Cmd("v3_in", Sell, 40, 1) EXCEPT !.price = 180] >>, 0, 24),
   Tx("swap_router", << [Cmd("v3_in", Buy, 25, 1) EXCEPT !.price = 230] >>, 0, 24),
   Tx("swap_router", << Cmd("v3_out", Buy \o << Hop("weth", "dai") >>, 12, Anything) >>, 0, 12),
   Tx("swap_router", << Cmd("v3_out", << Hop("dai", "usdc") >> \o Buy, 6, Anything) >>, 0, 24),
   Tx("swap_router", << Cmd("v3_in", OtherFee, 20, 0) >>, 0, 24),
   Tx("swap_router02", << Wrap(20), Cmd("v3_in", Sell, 0, 17) >>, 20, 24),
   Tx("swap_router02", << Cmd("v2_in", Buy, 20, 1), Cmd("v3_in", Sell, 18, 1) >>, 0, 24),
   Tx("swap_router02", << [Cmd("v2_in", Buy, 20, 1) EXCEPT !.keep = TRUE],
                          Cmd("v3_in", Sell, 0, 1) >>, 0, NoAmount),
   Tx("universal_router", << Wrap(UrBalance), Cmd("v3_in", Sell, UrBalance, 15),
                             Cmd("v2_out", Sell, 10, Anything) >>, 30, NoAmount),
   Tx("universal_router", << Cmd("v3_in", << Hop("dai", "usdc") >> \o Buy, 50, 20),
                             Cmd("v3_out", Sell, 10, 12) >>, 0, 12),
   Tx("universal_router", << Cmd("v2_in", Buy, 10, 1),
                             [op |-> "pay", usdcIn |-> TRUE, in |-> 12, out |-> 10] >>, 0, 12),
   Tx("v2_pair", << [op |-> "swap", out0 |-> 10, out1 |-> 0, payload |-> FALSE,
                     pays |-> 11] >>, 0, NoAmount),
   Tx("v2_pair", << [op |-> "swap", out0 |-> 10, out1 |-> 10, payload |-> TRUE,
                     pays |-> 30] >>, 0, NoAmount),
   Tx("v3_pool", << [op |-> "swap", zeroForOne |-> TRUE, amount |-> -15, price |-> 200] >>,
      0, NoAmount)}

Swap3(usdcFirst, amount, price) ==
  Tx("v3_pool", << [op |-> "swap", zeroForOne |-> usdcFirst, amount |-> amount,
                    price |-> price] >>, 0, NoAmount)
Low == [lower |-> -2, upper |-> 0, liq |-> 90]
High == [lower |-> 0, upper |-> 2, liq |-> 90]

MCOthers ==
  {Swap3(TRUE, 110, 0), Swap3(FALSE, 60, 235), Swap3(TRUE, -8, 0),
   Tx("other", << [op |-> "pay", usdcIn |-> TRUE, in |-> 30, out |-> 20] >>, 0, NoAmount),
   Tx("other", << [op |-> "add", usdc |-> 26, weth |-> 25],
                  [op |-> "pay", usdcIn |-> FALSE, in |-> 20, out |-> 18] >>, 0, NoAmount),
   Tx("other", << [op |-> "mint", range |-> Low], [op |-> "mint", range |-> High] >>, 0, NoAmount),
   Tx("other", << [op |-> "burn", range |-> Low], [op |-> "poke", range |-> High] >>, 0, NoAmount)}
=============================================================================
