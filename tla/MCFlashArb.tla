----------------------------- MODULE MCFlashArb -----------------------------
(* Model checking FlashArb: the pool of MCLpBook, with a range below the     *)
(* price, and a V2 pair beside it.                                          *)
EXTENDS FlashArb

MCMultiplier == [b \in {1, 2, 4, 8} |-> CASE b = 1 -> 1037 [] b = 2 -> 829
                                          [] b = 4 -> 531 [] b = 8 -> 217]
MCBaseRange == [lower |-> -8, upper |-> 8, liq |-> 200]
MCOthers == {[lower |-> -2, upper |-> 0, liq |-> 250]}
MCReserves == <<260, 155>>
MCOrders == {[v3 |-> TRUE, v2 |-> FALSE], [v3 |-> FALSE, v2 |-> TRUE]}
=============================================================================
