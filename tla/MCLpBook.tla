------------------------------ MODULE MCLpBook ------------------------------
(* Model checking LpBook: one tick is a factor of 1.25 in the square root of *)
(* the price, 2^32 is 4.                                                     *)
EXTENDS LpBook

MCMultiplier == [b \in {1, 2, 4, 8} |-> CASE b = 1 -> 204 [] b = 2 -> 163
                                          [] b = 4 -> 104 [] b = 8 -> 42]
MCBaseRange == [lower |-> -8, upper |-> 8, liq |-> 200]
MCOthers == {[lower |-> -2, upper |-> 2, liq |-> 250]}
MCCenters == {0, Unit * 3}
=============================================================================
