---------------------------- MODULE MCShadowEval ----------------------------
(* One session: orders at 2, and books that cross a bid there, or an ask, or  *)
(* lack a side.                                                               *)
EXTENDS ShadowEval

PricesDef == [bid |-> {2}, ask |-> {2}]
Book(bid, ask, bidSize, askSize) == [bid |-> bid, ask |-> ask, bidSize |-> bidSize, askSize |-> askSize]
BooksDef == {Book(1, 2, 1, 1), Book(2, 3, 1, 2), Book(1, None, 1, 0)}

\* A fixed draw: any function of its key serves, this one takes every value.
DrawDef(key, n) == (Len(key) * 3 + key[Len(key)] * 5 + n * 7) % Units
=============================================================================
