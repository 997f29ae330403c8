---------------------------- MODULE MCStockLedger ----------------------------
(***************************************************************************)
(* Instances of StockLedger for TLC.                                       *)
(***************************************************************************)
EXTENDS StockLedger, TLC

CONSTANTS t1, t2, o1, o2, o3, c1, c2, c3

Symmetry == Permutations(Tab) \cup Permutations(Order) \cup Permutations(Call)

=============================================================================
