----------------------------- MODULE MCBillDesk -----------------------------
(***************************************************************************)
(* Instances of BillDesk for TLC.                                          *)
(***************************************************************************)
EXTENDS BillDesk, TLC

CONSTANTS t1, g1, tb1, r1, r2, e1, e2, p1

TabKind == (t1 :> "dine_in")
TabTable == (t1 :> tb1)

OneRefAmount == (p1 :> 1)

Symmetry == Permutations(Request) \cup Permutations(Editor)

=============================================================================
