---------------------------- MODULE MCSettlement ----------------------------
(***************************************************************************)
(* Instances of Settlement for TLC.                                        *)
(***************************************************************************)
EXTENDS Settlement, TLC

CONSTANTS t1, g1, tb1, r1, r2, r3, p1, p2

HouseKind == (t1 :> "dine_in") @@ (g1 :> "standalone")
HouseTable == (t1 :> tb1) @@ (g1 :> NULL)
MixedKind == (t1 :> "takeaway") @@ (g1 :> "standalone")
MixedTable == (t1 :> NULL) @@ (g1 :> NULL)

OneRefAmount == (p1 :> 1)
TwoRefAmount == (p1 :> 1) @@ (p2 :> 1)

Symmetry == Permutations(Request)

(* The bound of the passing run: units recorded for a tab before it is paid fall short only of two. *)
HouseInit ==
    /\ Init
    /\ orders[g1].quantity = 1
    /\ orders[t1].quantity = 2 =>
         consumption[t1] = 1 /\ orders[t1].approval = "none" /\ orders[t1].kitchen = "clear"

HouseSpec == HouseInit /\ [][Next]_vars

=============================================================================
