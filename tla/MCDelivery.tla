----------------------------- MODULE MCDelivery -----------------------------
(***************************************************************************)
(* Instances of Delivery for TLC.                                          *)
(***************************************************************************)
EXTENDS Delivery, TLC

CONSTANTS g1, o1, o2, d1, d2, ri1, ri2, b1, b2, c1, c2

OneGroup == [o \in Order |-> g1]

Symmetry ==
    Permutations(Order) \cup Permutations(DeliveryId) \cup Permutations(Rider)
        \cup Permutations(BatchId) \cup Permutations(Call)

=============================================================================
