------------------------------ MODULE MCOrderWal ------------------------------
(* Instances of OrderWal for TLC: two orders, which may or may not have the
   same client_order_id.                                                    *)
EXTENDS OrderWal, TLC

CONSTANTS o1, o2, a, b

TwoOrders == {o1, o2}
TwoIds == {a, b}

Symmetry == Permutations(TwoOrders) \cup Permutations(TwoIds)
=============================================================================
