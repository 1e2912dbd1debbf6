-------------------------- MODULE MCOrderPassword --------------------------
(* Two or three orders at a time, three entries, two order clients. *)
EXTENDS OrderPassword, TLC

CONSTANTS o1, o2, o3

TwoOrders == {o1, o2}
ThreeOrders == {o1, o2, o3}
=============================================================================
