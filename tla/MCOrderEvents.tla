--------------------------- MODULE MCOrderEvents ---------------------------
(* Two orders of two, three notices between them. *)
EXTENDS OrderEvents, TLC

CONSTANTS o1, o2

TwoOrders == {o1, o2}
OneOrder == {o1}
=============================================================================
