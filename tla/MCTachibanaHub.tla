--------------------------- MODULE MCTachibanaHub ---------------------------
(* Two stream coroutines and two sessions. *)
EXTENDS TachibanaHub, TLC
=============================================================================
