---------------------------- MODULE MCKabuPush ----------------------------
(* Two clients, two symbols of which one fits, one kind of stream; both kinds
   are for the statements of the README that are refuted.                  *)
EXTENDS KabuPush, TLC

CONSTANTS c1, c2, s1, s2, depth, trade

TwoClients == {c1, c2}
TwoSymbols == {s1, s2}
OneKind == {depth}
TwoKinds == {depth, trade}
=============================================================================
