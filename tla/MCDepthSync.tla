---------------------------- MODULE MCDepthSync ----------------------------
(* Two price levels over three versions; the queue of a syncer holds one
   difference, so that it overflows.                                       *)
EXTENDS DepthSync

CONSTANTS bid, ask
TwoLevels == {bid, ask}
ThreeVersions == [k \in 1 .. 3 |-> IF k \in {1, 3} THEN bid ELSE ask]
=============================================================================
