--------------------------- MODULE MCReplayEngine ---------------------------
(* Instances of ReplayEngine for TLC: two strategies, whose runs may overlap. *)
EXTENDS ReplayEngine, TLC

CONSTANTS sA, sB

TwoStrategies == {sA, sB}

(* The strategies are interchangeable: let the first run be one of sA.  A
   state left out is a renaming of one that is not, and StartEngine, the only
   action that leads there, is not fair; symmetry would not do for liveness.  *)
FirstIsA == sid[1] # sB

(* Bound: steps are asked for while there is one run.  StartEngine forgets what
   is left of them, so only StepReplay, which is not fair either, leads out.  *)
StepsInFirstRun == stepRequest > 0 => nextRun = 1
=============================================================================
