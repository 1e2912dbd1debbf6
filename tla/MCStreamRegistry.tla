-------------------------- MODULE MCStreamRegistry --------------------------
(* Two clients that share two keys. *)
EXTENDS StreamRegistry

CONSTANTS c1, c2, k1, k2

TwoClients == {c1, c2}
TwoKeys == {k1, k2}

(* The keys are interchangeable: let the first stream be that of k1.  Only
   Subscribe, which is not fair, leads to the states left out.             *)
FirstIsK1 == created > 0 => keyOf[1] = k1
=============================================================================
