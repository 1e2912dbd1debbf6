------------------------ MODULE MCEngineConnections ------------------------
(* Instances of EngineConnections for TLC: three sessions, of which at
   most two are registered at a time, and one request for each broker.     *)
EXTENDS EngineConnections

CONSTANTS c1, c2, c3, r1, q1

ThreeSessions == {c1, c2, c3}
TachibanaRequest == {r1}
KabuRequest == {q1}

(* Sessions are interchangeable: only one order of their starts is checked. *)
StartInOrder ==
    /\ phase[c2] # "new" => phase[c1] # "new"
    /\ phase[c3] # "new" => phase[c2] # "new"

(* Bound: a behaviour that has both a request and an overlap ends there. *)
RequestsApart == overlap => asked = {}
=============================================================================
