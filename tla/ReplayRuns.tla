----------------------------- MODULE ReplayRuns -----------------------------
(***************************************************************************)
(* What the clients of the engine are promised of replay runs, whatever    *)
(* threads, stop events and tasks bring it about.  A strategy is busy with *)
(* one run at most.  A run sees the loaded data from the first item on; it *)
(* returns when it has seen all of it, or because a stop was meant for it, *)
(* never for the stop of another run.  Its end is reported once, before    *)
(* its strategy is free again, unless its configuration was refused.  Only *)
(* of a run the engine gave up waiting for is the end not promised.        *)
(***************************************************************************)
EXTENDS Naturals

CONSTANTS
    Strategies,   \* the strategy ids clients may name
    MaxRuns,      \* bound: runs
    NumItems      \* items of the loaded data

VARIABLES
    state,     \* the state the clients are shown
    holder,    \* the run each strategy is busy with, or 0
    life,      \* none, active, ended, or abandoned by the engine
    outcome,   \* none, returned, raised, or refused for its configuration
    seen,      \* items each run has processed
    asked,     \* the runs some stop was meant for
    reports    \* EngineStopped events of each run

runsVars == <<state, holder, life, outcome, seen, asked, reports>>

Active == {r \in 1 .. MaxRuns : life[r] = "active"}

Init ==
    /\ state = "IDLE"
    /\ holder = [s \in Strategies |-> 0]
    /\ life = [r \in 1 .. MaxRuns |-> "none"]
    /\ outcome = [r \in 1 .. MaxRuns |-> "none"]
    /\ seen = [r \in 1 .. MaxRuns |-> 0]
    /\ asked = {}
    /\ reports = [r \in 1 .. MaxRuns |-> 0]

Turns(from, to) ==
    /\ state = from
    /\ state' = to
    /\ UNCHANGED <<holder, life, outcome, seen, asked, reports>>

Loads == Turns("IDLE", "LOADED")
Pauses == Turns("RUNNING", "PAUSED")
Resumes == Turns("PAUSED", "RUNNING")

Accepts(s, r) ==
    /\ state = "LOADED"
    /\ holder[s] = 0
    /\ life[r] = "none"
    /\ state' = "RUNNING"
    /\ holder' = [holder EXCEPT ![s] = r]
    /\ life' = [life EXCEPT ![r] = "active"]
    /\ UNCHANGED <<outcome, seen, asked, reports>>

(* A stop of some runs; of none when it names no run there is, or when the
   last client has left.                                                    *)
Stops ==
    /\ \/ state = "RUNNING" /\ state' = "STOPPING"
       \/ state' = "IDLE"
    /\ \E R \in SUBSET Active : asked' = asked \cup R
    /\ UNCHANGED <<holder, life, outcome, seen, reports>>

(* The run is under way, and nothing has been said of its end. *)
UnderWay(r) ==
    /\ life[r] # "none"
    /\ outcome[r] = "none"
    /\ life[r] = "active" => reports[r] = 0

Sees(r) ==
    /\ UnderWay(r)
    /\ seen[r] < NumItems
    /\ seen' = [seen EXCEPT ![r] = @ + 1]
    /\ UNCHANGED <<state, holder, life, outcome, asked, reports>>

Returns(r) ==
    /\ UnderWay(r)
    /\ seen[r] = NumItems \/ r \in asked \/ life[r] = "abandoned"
    /\ outcome' = [outcome EXCEPT ![r] = "returned"]
    /\ reports' = [reports EXCEPT ![r] = @ + 1]
    /\ UNCHANGED <<state, holder, life, seen, asked>>

Fails(r) ==
    /\ UnderWay(r)
    /\ \/ /\ outcome' = [outcome EXCEPT ![r] = "refused"]
          /\ UNCHANGED reports
       \/ /\ outcome' = [outcome EXCEPT ![r] = "raised"]
          /\ reports' \in {reports, [reports EXCEPT ![r] = @ + 1]}
    /\ UNCHANGED <<state, holder, life, seen, asked>>

(* Its strategy is free, and a session that is active is over. *)
Leaves(r) ==
    /\ life[r] = "active"
    /\ holder' = [s \in Strategies |-> IF holder[s] = r THEN 0 ELSE holder[s]]
    /\ state' = IF state \in {"RUNNING", "PAUSED", "STOPPING"} THEN "IDLE" ELSE state
    /\ UNCHANGED <<outcome, seen, asked>>

Ends(r) ==
    /\ outcome[r] # "none"
    /\ Leaves(r)
    /\ life' = [life EXCEPT ![r] = "ended"]
    /\ reports' = [reports EXCEPT ![r] = IF outcome[r] = "refused" THEN 0 ELSE 1]

Abandoned(r) ==
    /\ Leaves(r)
    /\ life' = [life EXCEPT ![r] = "abandoned"]
    /\ reports' \in {reports, [reports EXCEPT ![r] = 1]}

Next ==
    \/ Loads \/ Pauses \/ Resumes \/ Stops
    \/ \E r \in 1 .. MaxRuns :
          \/ \E s \in Strategies : Accepts(s, r)
          \/ Sees(r) \/ Returns(r) \/ Fails(r) \/ Ends(r) \/ Abandoned(r)

Spec == Init /\ [][Next]_runsVars
=============================================================================
