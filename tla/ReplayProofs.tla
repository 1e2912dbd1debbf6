---------------------------- MODULE ReplayProofs ----------------------------
(***************************************************************************)
(* Proofs about ReplayEngine, the engine that runs replays, and            *)
(* ScriptSession, the script that drives one, for every value of their     *)
(* constants.  The invariant IInv of the engine adds to the checked        *)
(* properties what ties the run numbers, the stop events and the           *)
(* EngineStopped reports to the progress of the coroutine and of the       *)
(* thread of each run; ScriptInv follows an EngineStopped from the engine  *)
(* to the end of run().                                                    *)
(***************************************************************************)
EXTENDS ReplayEngine, ScriptSession, SequenceTheorems, TLAPS

-----------------------------------------------------------------------------
LEMMA InitIInv == Init => IInv
<1> SUFFICES ASSUME Init PROVE IInv
  OBVIOUS
<1> USE DEF Init
<1>1. TypeOK
  <2>1. stopFlag \in [Runs -> BOOLEAN] /\ paused \in BOOLEAN
    OBVIOUS
  <2>2. replayState \in ReplayStates /\ co \in [Runs -> CoroutineStates]
        /\ thread \in [Runs -> ThreadStates]
    BY DEF ReplayStates, CoroutineStates, ThreadStates
  <2>3. 0 \in 0 .. MaxEpoch /\ 0 \in 0 .. MaxSteps /\ 0 \in 0 .. MaxRuns /\ 0 \in 0 .. NumItems
    BY ReplayAssumption
  <2> QED
    BY <2>1, <2>2, <2>3 DEF TypeOK
<1>2. FreshRuns
  <2> SUFFICES ASSUME NEW r \in Runs
               PROVE  /\ r > nextRun
                      /\ co[r] = "none" /\ thread[r] = "none" /\ evt[r] = NoRun
    BY DEF FreshRuns
  <2> QED
    BY ReplayAssumption DEF Runs
<1>3. TasksMatchCoroutines
  BY DEF TasksMatchCoroutines, NoRun
<1>4. ReportsCounted
  <2> SUFFICES ASSUME NEW r \in Runs
               PROVE  /\ co[r] = "none" /\ thread[r] = "none"
                      /\ stoppedSent[r] = 0 /\ ~stopFlag[r]
    BY DEF ReportsCounted
  <2> QED
    OBVIOUS
<1>5. StoppedOnce /\ ActiveHasRunner /\ PausedAgrees
  BY DEF StoppedOnce, ActiveHasRunner, PausedAgrees, ActiveStates
<1>6. EventsOwned
  BY DEF EventsOwned, NoRun
<1> QED
  BY <1>1, <1>2, <1>3, <1>4, <1>5, <1>6 DEF IInv

LEMMA ThreadKeepsLoop ==
  ASSUME NEW r \in Runs, Thread(r)
  PROVE  UNCHANGED loopVars
  BY DEF Thread, ThreadPickUp, ThreadBadConfig, ThreadArm, ThreadStart, ThreadPass,
         ThreadItem, ThreadReturn, ThreadRaise

(* Every step leaves the registry alone, starts a run or ends a coroutine. *)
LEMMA RegistrySteps ==
  ASSUME [Next]_vars
  PROVE  \/ UNCHANGED <<engineTasks, runVars>>
         \/ \E s \in Strategies : StartEngine(s)
         \/ \E r \in Runs : Coroutine(r)
<1>1. CASE Command
  BY <1>1 DEF Command, LoadReplayData, StopEngine, PauseReplay, ResumeReplay, StepReplay,
              StopReplay, ForceStopReplay, CancelBegin, CancelEnd, runVars, loopVars
<1>2. CASE UNCHANGED vars
  BY <1>2 DEF vars, loopVars
<1> QED
  BY <1>1, <1>2, ThreadKeepsLoop DEF Next, loopVars

(* Only a start, a thread and the end of a coroutine write what belongs to a run. *)
LEMMA ThreadSteps ==
  ASSUME [Next]_vars
  PROVE  \/ UNCHANGED <<runVars, threadVars>>
         \/ \E s \in Strategies : StartEngine(s)
         \/ \E r \in Runs : Thread(r) \/ Coroutine(r)
<1>1. CASE Command
  BY <1>1 DEF Command, LoadReplayData, StopEngine, PauseReplay, ResumeReplay, StepReplay,
              StopReplay, ForceStopReplay, CancelBegin, CancelEnd, loopVars
<1>2. CASE UNCHANGED vars
  BY <1>2 DEF vars, loopVars
<1> QED
  BY <1>1, <1>2 DEF Next

(* What the four ways a coroutine ends have in common. *)
LEMMA CoroutineEnds ==
  ASSUME NEW r \in Runs, Coroutine(r)
  PROVE  \E how \in {"finished", "timedout", "cancelled"} :
           /\ co[r] = "waiting"
           /\ co' = [co EXCEPT ![r] = how]
           /\ how = "finished" => thread[r] \in {"returned", "noresult", "raised"}
           /\ how = "timedout" => thread[r] \in LiveThread
           /\ engineTasks' = [engineTasks EXCEPT ![sid[r]] = NoRun]
           /\ stopEvents' = [stopEvents EXCEPT ![sid[r]] = NoRun]
           /\ replayState' = IF replayState \in ActiveStates THEN "IDLE" ELSE replayState
           /\ UNCHANGED <<paused, epoch, nextRun, sid, isSet, stopAsked, evt, items, stepRequest>>
           /\ \/ thread' = thread
              \/ thread[r] = "queued" /\ thread' = [thread EXCEPT ![r] = "dropped"]
  BY DEF Coroutine, CoReturn, CoRaise, CoTimeout, CoCancel, Finally, StateReleased,
         EventsWithout, AbandonThread, threadVars

-----------------------------------------------------------------------------
(* TasksMatchCoroutines: a strategy's entry is its waiting run. *)
LEMMA TasksStep == IInv /\ [Next]_vars => TasksMatchCoroutines'
<1> SUFFICES ASSUME IInv, [Next]_vars
             PROVE  TasksMatchCoroutines'
  OBVIOUS
<1> USE DEF IInv, TypeOK
<1>1. CASE UNCHANGED <<engineTasks, runVars>>
  BY <1>1 DEF TasksMatchCoroutines, runVars
<1>2. ASSUME NEW s \in Strategies, StartEngine(s)
      PROVE  TasksMatchCoroutines'
  <2>1. nextRun + 1 \in Runs /\ co[nextRun + 1] = "none"
    BY <1>2, ReplayAssumption DEF StartEngine, FreshRuns, Runs
  <2>2. engineTasks[s] = NoRun
    BY <1>2 DEF StartEngine, StrategyFree
  <2> QED
    BY <1>2, <2>1, <2>2 DEF StartEngine, TasksMatchCoroutines, FreshRuns, Runs, NoRun
<1>3. ASSUME NEW r \in Runs, Coroutine(r)
      PROVE  TasksMatchCoroutines'
  <2>1. sid[r] \in Strategies /\ engineTasks[sid[r]] = r
    BY <1>3, CoroutineEnds DEF FreshRuns, TasksMatchCoroutines
  <2>2. PICK how \in {"finished", "timedout", "cancelled"} :
           /\ co[r] = "waiting"
           /\ co' = [co EXCEPT ![r] = how]
           /\ engineTasks' = [engineTasks EXCEPT ![sid[r]] = NoRun]
           /\ sid' = sid
    BY <1>3, CoroutineEnds
  <2>3. ASSUME NEW s \in Strategies, engineTasks'[s] # NoRun
        PROVE  /\ co'[engineTasks'[s]] = "waiting"
               /\ sid'[engineTasks'[s]] = s
    <3>1. engineTasks'[s] = engineTasks[s] /\ s # sid[r]
      BY <2>1, <2>2, <2>3
    <3>2. engineTasks[s] # r /\ engineTasks[s] \in Runs
      BY <3>1, <2>3, <2>1 DEF TasksMatchCoroutines
    <3> QED
      BY <2>2, <2>3, <3>1, <3>2 DEF TasksMatchCoroutines
  <2>4. ASSUME NEW q \in Runs, co'[q] = "waiting"
        PROVE  engineTasks'[sid'[q]] = q
    <3>1. q # r /\ co[q] = "waiting"
      BY <2>2, <2>4
    <3>2. sid[q] \in Strategies /\ engineTasks[sid[q]] = q
      BY <3>1 DEF TasksMatchCoroutines, FreshRuns
    <3> QED
      BY <2>1, <2>2, <3>1, <3>2
  <2> QED
    BY <2>3, <2>4 DEF TasksMatchCoroutines
<1> QED
  BY <1>1, <1>2, <1>3, RegistrySteps

(* ActiveHasRunner: whatever takes a run out of the registry resets the state. *)
LEMMA ActiveStep == IInv /\ [Next]_vars => ActiveHasRunner'
<1> SUFFICES ASSUME IInv, [Next]_vars
             PROVE  ActiveHasRunner'
  OBVIOUS
<1> USE DEF IInv, TypeOK
<1>1. CASE UNCHANGED <<engineTasks, runVars>>
  <2>1. replayState' \in ActiveStates => replayState \in ActiveStates
    <3>1. CASE Command
      <4>1. \A s \in Strategies : ~StartEngine(s)
        BY <1>1 DEF StartEngine, runVars
      <4> QED
        BY <3>1, <4>1 DEF Command, LoadReplayData, StopEngine, PauseReplay, ResumeReplay,
           StepReplay, StopReplay, ForceStopReplay, CancelBegin, CancelEnd, loopVars,
           ActiveStates
    <3>2. ASSUME NEW r \in Runs, Thread(r) PROVE UNCHANGED replayState
      BY <3>2, ThreadKeepsLoop DEF loopVars
    <3>3. ASSUME NEW r \in Runs, Coroutine(r) PROVE replayState' \notin ActiveStates
      BY <3>3, CoroutineEnds DEF ActiveStates
    <3> QED
      BY <3>1, <3>2, <3>3 DEF Next, vars, loopVars
  <2> QED
    BY <1>1, <2>1 DEF ActiveHasRunner, Registered
<1>2. ASSUME NEW s \in Strategies, StartEngine(s)
      PROVE  ActiveHasRunner'
  <2>1. nextRun + 1 \in Runs
    BY <1>2, ReplayAssumption DEF StartEngine, Runs
  <2>2. engineTasks'[s] = nextRun + 1
    BY <1>2 DEF StartEngine
  <2> QED
    BY <2>1, <2>2 DEF ActiveHasRunner, Registered
<1>3. ASSUME NEW r \in Runs, Coroutine(r)
      PROVE  ActiveHasRunner'
  BY <1>3, CoroutineEnds DEF ActiveHasRunner, ActiveStates
<1> QED
  BY <1>1, <1>2, <1>3, RegistrySteps

(* PausedAgrees: only commands of the event loop touch the flag and the state. *)
LEMMA PausedStep == IInv /\ [Next]_vars => PausedAgrees'
<1> SUFFICES ASSUME IInv, [Next]_vars
             PROVE  PausedAgrees'
  OBVIOUS
<1> USE DEF IInv, PausedAgrees
<1>1. CASE Command
  <2>1. CASE LoadReplayData \/ ForceStopReplay \/ StopReplay
    BY <2>1 DEF LoadReplayData, ForceStopReplay, StopReplay
  <2>2. CASE PauseReplay \/ ResumeReplay
    BY <2>2 DEF PauseReplay, ResumeReplay, PausedOnResume
  <2>3. CASE StepReplay \/ CancelEnd \/ \E why \in {"proxy", "disconnect"} : CancelBegin(why)
    BY <2>3 DEF StepReplay, CancelEnd, CancelBegin, loopVars
  <2>4. ASSUME NEW s \in Strategies, StartEngine(s)
        PROVE  PausedAgrees'
    BY <2>4 DEF StartEngine
  <2>5. ASSUME NEW s \in Strategies \cup {NoStrategy}, StopEngine(s)
        PROVE  PausedAgrees'
    BY <2>5 DEF StopEngine
  <2> QED
    BY <1>1, <2>1, <2>2, <2>3, <2>4, <2>5 DEF Command
<1>2. ASSUME NEW r \in Runs, Thread(r) PROVE UNCHANGED <<replayState, paused>>
  BY <1>2, ThreadKeepsLoop DEF loopVars
<1>3. ASSUME NEW r \in Runs, Coroutine(r) PROVE PausedAgrees'
  BY <1>3, CoroutineEnds DEF ActiveStates
<1> QED
  BY <1>1, <1>2, <1>3 DEF Next, vars, loopVars

(* FreshRuns: numbers are given out once, and threads start after their run. *)
LEMMA FreshStep == IInv /\ [Next]_vars => FreshRuns'
<1> SUFFICES ASSUME IInv, [Next]_vars
             PROVE  FreshRuns'
  OBVIOUS
<1> USE DEF IInv, TypeOK
<1>1. CASE UNCHANGED <<runVars, thread, evt, items>>
  BY <1>1 DEF FreshRuns, runVars
<1>2. ASSUME NEW s \in Strategies, StartEngine(s)
      PROVE  FreshRuns'
  <2>1. nextRun + 1 \in Runs /\ co[nextRun + 1] = "none"
    BY <1>2, ReplayAssumption DEF StartEngine, FreshRuns, Runs
  <2> QED
    BY <1>2, <2>1, ReplayAssumption DEF StartEngine, FreshRuns, Runs, Unarmed
<1>3. ASSUME NEW r \in Runs, Thread(r)
      PROVE  FreshRuns'
  <2>1. UNCHANGED runVars
    BY <1>3, ThreadKeepsLoop DEF loopVars
  <2>2. CASE ThreadPickUp(r) \/ ThreadBadConfig(r) \/ ThreadStart(r)
    BY <2>1, <2>2 DEF ThreadPickUp, ThreadBadConfig, ThreadStart, FreshRuns, runVars, Unarmed
  <2>3. CASE ThreadArm(r)
    BY <2>1, <2>3 DEF ThreadArm, FreshRuns, runVars, Unarmed
  <2>4. CASE ThreadPass(r)
    BY <2>1, <2>4 DEF ThreadPass, FreshRuns, runVars, Unarmed
  <2>5. CASE ThreadItem(r)
    BY <2>1, <2>5 DEF ThreadItem, FreshRuns, runVars, Unarmed
  <2>6. CASE ThreadReturn(r) \/ ThreadRaise(r)
    BY <2>1, <2>6 DEF ThreadReturn, ThreadRaise, FreshRuns, runVars, Unarmed
  <2> QED
    BY <1>3, <2>2, <2>3, <2>4, <2>5, <2>6 DEF Thread
<1>4. ASSUME NEW r \in Runs, Coroutine(r)
      PROVE  FreshRuns'
  BY <1>4, CoroutineEnds DEF FreshRuns, Unarmed
<1> QED
  BY <1>1, <1>2, <1>3, <1>4, ThreadSteps DEF threadVars

(* ReportsCounted and StoppedOnce: a thread reports when it leaves its loop, a
   coroutine only in place of its thread.                                   *)
LEMMA ReportsStep == IInv /\ [Next]_vars => (ReportsCounted /\ StoppedOnce)'
<1> SUFFICES ASSUME IInv, [Next]_vars
             PROVE  (ReportsCounted /\ StoppedOnce)'
  OBVIOUS
<1> USE DEF IInv, TypeOK
<1>1. CASE UNCHANGED <<co, threadVars>>
  BY <1>1 DEF ReportsCounted, StoppedOnce, threadVars
<1>2. ASSUME NEW s \in Strategies, StartEngine(s)
      PROVE  (ReportsCounted /\ StoppedOnce)'
  <2>1. nextRun + 1 \in Runs /\ co[nextRun + 1] = "none" /\ thread[nextRun + 1] = "none"
    BY <1>2, ReplayAssumption DEF StartEngine, FreshRuns, Runs
  <2> QED
    BY <1>2, <2>1 DEF StartEngine, ReportsCounted, StoppedOnce
<1>3. ASSUME NEW r \in Runs, Thread(r)
      PROVE  (ReportsCounted /\ StoppedOnce)'
  <2>1. co' = co
    BY <1>3, ThreadKeepsLoop DEF loopVars, runVars
  <2>2. CASE ThreadPickUp(r) \/ ThreadBadConfig(r) \/ ThreadArm(r) \/ ThreadStart(r)
             \/ ThreadPass(r) \/ ThreadItem(r)
    BY <2>1, <2>2 DEF ThreadPickUp, ThreadBadConfig, ThreadArm, ThreadStart, ThreadPass,
       ThreadItem, ReportsCounted, StoppedOnce
  <2>3. CASE ThreadReturn(r)
    BY <2>1, <2>3 DEF ThreadReturn, EmitStopped, ReportsCounted, StoppedOnce
  <2>4. CASE ThreadRaise(r)
    BY <2>1, <2>4 DEF ThreadRaise, EmitStopped, ReportsCounted, StoppedOnce
  <2> QED
    BY <1>3, <2>2, <2>3, <2>4 DEF Thread
<1>4. ASSUME NEW r \in Runs, CoReturn(r)
      PROVE  (ReportsCounted /\ StoppedOnce)'
  BY <1>4 DEF CoReturn, Finally, threadVars, ReportsCounted, StoppedOnce
<1>5. ASSUME NEW r \in Runs, CoRaise(r)
      PROVE  (ReportsCounted /\ StoppedOnce)'
  BY <1>5 DEF CoRaise, Finally, FallbackStopped, EmitStopped, ReportsCounted, StoppedOnce
<1>6. ASSUME NEW r \in Runs, CoTimeout(r)
      PROVE  (ReportsCounted /\ StoppedOnce)'
  BY <1>6 DEF CoTimeout, Finally, FallbackStopped, EmitStopped, AbandonThread, LiveThread,
     ReportsCounted, StoppedOnce
<1>7. ASSUME NEW r \in Runs, CoCancel(r)
      PROVE  (ReportsCounted /\ StoppedOnce)'
  BY <1>7 DEF CoCancel, Finally, AbandonThread, ReportsCounted, StoppedOnce
<1>8. \/ UNCHANGED <<co, threadVars>>
      \/ \E s \in Strategies : StartEngine(s)
      \/ \E r \in Runs : Thread(r) \/ Coroutine(r)
  BY ThreadSteps DEF runVars, threadVars
<1> QED
  BY <1>1, <1>2, <1>3, <1>4, <1>5, <1>6, <1>7, <1>8 DEF Coroutine

(* What setting the stop events of some registered runs can set. *)
LEMMA EventsOfRegistered ==
  ASSUME IInv, NEW Q \in SUBSET Registered
  PROVE  /\ EventsOf({sid[q] : q \in Q}) \subseteq Runs
         /\ \A e \in EventsOf({sid[q] : q \in Q}) : thread[e] \notin Unarmed
         /\ \A s \in Strategies :
               stopEvents[s] \in EventsOf({sid[q] : q \in Q}) => engineTasks[s] \in Q
<1> USE DEF IInv, TypeOK
<1>1. \A q \in Q : sid[q] \in Strategies /\ engineTasks[sid[q]] = q
  BY DEF Registered, TasksMatchCoroutines, Runs, NoRun
<1>2. ASSUME NEW e \in EventsOf({sid[q] : q \in Q})
      PROVE  /\ e \in Runs /\ thread[e] \notin Unarmed
             /\ sid[e] \in Strategies /\ engineTasks[sid[e]] \in Q
  <2>1. PICK q \in Q : e = stopEvents[sid[q]] /\ e # NoRun
    BY DEF EventsOf
  <2> QED
    BY <1>1, <2>1 DEF EventsOwned
<1>3. ASSUME NEW s \in Strategies, stopEvents[s] \in EventsOf({sid[q] : q \in Q})
      PROVE  engineTasks[s] \in Q
  <2>1. stopEvents[s] # NoRun /\ sid[stopEvents[s]] = s
    BY <1>3 DEF EventsOf, EventsOwned
  <2> QED
    BY <1>2, <1>3, <2>1
<1> QED
  BY <1>2, <1>3

(* EventsOwned: an event is made once, by the thread it is named after, and it is
   set only through the registered run of its strategy.                     *)
LEMMA EventsStep == IInv /\ [Next]_vars => EventsOwned'
<1> SUFFICES ASSUME IInv, [Next]_vars
             PROVE  EventsOwned'
  OBVIOUS
<1> USE DEF IInv, TypeOK
<1>1. CASE UNCHANGED vars
  BY <1>1 DEF EventsOwned, vars, loopVars, runVars, threadVars
<1>2. ASSUME NEW s \in Strategies, StartEngine(s)
      PROVE  EventsOwned'
  <2>1. nextRun + 1 \in Runs /\ co[nextRun + 1] = "none" /\ thread[nextRun + 1] = "none"
    BY <1>2, ReplayAssumption DEF StartEngine, FreshRuns, Runs
  <2>2. engineTasks[s] = NoRun
    BY <1>2 DEF StartEngine, StrategyFree
  <2>3. evt[nextRun + 1] = NoRun
    BY <2>1 DEF FreshRuns, Unarmed
  <2> QED
    BY <1>2, <2>1, <2>2, <2>3 DEF StartEngine, EventsOwned, Unarmed, NoRun, Runs
<1>3. ASSUME NEW s \in Strategies \cup {NoStrategy}, StopEngine(s)
      PROVE  EventsOwned'
  BY <1>3 DEF StopEngine, EventsOf, EventsOwned, runVars, threadVars
<1>4. CASE StopReplay
  <2>1. FirstTask \in SUBSET Registered
    BY DEF FirstTask
  <2>2. /\ isSet' = isSet \cup EventsOf({sid[q] : q \in FirstTask})
        /\ stopAsked' = stopAsked \cup FirstTask
        /\ UNCHANGED <<engineTasks, stopEvents, runVars, threadVars>>
    BY <1>4 DEF StopReplay
  <2> QED
    BY <2>1, <2>2, EventsOfRegistered DEF EventsOwned, runVars, threadVars
<1>5. CASE ForceStopReplay
  <2>1. /\ isSet' = isSet \cup EventsOf({sid[q] : q \in Registered})
        /\ stopAsked' = stopAsked \cup Registered
        /\ UNCHANGED <<engineTasks, stopEvents, runVars, threadVars>>
    BY <1>5 DEF ForceStopReplay
  <2> QED
    BY <2>1, EventsOfRegistered DEF EventsOwned, runVars, threadVars
<1>6. CASE LoadReplayData \/ PauseReplay \/ ResumeReplay \/ StepReplay \/ CancelEnd
           \/ \E why \in {"proxy", "disconnect"} : CancelBegin(why)
  BY <1>6 DEF LoadReplayData, PauseReplay, ResumeReplay, StepReplay, CancelEnd, CancelBegin,
     EventsOwned, loopVars, runVars, threadVars
<1>7. ASSUME NEW r \in Runs, Thread(r)
      PROVE  EventsOwned'
  <2>1. UNCHANGED loopVars
    BY <1>7, ThreadKeepsLoop
  <2>2. CASE ThreadArm(r)
    <3>1. sid[r] \in Strategies /\ r \notin isSet
      BY <2>2 DEF ThreadArm, FreshRuns, EventsOwned, Unarmed
    <3>2. CASE stopEvents[sid[r]] = NoRun
      <4>1. stopEvents' = [stopEvents EXCEPT ![sid[r]] = r] /\ evt' = [evt EXCEPT ![r] = r]
        BY <2>2, <3>2 DEF ThreadArm
      <4>2. \A q \in Runs : co[q] = "waiting" /\ sid[q] = sid[r] /\ q # r => evt[q] = NoRun
        BY <3>2 DEF EventsOwned
      <4> QED
        BY <2>1, <2>2, <3>1, <4>1, <4>2 DEF ThreadArm, EventsOwned, Unarmed, loopVars, runVars,
           NoRun, Runs
    <3>3. CASE stopEvents[sid[r]] # NoRun
      <4>1. stopEvents' = stopEvents /\ evt' = [evt EXCEPT ![r] = stopEvents[sid[r]]]
        BY <2>2, <3>1, <3>3 DEF ThreadArm
      <4> QED
        BY <2>1, <2>2, <3>1, <4>1 DEF ThreadArm, EventsOwned, Unarmed, loopVars, runVars
    <3> QED
      BY <3>2, <3>3
  <2>3. CASE ThreadPickUp(r) \/ ThreadBadConfig(r) \/ ThreadStart(r) \/ ThreadPass(r)
             \/ ThreadItem(r) \/ ThreadReturn(r) \/ ThreadRaise(r)
    BY <2>1, <2>3 DEF ThreadPickUp, ThreadBadConfig, ThreadStart, ThreadPass, ThreadItem,
       ThreadReturn, ThreadRaise, EventsOwned, Unarmed, loopVars, runVars
  <2> QED
    BY <1>7, <2>2, <2>3 DEF Thread
<1>8. ASSUME NEW r \in Runs, Coroutine(r)
      PROVE  EventsOwned'
  <2>1. sid[r] \in Strategies /\ engineTasks[sid[r]] = r
    BY <1>8, CoroutineEnds DEF FreshRuns, TasksMatchCoroutines
  <2>2. \A q \in Runs : co[q] = "waiting" /\ q # r => sid[q] # sid[r] /\ sid[q] \in Strategies
    BY <2>1 DEF TasksMatchCoroutines, FreshRuns
  <2>3. PICK how \in {"finished", "timedout", "cancelled"} :
           /\ co' = [co EXCEPT ![r] = how]
           /\ engineTasks' = [engineTasks EXCEPT ![sid[r]] = NoRun]
           /\ stopEvents' = [stopEvents EXCEPT ![sid[r]] = NoRun]
           /\ UNCHANGED <<sid, isSet, stopAsked, evt>>
           /\ \A q \in Runs : thread[q] \notin Unarmed => thread'[q] \notin Unarmed
    BY <1>8, CoroutineEnds DEF Unarmed
  <2>4. NoRun \notin isSet
    BY DEF Runs, NoRun
  <2> QED
    BY <2>1, <2>2, <2>3, <2>4 DEF EventsOwned
<1> QED
  BY <1>1, <1>2, <1>3, <1>4, <1>5, <1>6, <1>7, <1>8 DEF Next, Command

-----------------------------------------------------------------------------
(* TypeOK, command by command. *)
LEMMA CommandTypes == IInv /\ Command => TypeOK'
<1> SUFFICES ASSUME IInv, Command
             PROVE  TypeOK'
  OBVIOUS
<1> USE DEF IInv, TypeOK
<1>1. CASE LoadReplayData
  BY <1>1, ReplayAssumption DEF LoadReplayData, ReplayStates, runVars, cancelVars, threadVars
<1>2. ASSUME NEW s \in Strategies, StartEngine(s)
      PROVE  TypeOK'
  <2>1. nextRun + 1 \in Runs /\ nextRun + 1 \in 0 .. MaxRuns
    BY <1>2, ReplayAssumption DEF StartEngine, Runs
  <2>2. /\ co' \in [Runs -> CoroutineStates] /\ thread' \in [Runs -> ThreadStates]
        /\ sid' \in [Runs -> Strategies \cup {NoStrategy}]
    BY <1>2, <2>1 DEF StartEngine, CoroutineStates, ThreadStates, LiveThread
  <2>3. engineTasks' \in [Strategies -> Runs \cup {NoRun}] /\ fetchTasks' \subseteq Runs
    BY <1>2, <2>1 DEF StartEngine
  <2>4. replayState' \in ReplayStates /\ nextRun' \in 0 .. MaxRuns
    BY <1>2, <2>1 DEF StartEngine, ReplayStates
  <2>5. stepRequest' \in 0 .. MaxSteps
    BY <1>2, ReplayAssumption DEF StartEngine
  <2>6. paused' \in BOOLEAN
    BY <1>2 DEF StartEngine
  <2> QED
    BY <1>2, <2>2, <2>3, <2>4, <2>5, <2>6 DEF StartEngine
<1>3. ASSUME NEW s \in Strategies \cup {NoStrategy}, StopEngine(s)
      PROVE  TypeOK'
  BY <1>3 DEF StopEngine, EventsOf, ReplayStates, runVars, cancelVars, threadVars
<1>4. CASE PauseReplay \/ ResumeReplay
  BY <1>4 DEF PauseReplay, ResumeReplay, PausedOnResume, ReplayStates, runVars, cancelVars,
     threadVars
<1>5. CASE StepReplay
  BY <1>5, ReplayAssumption DEF StepReplay, loopVars, runVars, cancelVars, threadVars
<1>6. CASE StopReplay
  <2>1. FirstTask \in SUBSET Registered /\ FirstTask \subseteq Runs
    BY DEF FirstTask, Registered
  <2>2. isSet' \subseteq Runs
    BY <1>6, <2>1, EventsOfRegistered DEF StopReplay
  <2>3. paused' \in BOOLEAN
    BY <1>6 DEF StopReplay
  <2>4. strategyId' \in Strategies \cup {NoStrategy}
    BY <1>6 DEF StopReplay
  <2> QED
    BY <1>6, <2>1, <2>2, <2>3, <2>4 DEF StopReplay, ReplayStates, runVars, cancelVars, threadVars
<1>7. CASE ForceStopReplay
  <2>1. Registered \subseteq Runs
    BY DEF Registered
  <2>2. isSet' \subseteq Runs
    BY <1>7, EventsOfRegistered DEF ForceStopReplay
  <2>3. replayState' \in ReplayStates /\ paused' \in BOOLEAN
    BY <1>7 DEF ForceStopReplay, ReplayStates
  <2>4. stepRequest' \in 0 .. MaxSteps
    BY <1>7, ReplayAssumption DEF ForceStopReplay
  <2> QED
    BY <1>7, <2>1, <2>2, <2>3, <2>4 DEF ForceStopReplay, runVars, cancelVars, threadVars
<1>8. CASE CancelEnd \/ \E why \in {"proxy", "disconnect"} : CancelBegin(why)
  BY <1>8 DEF CancelEnd, CancelBegin, ReplayStates, runVars, threadVars
<1> QED
  BY <1>1, <1>2, <1>3, <1>4, <1>5, <1>6, <1>7, <1>8 DEF Command

LEMMA EmitTypes ==
  ASSUME TypeOK, NEW r \in Runs, EmitStopped(r), stoppedSent[r] <= 1
  PROVE  stopFlag' \in [Runs -> BOOLEAN] /\ stoppedSent' \in [Runs -> 0 .. 2]
<1>1. stopFlag' \in [Runs -> BOOLEAN]
  BY DEF EmitStopped, TypeOK
<1>2. stoppedSent' \in [Runs -> 0 .. 2]
  BY DEF EmitStopped, TypeOK
<1> QED
  BY <1>1, <1>2

LEMMA ThreadTypes == ASSUME IInv, NEW r \in Runs, Thread(r) PROVE TypeOK'
<1> USE DEF IInv, TypeOK
<1>1. UNCHANGED loopVars
  BY ThreadKeepsLoop
<1>2. CASE ThreadPickUp(r) \/ ThreadBadConfig(r) \/ ThreadStart(r)
  BY <1>1, <1>2 DEF ThreadPickUp, ThreadBadConfig, ThreadStart, loopVars, runVars, cancelVars,
     ThreadStates, LiveThread, DeadThread
<1>3. CASE ThreadArm(r)
  <2>1. sid[r] \in Strategies
    BY <1>3 DEF ThreadArm, FreshRuns
  <2> QED
    BY <1>1, <1>3, <2>1 DEF ThreadArm, loopVars, runVars, cancelVars, ThreadStates, LiveThread
<1>4. CASE ThreadPass(r) \/ ThreadItem(r)
  BY <1>1, <1>4, ReplayAssumption DEF ThreadPass, ThreadItem, StepAvailable, FreshRuns, loopVars,
     runVars, cancelVars, ThreadStates, LiveThread
<1>5. CASE ThreadReturn(r) \/ ThreadRaise(r)
  <2>1. \/ stoppedSent[r] <= 1 /\ EmitStopped(r)
        \/ UNCHANGED <<stopFlag, stoppedSent>>
    BY <1>5 DEF ThreadReturn, ThreadRaise, ReportsCounted, CoroutineStates
  <2>2. stopFlag' \in [Runs -> BOOLEAN] /\ stoppedSent' \in [Runs -> 0 .. 2]
    BY <2>1, EmitTypes
  <2>3. thread' \in [Runs -> ThreadStates]
    BY <1>5 DEF ThreadReturn, ThreadRaise, ThreadStates, DeadThread
  <2> QED
    BY <1>1, <1>5, <2>2, <2>3 DEF ThreadReturn, ThreadRaise, loopVars, runVars, cancelVars
<1> QED
  BY <1>2, <1>3, <1>4, <1>5 DEF Thread

LEMMA CoroutineTypes == ASSUME IInv, NEW r \in Runs, Coroutine(r) PROVE TypeOK'
<1> USE DEF IInv, TypeOK
<1>1. sid[r] \in Strategies /\ (co[r] = "waiting" => stoppedSent[r] <= 1)
  BY CoroutineEnds DEF FreshRuns, ReportsCounted
<1>2. /\ replayState' \in ReplayStates /\ co' \in [Runs -> CoroutineStates]
      /\ engineTasks' \in [Strategies -> Runs \cup {NoRun}]
      /\ stopEvents' \in [Strategies -> Runs \cup {NoRun}]
      /\ thread' \in [Runs -> ThreadStates]
      /\ UNCHANGED <<paused, epoch, nextRun, sid, isSet, stopAsked, evt, items, stepRequest>>
  BY <1>1, CoroutineEnds DEF ReplayStates, CoroutineStates, ThreadStates, DeadThread, NoRun
<1>3. /\ fetchTasks' \subseteq Runs /\ doomed' \subseteq Runs
      /\ strategyId' \in Strategies \cup {NoStrategy} /\ cancelling' = cancelling
  BY <1>1 DEF Coroutine, CoReturn, CoRaise, CoTimeout, CoCancel, Finally
<1>4. \/ UNCHANGED <<stopFlag, stoppedSent>>
      \/ stoppedSent[r] <= 1 /\ EmitStopped(r)
  BY <1>1 DEF Coroutine, CoReturn, CoRaise, CoTimeout, CoCancel, FallbackStopped, threadVars
<1>5. stopFlag' \in [Runs -> BOOLEAN] /\ stoppedSent' \in [Runs -> 0 .. 2]
  BY <1>4, EmitTypes
<1> QED
  BY <1>2, <1>3, <1>5

-----------------------------------------------------------------------------
(* The inductive invariant holds at the start and is kept by every step. *)
LEMMA NextIInv == IInv /\ [Next]_vars => IInv'
<1> SUFFICES ASSUME IInv, [Next]_vars
             PROVE  IInv'
  OBVIOUS
<1>1. TypeOK'
  <2>1. CASE UNCHANGED vars
    BY <2>1 DEF IInv, TypeOK, vars, loopVars, runVars, cancelVars, threadVars
  <2> QED
    BY <2>1, CommandTypes, ThreadTypes, CoroutineTypes DEF Next
<1> QED
  BY <1>1, FreshStep, TasksStep, ReportsStep, EventsStep, ActiveStep, PausedStep DEF IInv

THEOREM ReplayInvariant == Spec => []IInv
  BY InitIInv, NextIInv, PTL DEF Spec

(* Every variable keeps its type, the EngineStopped counts their bound of two. *)
THEOREM ReplayTypeOK == Spec => []TypeOK
<1>1. IInv => TypeOK
  BY DEF IInv
<1> QED
  BY <1>1, ReplayInvariant, PTL

(* StopEngine always finds the handle of the run that is waiting, whatever the
   number of strategies and runs (M-14, _handle_start_engine).              *)
THEOREM ReplayTasksMatch == Spec => []TasksMatchCoroutines
<1>1. IInv => TasksMatchCoroutines
  BY DEF IInv
<1> QED
  BY <1>1, ReplayInvariant, PTL

(* An active state has a run that will reset it (the finally block). *)
THEOREM ReplayActiveHasRunner == Spec => []ActiveHasRunner
<1>1. IInv => ActiveHasRunner
  BY DEF IInv
<1> QED
  BY <1>1, ReplayInvariant, PTL

(* The pause flag of the worker threads agrees with the state of the clients. *)
THEOREM ReplayPausedAgrees == Spec => []PausedAgrees
<1>1. IInv => PausedAgrees
  BY DEF IInv
<1> QED
  BY <1>1, ReplayInvariant, PTL

(* Handles, state and pause flag agree with the runs, for any strategies. *)
THEOREM ReplayRunsMatch == Spec => []RunsMatch
<1>1. IInv => RunsMatch
  BY DEF IInv, RunsMatch
<1> QED
  BY <1>1, ReplayInvariant, PTL

(* A run that ended by itself reported EngineStopped exactly once (MEDIUM-R2-8). *)
THEOREM ReplayStoppedOnce == Spec => []StoppedOnce
<1>1. IInv => StoppedOnce
  BY DEF IInv
<1> QED
  BY <1>1, ReplayInvariant, PTL

LEMMA InvStopsAsked == IInv => StoppedOnlyIfAsked
<1> SUFFICES ASSUME IInv, NEW r \in Runs, co[r] = "waiting", evt[r] \in isSet
             PROVE  r \in stopAsked
  BY DEF StoppedOnlyIfAsked
<1>1. sid[r] \in Strategies /\ engineTasks[sid[r]] = r /\ evt[r] # NoRun
  BY DEF IInv, TypeOK, FreshRuns, TasksMatchCoroutines, Runs, NoRun
<1> QED
  BY <1>1 DEF IInv, EventsOwned

(* No run is stopped by what an earlier run of its strategy left behind. *)
THEOREM ReplayStoppedOnlyIfAsked == Spec => []StoppedOnlyIfAsked
<1> QED
  BY InvStopsAsked, ReplayInvariant, PTL

(* A run ends by itself or by its own stop, and says so once, for any number
   of runs and strategies.                                                   *)
THEOREM ReplayEndsAsAsked == Spec => []EndsAsAsked
<1> QED
  BY ReplayStoppedOnce, ReplayStoppedOnlyIfAsked, PTL DEF EndsAsAsked

(* The finally block of an old run leaves a loaded session alone (MEDIUM-R3-2). *)
THEOREM ReplayLoadedSurvives == Spec => LoadedSurvivesOldRun
<1>1. ASSUME IInv, [Next]_vars, NEW r \in Runs, co[r] = "waiting", co'[r] # "waiting",
             replayState = "LOADED"
      PROVE  replayState' = "LOADED"
  <2>1. ASSUME NEW s \in Strategies, StartEngine(s)
        PROVE  co'[r] = "waiting"
    BY <1>1, <2>1 DEF StartEngine, IInv, TypeOK
  <2>2. ASSUME NEW q \in Runs, Coroutine(q)
        PROVE  replayState' = "LOADED"
    BY <1>1, <2>2, CoroutineEnds DEF ActiveStates
  <2> QED
    BY <1>1, <2>1, <2>2, RegistrySteps DEF runVars
<1>2. IInv /\ [Next]_vars =>
        [\A r \in Runs : co[r] = "waiting" /\ co'[r] # "waiting" /\ replayState = "LOADED"
             => replayState' = "LOADED"]_vars
  BY <1>1
<1> QED
  BY <1>2, ReplayInvariant, PTL DEF Spec, LoadedSurvivesOldRun

-----------------------------------------------------------------------------
(* The engine keeps what ReplayRuns promises of its runs: each of its steps is
   one of the promise, or does not show.                                     *)
LEMMA LivesAre ==
  ASSUME IInv, NEW r \in Runs
  PROVE  /\ Lives[r] = "none" <=> co[r] = "none"
         /\ Lives[r] = "active" <=> co[r] = "waiting"
         /\ Lives[r] = "abandoned" <=> co[r] \in {"timedout", "cancelled"}
<1>1. co[r] \in CoroutineStates
  BY DEF IInv, TypeOK
<1> QED
  BY <1>1 DEF Lives, CoroutineStates

LEMMA OutcomesAre ==
  ASSUME NEW r \in Runs
  PROVE  /\ thread[r] \in {"returned", "raised"} => Outcomes[r] = thread[r]
         /\ thread[r] = "noresult" => Outcomes[r] = "refused"
         /\ thread[r] \notin {"returned", "raised", "noresult"} => Outcomes[r] = "none"
BY DEF Outcomes

(* The only run whose mapped life or outcome a step changes is its own. *)
LEMMA LivesKept == co' = co => Lives' = Lives
BY DEF Lives

LEMMA LifeChanges ==
  ASSUME IInv, NEW r \in Runs, NEW how \in CoroutineStates \ {"none"},
         co' = [co EXCEPT ![r] = how]
  PROVE  Lives' = [Lives EXCEPT ![r] = IF how = "waiting" THEN "active"
                                       ELSE IF how = "finished" THEN "ended" ELSE "abandoned"]
<1> DEFINE to == IF how = "waiting" THEN "active"
                 ELSE IF how = "finished" THEN "ended" ELSE "abandoned"
<1>1. \A q \in Runs : co'[q] = IF q = r THEN how ELSE co[q]
  BY DEF IInv, TypeOK
<1>2. ASSUME NEW q \in Runs
      PROVE  Lives'[q] = IF q = r THEN to ELSE Lives[q]
  <2>1. CASE q = r
    BY <1>1, <2>1 DEF Lives, CoroutineStates
  <2>2. CASE q # r
    BY <1>1, <2>2 DEF Lives
  <2> QED
    BY <2>1, <2>2
<1>3. Lives' = [q \in Runs |-> Lives'[q]] /\ Lives = [q \in Runs |-> Lives[q]]
  BY DEF Lives
<1> HIDE DEF to
<1>4. Lives' = [Lives EXCEPT ![r] = to]
  BY <1>2, <1>3
<1> QED
  BY <1>4 DEF to

LEMMA OutcomesKept ==
  ASSUME IInv, NEW r \in Runs, NEW to \in ThreadStates,
         thread' = [thread EXCEPT ![r] = to],
         {thread[r], to} \cap {"returned", "raised", "noresult"} = {}
  PROVE  Outcomes' = Outcomes
BY DEF Outcomes, IInv, TypeOK

LEMMA OutcomeChanges ==
  ASSUME IInv, NEW r \in Runs, NEW to \in {"returned", "raised", "noresult"},
         thread' = [thread EXCEPT ![r] = to]
  PROVE  Outcomes' = [Outcomes EXCEPT ![r] = IF to = "noresult" THEN "refused" ELSE to]
BY DEF Outcomes, IInv, TypeOK

(* A thread that is alive belongs to a run of which nothing has been said. *)
LEMMA LiveUnderWay ==
  ASSUME IInv, NEW r \in Runs, thread[r] \in LiveThread
  PROVE  Client!UnderWay(r)
<1>1. co[r] # "none" /\ Outcomes[r] = "none"
  BY OutcomesAre DEF IInv, FreshRuns, LiveThread
<1>2. co[r] = "waiting" => stoppedSent[r] = 0
  BY DEF IInv, ReportsCounted, LiveThread
<1> QED
  BY <1>1, <1>2, LivesAre DEF Client!UnderWay

(* What a stop command resolves to is active. *)
LEMMA RegisteredActive == IInv => Registered \subseteq Client!Active
<1> SUFFICES ASSUME IInv, NEW r \in Registered
             PROVE  r \in Client!Active
  OBVIOUS
<1>1. r \in Runs /\ co[r] = "waiting"
  BY DEF Registered, IInv, TasksMatchCoroutines, Runs, NoRun
<1> QED
  BY <1>1, LivesAre DEF Client!Active, Runs

PromisedStep == [Client!Next]_(Client!runsVars)

LEMMA CommandPromised == ASSUME IInv, Command PROVE PromisedStep
<1> USE DEF PromisedStep, Client!Next, Client!runsVars
<1>1. CASE LoadReplayData
  <2>1. Lives' = Lives /\ Outcomes' = Outcomes
    BY <1>1 DEF LoadReplayData, runVars, threadVars, Lives, Outcomes
  <2>2. Client!Loads
    BY <1>1, <2>1 DEF LoadReplayData, Client!Loads, Client!Turns, threadVars
  <2> QED
    BY <2>2
<1>2. ASSUME NEW s \in Strategies, StartEngine(s)
      PROVE  PromisedStep
  <2> DEFINE r == nextRun + 1
  <2>1. r \in Runs /\ co[r] = "none" /\ thread[r] = "none" /\ r \in 1 .. MaxRuns
    BY <1>2, ReplayAssumption DEF StartEngine, IInv, TypeOK, FreshRuns, Runs
  <2>2. /\ engineTasks' = [engineTasks EXCEPT ![s] = r]
        /\ co' = [co EXCEPT ![r] = "waiting"]
        /\ thread' = [thread EXCEPT ![r] = "queued"]
        /\ replayState = "LOADED" /\ replayState' = "RUNNING"
        /\ engineTasks[s] = 0
        /\ UNCHANGED <<items, stopAsked, stoppedSent>>
    BY <1>2 DEF StartEngine, StrategyFree, NoRun
  <2> HIDE DEF r
  <2>3. Lives' = [Lives EXCEPT ![r] = "active"] /\ Lives[r] = "none"
    BY <2>1, <2>2, LifeChanges, LivesAre DEF CoroutineStates
  <2>4. Outcomes' = Outcomes
    BY <2>1, <2>2, OutcomesKept DEF ThreadStates, LiveThread
  <2>5. Client!Accepts(s, r)
    BY <2>2, <2>3, <2>4 DEF Client!Accepts
  <2> QED
    BY <2>1, <2>5
<1>3. ASSUME NEW s \in Strategies \cup {NoStrategy}, StopEngine(s)
      PROVE  PromisedStep
  <2>1. Lives' = Lives /\ Outcomes' = Outcomes
    BY <1>3 DEF StopEngine, runVars, threadVars, Lives, Outcomes
  <2>2. \E R \in SUBSET Client!Active : stopAsked' = stopAsked \cup R
    <3>1. CASE s = NoStrategy \/ engineTasks[s] = NoRun
      <4>1. stopAsked' = stopAsked \cup {}
        BY <1>3, <3>1 DEF StopEngine
      <4> QED
        BY <4>1
    <3>2. CASE s # NoStrategy /\ engineTasks[s] # NoRun
      <4>1. engineTasks[s] \in Registered
        BY <3>2 DEF Registered, IInv, TypeOK
      <4>2. stopAsked' = stopAsked \cup {engineTasks[s]}
        BY <1>3, <3>2 DEF StopEngine
      <4> QED
        BY <4>1, <4>2, RegisteredActive
    <3> QED
      BY <3>1, <3>2
  <2>3. Client!Stops
    BY <1>3, <2>1, <2>2 DEF StopEngine, Client!Stops, threadVars
  <2> QED
    BY <2>3
<1>4. CASE PauseReplay \/ ResumeReplay
  <2>0. co' = co /\ thread' = thread
    BY <1>4 DEF PauseReplay, ResumeReplay, runVars, threadVars
  <2>1. Lives' = Lives /\ Outcomes' = Outcomes
    BY <2>0 DEF Lives, Outcomes
  <2>2. Client!Pauses \/ Client!Resumes
    BY <1>4, <2>1 DEF PauseReplay, ResumeReplay, Client!Pauses, Client!Resumes, Client!Turns,
       threadVars
  <2> QED
    BY <2>2
<1>5. CASE StepReplay \/ \E why \in {"proxy", "disconnect"} : CancelBegin(why)
  <2>0. co' = co /\ thread' = thread
    BY <1>5 DEF StepReplay, CancelBegin, loopVars, runVars, threadVars
  <2>1. Lives' = Lives /\ Outcomes' = Outcomes
    BY <2>0 DEF Lives, Outcomes
  <2> QED
    BY <1>5, <2>1 DEF StepReplay, CancelBegin, loopVars, threadVars
<1>6. CASE StopReplay
  <2>1. FirstTask \subseteq Registered
    BY DEF FirstTask
  <2>2. Lives' = Lives /\ Outcomes' = Outcomes
    BY <1>6 DEF StopReplay, runVars, threadVars, Lives, Outcomes
  <2>3. Client!Stops
    BY <1>6, <2>1, <2>2, RegisteredActive DEF StopReplay, Client!Stops, threadVars
  <2> QED
    BY <2>3
<1>7. CASE ForceStopReplay
  <2>1. Lives' = Lives /\ Outcomes' = Outcomes
    BY <1>7 DEF ForceStopReplay, runVars, threadVars, Lives, Outcomes
  <2>2. Client!Stops
    BY <1>7, <2>1, RegisteredActive DEF ForceStopReplay, Client!Stops, threadVars
  <2> QED
    BY <2>2
<1>8. CASE CancelEnd
  <2>1. Lives' = Lives /\ Outcomes' = Outcomes
    BY <1>8 DEF CancelEnd, runVars, threadVars, Lives, Outcomes
  <2>2. CASE cancelling = "disconnect"
    <3>1. Client!Stops
      BY <1>8, <2>1, <2>2 DEF CancelEnd, Client!Stops, threadVars
    <3> QED
      BY <3>1
  <2>3. CASE cancelling # "disconnect"
    BY <1>8, <2>1, <2>3 DEF CancelEnd, threadVars
  <2> QED
    BY <2>2, <2>3
<1> QED
  BY <1>1, <1>2, <1>3, <1>4, <1>5, <1>6, <1>7, <1>8 DEF Command

LEMMA ThreadPromised == ASSUME IInv, NEW r \in Runs, Thread(r) PROVE PromisedStep
<1> USE DEF PromisedStep, Client!Next, Client!runsVars
<1>1. Lives' = Lives /\ UNCHANGED <<replayState, engineTasks>> /\ r \in 1 .. MaxRuns
  BY ThreadKeepsLoop, LivesKept DEF loopVars, runVars, Runs
<1>2. CASE ThreadPickUp(r) \/ ThreadArm(r) \/ ThreadStart(r) \/ ThreadPass(r)
  <2>1. /\ thread[r] \in LiveThread
        /\ \E to \in LiveThread : thread' = [thread EXCEPT ![r] = to]
        /\ UNCHANGED <<items, stopAsked, stoppedSent>>
    BY <1>2 DEF ThreadPickUp, ThreadArm, ThreadStart, ThreadPass, LiveThread
  <2>2. Outcomes' = Outcomes
    BY <2>1, OutcomesKept DEF ThreadStates, LiveThread
  <2> QED
    BY <1>1, <2>1, <2>2
<1>3. CASE ThreadItem(r)
  <2>1. Outcomes' = Outcomes
    BY <1>3, OutcomesKept DEF ThreadItem, ThreadStates, LiveThread
  <2>2. Client!UnderWay(r) /\ items[r] < NumItems
    BY <1>3, LiveUnderWay DEF ThreadItem, LiveThread, IInv, FreshRuns
  <2>3. Client!Sees(r)
    BY <1>1, <1>3, <2>1, <2>2 DEF ThreadItem, Client!Sees
  <2> QED
    BY <1>1, <2>3
<1>4. CASE ThreadReturn(r)
  <2>1. Outcomes' = [Outcomes EXCEPT ![r] = "returned"]
    BY <1>4, OutcomeChanges DEF ThreadReturn
  <2>2. Client!UnderWay(r)
    BY <1>4, LiveUnderWay DEF ThreadReturn, LiveThread
  <2>3. items[r] = NumItems \/ r \in stopAsked \/ Lives[r] = "abandoned"
    <3>1. co[r] \in {"waiting", "timedout", "cancelled"}
      BY <1>4 DEF ThreadReturn, IInv, TypeOK, CoroutineStates, FreshRuns, ReportsCounted
    <3> QED
      BY <1>4, <3>1, LivesAre, InvStopsAsked DEF ThreadReturn, LoopEnds, StoppedOnlyIfAsked
  <2>4. Client!Returns(r)
    BY <1>1, <1>4, <2>1, <2>2, <2>3 DEF ThreadReturn, EmitStopped, Client!Returns
  <2> QED
    BY <1>1, <2>4
<1>5. CASE ThreadBadConfig(r)
  <2>1. Outcomes' = [Outcomes EXCEPT ![r] = "refused"]
    BY <1>5, OutcomeChanges DEF ThreadBadConfig
  <2>2. Client!UnderWay(r)
    BY <1>5, LiveUnderWay DEF ThreadBadConfig, LiveThread
  <2>3. Client!Fails(r)
    BY <1>1, <1>5, <2>1, <2>2 DEF ThreadBadConfig, Client!Fails
  <2> QED
    BY <1>1, <2>3
<1>6. CASE ThreadRaise(r)
  <2>1. Outcomes' = [Outcomes EXCEPT ![r] = "raised"]
    BY <1>6, OutcomeChanges DEF ThreadRaise
  <2>2. Client!UnderWay(r)
    BY <1>6, LiveUnderWay DEF ThreadRaise, LiveThread
  <2>3. Client!Fails(r)
    BY <1>1, <1>6, <2>1, <2>2 DEF ThreadRaise, EmitStopped, Client!Fails
  <2> QED
    BY <1>1, <2>3
<1> QED
  BY <1>2, <1>3, <1>4, <1>5, <1>6 DEF Thread

(* An ending takes its own entry out of the registry, and no other. *)
LEMMA LeavesRegistry ==
  ASSUME IInv, NEW r \in Runs, co[r] = "waiting",
         engineTasks' = [engineTasks EXCEPT ![sid[r]] = NoRun]
  PROVE  engineTasks' = [s \in Strategies |-> IF engineTasks[s] = r THEN 0 ELSE engineTasks[s]]
<1>1. sid[r] \in Strategies /\ engineTasks[sid[r]] = r
  BY DEF IInv, FreshRuns, TasksMatchCoroutines
<1>2. \A s \in Strategies : engineTasks[s] = r => s = sid[r]
  BY DEF IInv, TasksMatchCoroutines, Runs, NoRun
<1> QED
  BY <1>1, <1>2 DEF IInv, TypeOK, NoRun

LEMMA CoroutinePromised ==
  ASSUME IInv, IInv', NEW r \in Runs, Coroutine(r) PROVE PromisedStep
<1> USE DEF PromisedStep, Client!Next, Client!runsVars
<1>1. /\ co[r] = "waiting" /\ Lives[r] = "active" /\ r \in 1 .. MaxRuns
      /\ UNCHANGED <<items, stopAsked>>
      /\ engineTasks' = [s \in Strategies |-> IF engineTasks[s] = r THEN 0 ELSE engineTasks[s]]
      /\ replayState' = IF replayState \in {"RUNNING", "PAUSED", "STOPPING"}
                        THEN "IDLE" ELSE replayState
  BY CoroutineEnds, LivesAre, LeavesRegistry DEF ActiveStates, Runs
<1>2. CASE CoReturn(r) \/ CoRaise(r)
  <2>1. /\ co' = [co EXCEPT ![r] = "finished"] /\ thread' = thread
        /\ thread[r] \in {"returned", "noresult", "raised"}
        /\ CoReturn(r) => stoppedSent' = stoppedSent
        /\ CoRaise(r) => stoppedSent' \in {stoppedSent, [stoppedSent EXCEPT ![r] = @ + 1]}
    BY <1>2 DEF CoReturn, CoRaise, Finally, FallbackStopped, EmitStopped, threadVars
  <2>2. Lives' = [Lives EXCEPT ![r] = "ended"] /\ Outcomes' = Outcomes
    BY <2>1, LifeChanges DEF CoroutineStates, Outcomes
  <2>3. stoppedSent'[r] = IF thread[r] = "noresult" THEN 0 ELSE 1
    <3>1. co'[r] = "finished"
      BY <2>1 DEF IInv, TypeOK
    <3> QED
      BY <2>1, <3>1 DEF IInv, StoppedOnce
  <2>4. Outcomes[r] # "none" /\ (Outcomes[r] = "refused" <=> thread[r] = "noresult")
    BY <2>1, OutcomesAre
  <2>5. stoppedSent' = [stoppedSent EXCEPT ![r] = IF Outcomes[r] = "refused" THEN 0 ELSE 1]
    BY <1>2, <2>1, <2>3, <2>4 DEF IInv, TypeOK
  <2>6. Client!Ends(r)
    BY <1>1, <2>2, <2>4, <2>5 DEF Client!Ends, Client!Leaves
  <2> QED
    BY <1>1, <2>6
<1>3. CASE CoTimeout(r) \/ CoCancel(r)
  <2>1. /\ \E how \in {"timedout", "cancelled"} : co' = [co EXCEPT ![r] = how]
        /\ stoppedSent' \in {stoppedSent, [stoppedSent EXCEPT ![r] = @ + 1]}
        /\ stoppedSent' # stoppedSent => ~stopFlag[r]
        /\ \/ thread' = thread
           \/ thread[r] = "queued" /\ thread' = [thread EXCEPT ![r] = "dropped"]
    BY <1>3 DEF CoTimeout, CoCancel, AbandonThread, Finally, FallbackStopped, EmitStopped
  <2>2. Lives' = [Lives EXCEPT ![r] = "abandoned"]
    BY <2>1, LifeChanges DEF CoroutineStates
  <2>3. Outcomes' = Outcomes
    <3>1. CASE thread' = thread
      BY <3>1 DEF Outcomes
    <3>2. CASE thread[r] = "queued" /\ thread' = [thread EXCEPT ![r] = "dropped"]
      BY <3>2, OutcomesKept DEF ThreadStates, DeadThread
    <3> QED
      BY <2>1, <3>1, <3>2
  <2>4. stoppedSent' \in {stoppedSent, [stoppedSent EXCEPT ![r] = 1]}
    BY <2>1 DEF IInv, TypeOK, ReportsCounted
  <2>5. Client!Abandoned(r)
    BY <1>1, <2>2, <2>3, <2>4 DEF Client!Abandoned, Client!Leaves
  <2> QED
    BY <1>1, <2>5
<1> QED
  BY <1>2, <1>3 DEF Coroutine

(* What clients are promised of replay runs is kept whatever the number of
   strategies, runs and items: the events, flags and threads of server.py and
   engine_runner.py implement ReplayRuns.                                    *)
THEOREM ReplayRunsAsPromised == Spec => RunsAsPromised
<1>1. Init => Client!Init
  BY DEF Init, Client!Init, Lives, Outcomes, Runs, NoRun
<1>2. IInv /\ IInv' /\ [Next]_vars => PromisedStep
  <2>1. CASE UNCHANGED vars
    BY <2>1 DEF vars, loopVars, runVars, threadVars, Lives, Outcomes, PromisedStep,
       Client!runsVars
  <2> QED
    BY <2>1, CommandPromised, ThreadPromised, CoroutinePromised DEF Next
<1> QED
  BY <1>1, <1>2, ReplayInvariant, PTL DEF Spec, RunsAsPromised, Client!Spec, PromisedStep

-----------------------------------------------------------------------------
(* The script.  EngineStopped counts for run() wherever it waits: in the
   queue, among the events that wait_for has put aside, or once run() has
   taken it for the end of its run.                                         *)

Holds(q, k) == \E i \in 1 .. Len(q) : q[i].kind = k
EndTold == Holds(inbox, "Stopped") \/ Holds(pending, "Stopped") \/ pc = "ending" \/ status = "STOPPED"
RunAsked == \E i \in 1 .. Len(sent) : sent[i] = "run"

(* The status leaves IDLE and LOADED for good, and run() sends one command:
   the script starts one run, and knows of none before it asked.            *)
OneRunAsked ==
  /\ pc = "waiting" => status = "IDLE"
  /\ stopper # "none" => status \notin {"IDLE", "LOADED"}
  /\ pc = "starting" => status \notin {"IDLE", "LOADED"} /\ own = NotRun /\ ~RunAsked
  /\ status \in {"IDLE", "LOADED"} => own = NotRun /\ ~RunAsked
  /\ RunAsked => own = NotRun
  /\ \A i, j \in 1 .. Len(sent) : sent[i] = "run" /\ sent[j] = "run" => i = j

(* Before __enter__ nothing is received; a run in this process is no run of
   the engine.                                                              *)
Attached ==
  /\ pc = "out" => mode = "none" /\ ~connected /\ inbox = << >> /\ status = "IDLE"
  /\ mode = "none" => pc = "out"
  /\ pc = "local" => mode = "inprocess" /\ status # "STOPPED"

OwnTold == own # NotRun /\ run = own /\ Told

(* Unless another client's run has overlapped the session, the run under way
   is the script's, and a thread that a timeout has left as well.           *)
RunsKnown ==
  /\ Active => run # NotRun
  /\ connected /\ ~mixed /\ Active => run = own
  /\ connected /\ ~mixed /\ strays > 0 => OwnTold

EndToldOver == mode = "attach" /\ ~mixed /\ EndTold => OwnTold

ScriptInv == ScriptTypeOK /\ OneRunAsked /\ Attached /\ RunsKnown /\ EndToldOver

-----------------------------------------------------------------------------
(* Queues of events and of commands.                                        *)

Commands == {"load", "run", "stop"}

LEMMA EmptyQueues == << >> \in Seq({"load", "run", "stop"}) /\ << >> \in Seq(Events)
OBVIOUS

LEMMA ConcatHolds ==
  ASSUME NEW p \in Seq(Events), NEW q \in Seq(Events), NEW k
  PROVE  p \o q \in Seq(Events) /\ (Holds(p \o q, k) => Holds(p, k) \/ Holds(q, k))
<1>1. p \o q \in Seq(Events)
  OBVIOUS
<1>2. ASSUME NEW i \in 1 .. Len(p \o q), (p \o q)[i].kind = k PROVE Holds(p, k) \/ Holds(q, k)
  <2>1. CASE i <= Len(p)
    <3>1. i \in 1 .. Len(p) /\ p[i].kind = k
      BY <1>2, <2>1
    <3> QED
      BY <3>1 DEF Holds
  <2>2. CASE i > Len(p)
    <3>1. i - Len(p) \in 1 .. Len(q) /\ q[i - Len(p)].kind = k
      BY <1>2, <2>2
    <3> QED
      BY <3>1 DEF Holds
  <2> QED
    BY <2>1, <2>2
<1> QED
  BY <1>1, <1>2 DEF Holds

LEMMA TailHolds ==
  ASSUME NEW q \in Seq(Events), q # << >>
  PROVE  /\ Tail(q) \in Seq(Events) /\ Head(q) \in Events
         /\ \A k : Holds(Tail(q), k) => Holds(q, k)
         /\ Holds(q, Head(q).kind)
<1>1. Tail(q) \in Seq(Events) /\ Head(q) \in Events /\ Head(q) = q[1] /\ 1 \in 1 .. Len(q)
  OBVIOUS
<1>2. \A i \in 1 .. Len(Tail(q)) : i + 1 \in 1 .. Len(q) /\ Tail(q)[i] = q[i + 1]
  OBVIOUS
<1> QED
  BY <1>1, <1>2 DEF Holds

LEMMA AppendHolds ==
  ASSUME NEW q \in Seq(Events), NEW e \in Events, NEW k
  PROVE  Append(q, e) \in Seq(Events) /\ (Holds(Append(q, e), k) => Holds(q, k) \/ e.kind = k)
<1>1. Append(q, e) \in Seq(Events) /\ Len(Append(q, e)) = Len(q) + 1
  OBVIOUS
<1>2. ASSUME NEW i \in 1 .. Len(Append(q, e)), Append(q, e)[i].kind = k
      PROVE  Holds(q, k) \/ e.kind = k
  <2>1. CASE i = Len(q) + 1
    BY <1>2, <2>1
  <2>2. CASE i # Len(q) + 1
    <3>1. i \in 1 .. Len(q) /\ q[i].kind = k
      BY <1>1, <1>2, <2>2
    <3> QED
      BY <3>1 DEF Holds
  <2> QED
    BY <2>1, <2>2
<1> QED
  BY <1>1, <1>2 DEF Holds

LEMMA EventKinds ==
  /\ \A k \in Kinds : Event(k) \in Events /\ Event(k).kind = k
  /\ \A r \in Requests : Error(r) \in Events /\ Error(r).kind = "Error"
  /\ \A e \in Events : e.kind \in Kinds
BY DEF Event, Error, Events, Kinds, Requests, NoRequest

(* What a broadcast adds to the queue. *)
LEMMA BroadcastHolds ==
  ASSUME inbox \in Seq(Events), NEW events \in Seq(Events), Broadcast(events), NEW k
  PROVE  /\ inbox' \in Seq(Events)
         /\ Holds(inbox', k) => Holds(inbox, k) \/ (connected /\ Holds(events, k))
BY ConcatHolds DEF Broadcast, Received

LEMMA OneEvent ==
  ASSUME NEW e \in Events, NEW k
  PROVE  <<e>> \in Seq(Events) /\ (Holds(<<e>>, k) => e.kind = k)
BY DEF Holds

(* Commands leave from the front and come in at the back. *)
LEMMA CommandTaken ==
  ASSUME OneRunAsked, sent \in Seq(Commands), sent # << >>, sent' = Tail(sent)
  PROVE  /\ sent' \in Seq(Commands) /\ (RunAsked' => RunAsked /\ Head(sent) # "run")
         /\ Head(sent) = "run" => RunAsked
         /\ \A i, j \in 1 .. Len(sent') : sent'[i] = "run" /\ sent'[j] = "run" => i = j
<1>1. sent' \in Seq(Commands) /\ Head(sent) = sent[1] /\ 1 \in 1 .. Len(sent)
  OBVIOUS
<1>2. \A i \in 1 .. Len(sent') : i + 1 \in 1 .. Len(sent) /\ sent'[i] = sent[i + 1] /\ i + 1 # 1
  OBVIOUS
<1>3. \A i, j \in 1 .. Len(sent) : sent[i] = "run" /\ sent[j] = "run" => i = j
  BY DEF OneRunAsked
<1>4. \A i, j \in 1 .. Len(sent') : sent'[i] = "run" /\ sent'[j] = "run" => i = j
  <2> SUFFICES ASSUME NEW i \in 1 .. Len(sent'), NEW j \in 1 .. Len(sent'),
                      sent'[i] = "run", sent'[j] = "run"
               PROVE  i = j
    OBVIOUS
  <2>1. i + 1 = j + 1
    BY <1>2, <1>3
  <2> QED
    BY <2>1
<1> QED
  BY <1>1, <1>2, <1>3, <1>4 DEF RunAsked

LEMMA CommandSent ==
  ASSUME sent \in Seq(Commands), NEW cmd \in Commands, Send(cmd)
  PROVE  /\ sent' \in Seq(Commands)
         /\ RunAsked' => RunAsked \/ cmd = "run"
         /\ OneRunAsked /\ (cmd = "run" => ~RunAsked)
            => \A i, j \in 1 .. Len(sent') : sent'[i] = "run" /\ sent'[j] = "run" => i = j
<1>1. CASE ~connected
  BY <1>1 DEF Send, RunAsked, OneRunAsked
<1>2. CASE connected
  <2>1. sent' \in Seq(Commands) /\ Len(sent') = Len(sent) + 1
        /\ sent'[Len(sent) + 1] = cmd /\ \A i \in 1 .. Len(sent) : sent'[i] = sent[i]
    BY <1>2 DEF Send
  <2>2. \A i \in 1 .. Len(sent') : i \in 1 .. Len(sent) \/ i = Len(sent) + 1
    BY <2>1
  <2> QED
    BY <2>1, <2>2 DEF RunAsked, OneRunAsked
<1> QED
  BY <1>1, <1>2

-----------------------------------------------------------------------------
(* The engine, the GUI and the connection.                                  *)

(* Steps that leave the runs alone, and bring no EngineStopped. *)
LEMMA RunsKept ==
  ASSUME RunsKnown, connected' => connected, mixed => mixed', run' = run, own' = own,
         Active' => Active, strays' > 0 => strays > 0, Told => Told'
  PROVE  RunsKnown'
BY DEF RunsKnown, OwnTold

LEMMA EndKept ==
  ASSUME EndToldOver, mode' = mode, mixed => mixed', run' = run, own' = own, Told => Told',
         mode = "attach" => (EndTold' => EndTold)
  PROVE  EndToldOver'
BY DEF EndToldOver, OwnTold

(* What waits for run() is unchanged when the script does nothing. *)
LEMMA NoEndBroadcast ==
  ASSUME ScriptTypeOK, NEW events \in Seq(Events), ~Holds(events, "Stopped"), Broadcast(events),
         UNCHANGED <<pending, pc, status>>
  PROVE  EndTold' => EndTold
BY BroadcastHolds DEF ScriptTypeOK, EndTold, Holds

LEMMA AttachedKept ==
  ASSUME Attached, inbox' = inbox \/ connected, UNCHANGED <<pc, mode, connected, status>>
  PROVE  Attached'
BY DEF Attached

LEMMA CommandsKept ==
  ASSUME OneRunAsked, UNCHANGED <<pc, stopper, status, own>>, sent' = sent \/ sent' = << >>
  PROVE  OneRunAsked'
BY DEF OneRunAsked, RunAsked

LEMMA EngineTakesStep == ASSUME ScriptInv, EngineTakes PROVE ScriptInv'
<1> USE DEF ScriptInv
<1>1. /\ sent \in Seq(Commands) /\ sent # << >> /\ sent' = Tail(sent)
      /\ UNCHANGED <<others, strays, connected, pending, scriptVars, mixed, overtook>>
      /\ inbox \in Seq(Events)
  BY DEF EngineTakes, ScriptTypeOK, Commands, sessionHistory
<1>2. /\ sent' \in Seq(Commands) /\ (RunAsked' => RunAsked /\ Head(sent) # "run")
      /\ Head(sent) = "run" => RunAsked
      /\ \A i, j \in 1 .. Len(sent') : sent'[i] = "run" /\ sent'[j] = "run" => i = j
      /\ Head(sent) \in Commands
  BY <1>1, CommandTaken
<1>3. /\ UNCHANGED <<mode, pc, status, request, stopper, stopEvent, loads>>
  BY <1>1 DEF scriptVars
<1>4. ASSUME NEW e \in Events, e.kind \in {"Loaded", "Error", "Busy"}, Broadcast(<<e>>),
             engine' \in {engine, "LOADED"}, UNCHANGED <<run, own, broadcasts, outcome>>
      PROVE  ScriptInv'
  <2>1. <<e>> \in Seq(Events) /\ ~Holds(<<e>>, "Stopped")
    BY <1>4, OneEvent
  <2>2. inbox' \in Seq(Events) /\ (inbox' = inbox \/ connected)
    BY <1>1, <1>4, <2>1, BroadcastHolds DEF Broadcast
  <2>3. ScriptTypeOK'
    BY <1>1, <1>2, <1>3, <1>4, <2>2 DEF ScriptTypeOK, Commands
  <2>4. OneRunAsked'
    BY <1>2, <1>3, <1>4 DEF OneRunAsked
  <2>5. Attached'
    BY <1>1, <1>3, <2>2, AttachedKept
  <2>6. Active' => Active
    BY <1>4 DEF Active
  <2>7. RunsKnown'
    BY <1>1, <1>4, <2>6, RunsKept DEF Told
  <2>8. EndTold' => EndTold
    BY <1>1, <1>3, <1>4, <2>1, NoEndBroadcast
  <2>9. EndToldOver'
    BY <1>1, <1>3, <1>4, <2>8, EndKept DEF Told
  <2> QED
    BY <2>3, <2>4, <2>5, <2>7, <2>9
<1>5. CASE /\ Head(sent) = "run" /\ engine = "LOADED"
           /\ engine' = "RUNNING" /\ run' = run + 1 /\ own' = run + 1 /\ outcome' = "none"
           /\ UNCHANGED <<broadcasts, inbox>>
  <2>1. RunAsked /\ ~RunAsked' /\ own = NotRun
    BY <1>2, <1>5 DEF OneRunAsked
  <2>2. status \notin {"IDLE", "LOADED"}
    BY <2>1 DEF OneRunAsked
  <2>3. run \in Nat /\ run + 1 # NotRun
    BY DEF ScriptTypeOK, NotRun
  <2>4. ScriptTypeOK'
    BY <1>1, <1>2, <1>3, <1>5, <2>3, ScriptAssumption DEF ScriptTypeOK, Commands
  <2>5. OneRunAsked'
    BY <1>2, <1>3, <2>1, <2>2 DEF OneRunAsked
  <2>6. Attached'
    BY <1>1, <1>3, <1>5, AttachedKept
  <2>7. RunsKnown'
    BY <1>1, <1>5, <2>1, <2>3 DEF RunsKnown, OwnTold
  <2>8. EndTold' => EndTold
    BY <1>1, <1>3, <1>5 DEF EndTold, Holds
  <2>9. EndToldOver'
    BY <1>1, <1>3, <2>1, <2>8 DEF EndToldOver, OwnTold
  <2> QED
    BY <2>4, <2>5, <2>6, <2>7, <2>9
<1>6. CASE /\ Head(sent) = "stop" /\ engine = "RUNNING" /\ engine' = "STOPPING"
           /\ UNCHANGED <<run, own, broadcasts, outcome, inbox>>
  <2>1. ScriptTypeOK'
    BY <1>1, <1>2, <1>3, <1>6 DEF ScriptTypeOK, Commands
  <2>2. OneRunAsked'
    BY <1>2, <1>3, <1>6 DEF OneRunAsked
  <2>3. Attached'
    BY <1>1, <1>3, <1>6, AttachedKept
  <2>4. Active
    BY <1>6 DEF Active
  <2>5. RunsKnown'
    BY <1>1, <1>6, <2>4, RunsKept DEF Told
  <2>6. EndTold' => EndTold
    BY <1>1, <1>3, <1>6 DEF EndTold, Holds
  <2>7. EndToldOver'
    BY <1>1, <1>3, <1>6, <2>6, EndKept DEF Told
  <2> QED
    BY <2>1, <2>2, <2>3, <2>5, <2>7
<1>7. /\ Event("Loaded") \in Events /\ Event("Loaded").kind = "Loaded"
      /\ Event("Busy") \in Events /\ Event("Busy").kind = "Busy"
      /\ \A r \in Requests : Error(r) \in Events /\ Error(r).kind = "Error"
  BY EventKinds DEF Kinds
<1>8. \/ Head(sent) = "load" /\ engine' = "LOADED" /\ Broadcast(<<Event("Loaded")>>)
         /\ UNCHANGED <<run, own, broadcasts, outcome>>
      \/ Head(sent) \in {"load", "run"} /\ Broadcast(<<Error(Head(sent))>>)
         /\ UNCHANGED <<engine, run, own, broadcasts, outcome>>
      \/ /\ Head(sent) = "run" /\ engine = "LOADED"
         /\ engine' = "RUNNING" /\ run' = run + 1 /\ own' = run + 1 /\ outcome' = "none"
         /\ UNCHANGED <<broadcasts, inbox>>
      \/ /\ Head(sent) = "stop" /\ engine = "RUNNING" /\ engine' = "STOPPING"
         /\ UNCHANGED <<run, own, broadcasts, outcome, inbox>>
      \/ Broadcast(<<Event("Busy")>>) /\ UNCHANGED <<engine, run, own, broadcasts, outcome>>
  BY DEF EngineTakes
<1> QED
  BY <1>4, <1>5, <1>6, <1>7, <1>8 DEF Requests

LEMMA GuiActsStep == ASSUME ScriptInv, GuiActs PROVE ScriptInv'
<1> USE DEF ScriptInv
<1>1. /\ UNCHANGED <<others, own, strays, connected, sent, pending, overtook>>
      /\ UNCHANGED <<mode, pc, status, request, stopper, stopEvent, loads>>
  BY DEF GuiActs, scriptVars
<1>2. OneRunAsked'
  BY <1>1, CommandsKept
<1>3. CASE /\ engine = "IDLE" /\ engine' = "LOADED" /\ Broadcast(<<Event("Loaded")>>)
           /\ UNCHANGED <<run, broadcasts, outcome, mixed>>
  <2>1. Event("Loaded") \in Events /\ Event("Loaded").kind = "Loaded"
    BY EventKinds DEF Kinds
  <2>2. <<Event("Loaded")>> \in Seq(Events) /\ ~Holds(<<Event("Loaded")>>, "Stopped")
    BY <2>1, OneEvent
  <2>3. inbox' \in Seq(Events) /\ (inbox' = inbox \/ connected)
    BY <1>3, <2>2, BroadcastHolds DEF ScriptTypeOK, Broadcast
  <2>4. ScriptTypeOK'
    BY <1>1, <1>3, <2>3 DEF ScriptTypeOK
  <2>5. ~Active'
    BY <1>3 DEF Active
  <2>6. EndTold' => EndTold
    BY <1>1, <1>3, <2>2, NoEndBroadcast
  <2> QED
    BY <1>1, <1>2, <1>3, <2>3, <2>4, <2>5, <2>6, AttachedKept, RunsKept, EndKept DEF Told
<1>4. CASE /\ engine = "LOADED" /\ engine' = "RUNNING" /\ run' = run + 1
           /\ outcome' = "none" /\ mixed' = TRUE /\ UNCHANGED <<broadcasts, inbox>>
  <2>1. ScriptTypeOK'
    BY <1>1, <1>4, ScriptAssumption DEF ScriptTypeOK
  <2>2. Attached'
    BY <1>1, <1>4, AttachedKept
  <2>3. RunsKnown'
    BY <1>4 DEF RunsKnown, ScriptTypeOK, NotRun
  <2>4. EndToldOver'
    BY <1>4 DEF EndToldOver
  <2> QED
    BY <1>2, <2>1, <2>2, <2>3, <2>4
<1>5. CASE /\ engine \in {"RUNNING", "PAUSED"} /\ engine' \in {"RUNNING", "PAUSED", "STOPPING"}
           /\ UNCHANGED <<run, broadcasts, outcome, inbox, mixed>>
  <2>1. ScriptTypeOK'
    BY <1>1, <1>5 DEF ScriptTypeOK
  <2>2. Attached'
    BY <1>1, <1>5, AttachedKept
  <2>3. Active
    BY <1>5 DEF Active
  <2>4. EndTold' => EndTold
    BY <1>1, <1>5 DEF EndTold, Holds
  <2> QED
    BY <1>1, <1>2, <1>5, <2>1, <2>2, <2>3, <2>4, RunsKept, EndKept DEF Told
<1> QED
  BY <1>3, <1>4, <1>5 DEF GuiActs

LEMMA RunProgressStep == ASSUME ScriptInv, RunProgress PROVE ScriptInv'
<1> USE DEF ScriptInv
<1>1. /\ UNCHANGED <<others, engine, run, own, outcome, strays, connected, sent, pending, mixed,
                     overtook>>
      /\ UNCHANGED <<mode, pc, status, request, stopper, stopEvent, loads>>
      /\ broadcasts < MaxItems /\ broadcasts' = broadcasts + 1 /\ Broadcast(<<Event("Event")>>)
  BY DEF RunProgress, scriptVars, sessionHistory
<1>2. Event("Event") \in Events /\ Event("Event").kind = "Event"
  BY EventKinds DEF Kinds
<1>3. <<Event("Event")>> \in Seq(Events) /\ ~Holds(<<Event("Event")>>, "Stopped")
  BY <1>2, OneEvent
<1>4. inbox' \in Seq(Events) /\ (inbox' = inbox \/ connected)
  BY <1>1, <1>3, BroadcastHolds DEF ScriptTypeOK, Broadcast
<1>5. ScriptTypeOK'
  BY <1>1, <1>4, ScriptAssumption DEF ScriptTypeOK
<1>6. EndTold' => EndTold
  BY <1>1, <1>3, NoEndBroadcast
<1>7. (Active' <=> Active) /\ (Told' <=> Told)
  BY <1>1 DEF Active, Told
<1> QED
  BY <1>1, <1>4, <1>5, <1>6, <1>7, CommandsKept, AttachedKept, RunsKept, EndKept

(* What the thread and the coroutine of a run broadcast. *)
LEMMA RunBroadcasts ==
  /\ <<Event("Stopped")>> \in Seq(Events)
  /\ <<Error(OwnOrOther)>> \in Seq(Events) /\ ~Holds(<<Error(OwnOrOther)>>, "Stopped")
  /\ <<Event("Stopped"), Error(OwnOrOther)>> \in Seq(Events)
<1>1. Event("Stopped") \in Events /\ Error(OwnOrOther) \in Events /\ Error(OwnOrOther).kind = "Error"
  BY EventKinds DEF Kinds, Requests, OwnOrOther
<1> QED
  BY <1>1, OneEvent

(* The steps of a run share all but what they report. *)
RunStepKeeps ==
  /\ UNCHANGED <<others, run, own, broadcasts, connected, sent, pending, mixed, overtook>>
  /\ UNCHANGED <<mode, pc, status, request, stopper, stopEvent, loads>>
  /\ engine' \in {engine, "IDLE"}
  /\ outcome' \in {"none", "ended", "failed", "refused"} /\ strays' \in Nat
  /\ inbox' \in Seq(Events) /\ (inbox' = inbox \/ connected)

LEMMA ReportHolds ==
  ASSUME ScriptInv, RunStepKeeps, RunsKnown',
         connected /\ ~mixed => (EndTold' => EndTold) \/ OwnTold',
         Told => Told'
  PROVE  ScriptInv'
<1> USE DEF ScriptInv, RunStepKeeps
<1>1. ScriptTypeOK'
  BY DEF ScriptTypeOK
<1>2. OneRunAsked' /\ Attached'
  BY CommandsKept, AttachedKept
<1>3. EndToldOver'
  <2>1. CASE (EndTold' => EndTold)
    BY <2>1, EndKept
  <2>2. CASE connected /\ ~mixed /\ OwnTold'
    BY <2>2 DEF EndToldOver
  <2>3. CASE mixed
    BY <2>3 DEF EndToldOver
  <2>4. CASE ~connected
    BY <2>1, <2>4 DEF EndTold, Holds
  <2> QED
    BY <2>1, <2>2, <2>3, <2>4
<1> QED
  BY <1>1, <1>2, <1>3

(* The end that a thread reports is that of the script's run, unless another's
   overlapped.                                                              *)
LEMMA ThreadReportsStep == ASSUME ScriptInv, ThreadReports PROVE ScriptInv'
<1> USE DEF ScriptInv
<1>1. RunStepKeeps /\ engine' = engine /\ strays' = strays /\ Active /\ ~Told
      /\ outcome' \in {"ended", "failed", "refused"}
  BY RunBroadcasts, BroadcastHolds
  DEF ThreadReports, RunStepKeeps, ScriptTypeOK, scriptVars, sessionHistory, Broadcast, Told
<1>2. RunsKnown'
  BY <1>1 DEF RunStepKeeps, RunsKnown, OwnTold, Active
<1>3. connected /\ ~mixed => (EndTold' => EndTold) \/ OwnTold'
  <2>1. CASE outcome' \in {"ended", "failed"}
    BY <1>1, <2>1 DEF RunStepKeeps, RunsKnown, OwnTold, Told
  <2>2. CASE Broadcast(<<Error(OwnOrOther)>>)
    BY <1>1, <2>2, RunBroadcasts, NoEndBroadcast DEF RunStepKeeps
  <2> QED
    BY <2>1, <2>2 DEF ThreadReports
<1> QED
  BY <1>1, <1>2, <1>3, ReportHolds

LEMMA StrayReportsStep == ASSUME ScriptInv, StrayReports PROVE ScriptInv'
<1> USE DEF ScriptInv
<1>1. RunStepKeeps /\ UNCHANGED <<engine, outcome>> /\ strays > 0 /\ strays' = strays - 1
  <2>1. strays \in Nat /\ strays > 0 => strays - 1 \in Nat
    OBVIOUS
  <2> QED
    BY <2>1, RunBroadcasts, BroadcastHolds
    DEF StrayReports, RunStepKeeps, ScriptTypeOK, scriptVars, sessionHistory, Broadcast
<1>2. (Active' <=> Active) /\ (Told' <=> Told)
  BY <1>1 DEF Active, Told
<1>3. RunsKnown'
  BY <1>1, <1>2, RunsKept DEF RunStepKeeps
<1>4. connected /\ ~mixed => OwnTold'
  BY <1>1, <1>2 DEF RunsKnown, OwnTold, RunStepKeeps
<1> QED
  BY <1>1, <1>2, <1>3, <1>4, ReportHolds

LEMMA RunOverStep == ASSUME ScriptInv, RunOver PROVE ScriptInv'
<1> USE DEF ScriptInv
<1>1. RunStepKeeps /\ engine' = "IDLE" /\ strays' = strays
  BY RunBroadcasts, BroadcastHolds
  DEF RunOver, RunStepKeeps, ScriptTypeOK, scriptVars, sessionHistory, Broadcast
<1>2. ~Active' /\ (Told => Told')
  BY <1>1 DEF Active, Told, RunOver
<1>3. RunsKnown'
  BY <1>1, <1>2, RunsKept DEF RunStepKeeps
<1>4. EndTold' => EndTold
  <2>1. CASE inbox' = inbox
    BY <1>1, <2>1 DEF RunStepKeeps, EndTold, Holds
  <2>2. CASE Broadcast(<<Error(OwnOrOther)>>)
    BY <1>1, <2>2, RunBroadcasts, NoEndBroadcast DEF RunStepKeeps
  <2> QED
    BY <2>1, <2>2 DEF RunOver
<1> QED
  BY <1>1, <1>2, <1>3, <1>4, ReportHolds

LEMMA RunFailsStep == ASSUME ScriptInv, RunFails PROVE ScriptInv'
<1> USE DEF ScriptInv
<1>1. RunStepKeeps /\ engine' = "IDLE" /\ Active /\ outcome' = "failed"
  <2>1. strays' \in Nat
    BY DEF RunFails, ScriptTypeOK
  <2>2. inbox' \in Seq(Events) /\ (inbox' = inbox \/ connected)
    BY RunBroadcasts, BroadcastHolds DEF RunFails, ScriptTypeOK, Broadcast
  <2> QED
    BY <2>1, <2>2 DEF RunFails, RunStepKeeps, scriptVars, sessionHistory
<1>2. ~Active' /\ Told'
  BY <1>1 DEF Active, Told
<1>3. connected /\ ~mixed => OwnTold'
  BY <1>1, <1>2 DEF RunsKnown, OwnTold, RunStepKeeps
<1>4. RunsKnown'
  BY <1>1, <1>2, <1>3 DEF RunsKnown, RunStepKeeps
<1> QED
  BY <1>1, <1>2, <1>3, <1>4, ReportHolds

LEMMA ClosingStep == ASSUME ScriptInv, Disconnected \/ Exit PROVE ScriptInv'
<1> USE DEF ScriptInv
<1>1. /\ UNCHANGED <<others, run, own, broadcasts, outcome, strays, mixed, overtook, pending, mode,
                     status, request, stopper, loads>>
      /\ engine' \in {engine, "IDLE"} /\ connected' \in BOOLEAN /\ (connected' => connected)
      /\ sent' = sent \/ sent' = << >>
      /\ stopEvent' \in BOOLEAN
  BY DEF Disconnected, Exit, Closes, scriptVars, ScriptTypeOK, sessionHistory
<1>2. /\ pc' = pc \/ (pc = "free" /\ pc' = "exited")
      /\ \/ inbox' = inbox
         \/ connected /\ inbox' = inbox \o <<Event("Closed")>>
  BY DEF Disconnected, Exit, scriptVars, Received
<1>3. Event("Closed") \in Events /\ Event("Closed").kind = "Closed"
  BY EventKinds DEF Kinds
<1>4. inbox' \in Seq(Events) /\ (Holds(inbox', "Stopped") => Holds(inbox, "Stopped"))
  <2>1. <<Event("Closed")>> \in Seq(Events) /\ ~Holds(<<Event("Closed")>>, "Stopped")
    BY <1>3, OneEvent
  <2>2. CASE inbox' = inbox
    BY <2>2 DEF ScriptTypeOK, Holds
  <2>3. CASE inbox' = inbox \o <<Event("Closed")>>
    BY <2>1, <2>3, ConcatHolds DEF ScriptTypeOK
  <2> QED
    BY <1>2, <2>2, <2>3
<1>5. ScriptTypeOK'
  <2>1. sent' \in Seq({"load", "run", "stop"})
    <3>1. sent' = sent \/ sent' = << >>
      BY <1>1
    <3>2. sent \in Seq({"load", "run", "stop"})
      BY DEF ScriptTypeOK
    <3> QED
      BY <3>1, <3>2, EmptyQueues
  <2>2. engine' \in {"IDLE", "LOADED", "RUNNING", "PAUSED", "STOPPING"}
        /\ pc' \in {"out", "free", "waiting", "starting", "events", "ending", "local", "exited"}
        /\ (pending' # << >> => pc' = "waiting")
    BY <1>1, <1>2 DEF ScriptTypeOK
  <2> QED
    BY <1>1, <1>4, <2>1, <2>2 DEF ScriptTypeOK
<1>6. OneRunAsked'
  BY <1>1, <1>2 DEF OneRunAsked, RunAsked
<1>7. Attached'
  BY <1>1, <1>2 DEF Attached
<1>8. EndTold' => EndTold
  BY <1>1, <1>2, <1>4 DEF EndTold, Holds
<1>9. (Active' => Active) /\ (Told' <=> Told)
  BY <1>1 DEF Active, Told
<1> QED
  BY <1>1, <1>5, <1>6, <1>7, <1>8, <1>9, RunsKept, EndKept

-----------------------------------------------------------------------------
(* The script's own steps leave the engine and the connection as they are.  *)

LEMMA ScriptStep ==
  ASSUME ScriptInv, ScriptTypeOK', OneRunAsked', Attached',
         UNCHANGED <<engine, run, own, outcome, strays, mixed, connected, mode>>,
         mode = "attach" => (EndTold' => EndTold)
  PROVE  ScriptInv'
<1>1. (Active' <=> Active) /\ (Told' <=> Told)
  BY DEF Active, Told
<1> QED
  BY <1>1, RunsKept, EndKept DEF ScriptInv

LEMMA EnterStep == ASSUME ScriptInv, Enter PROVE ScriptInv'
<1> USE DEF ScriptInv
<1>1. /\ pc = "out" /\ pc' = "free" /\ mode' \in {"attach", "inprocess"}
      /\ UNCHANGED <<others, engine, run, own, broadcasts, outcome, strays, sent, inbox, pending,
                     status, request, stopper, stopEvent, loads, overtook>>
      /\ connected' \in BOOLEAN /\ mixed' \in BOOLEAN
      /\ ~mixed' => ~connected' \/ ~(Active \/ strays > 0)
  <2>1. CASE mode' = "attach"
    BY <2>1 DEF Enter, ScriptTypeOK, Active, replayVars
  <2>2. CASE mode' = "inprocess"
    BY <2>2 DEF Enter, Attached, ScriptTypeOK, replayVars
  <2> QED
    BY <2>1, <2>2 DEF Enter
<1>2. ScriptTypeOK'
  BY <1>1 DEF ScriptTypeOK
<1>3. OneRunAsked'
  BY <1>1 DEF OneRunAsked, RunAsked
<1>4. Attached'
  BY <1>1 DEF Attached
<1>5. Active' <=> Active
  BY <1>1 DEF Active
<1>6. RunsKnown'
  BY <1>1, <1>5 DEF RunsKnown
<1>7. ~EndTold'
  BY <1>1 DEF Attached, EndTold, Holds, ScriptTypeOK
<1> QED
  BY <1>2, <1>3, <1>4, <1>6, <1>7 DEF EndToldOver

LEMMA LoadStep == ASSUME ScriptInv, Load PROVE ScriptInv'
<1> USE DEF ScriptInv
<1>1. /\ UNCHANGED <<others, engine, run, own, broadcasts, outcome, strays, mixed, overtook, connected, inbox,
                     pending, mode, stopper, stopEvent>>
      /\ pc = "free" /\ status = "IDLE" /\ loads < MaxLoads /\ loads' = loads + 1
  BY DEF Load, engineVars, replayVars, sessionHistory
<1>2. sent' \in Seq(Commands) /\ (RunAsked' => RunAsked)
      /\ \A i, j \in 1 .. Len(sent') : sent'[i] = "run" /\ sent'[j] = "run" => i = j
  <2>1. CASE mode = "attach"
    BY <2>1, CommandSent DEF Load, ScriptTypeOK, Commands
  <2>2. CASE mode # "attach"
    <3>1. sent' = sent
      BY <2>2 DEF Load
    <3> QED
      BY <3>1 DEF RunAsked, OneRunAsked, ScriptTypeOK, Commands
  <2> QED
    BY <2>1, <2>2
<1>3. /\ status' \in {"IDLE", "LOADED"} /\ pc' \in {"free", "waiting"}
      /\ (pc' = "waiting" => status' = "IDLE") /\ request' \in {request, "load"}
  BY <1>1 DEF Load
<1>4. ScriptTypeOK'
  BY <1>1, <1>2, <1>3, ScriptAssumption DEF ScriptTypeOK, Commands, Statuses
<1>5. OneRunAsked'
  BY <1>1, <1>2, <1>3 DEF OneRunAsked
<1>6. Attached'
  BY <1>1, <1>3 DEF Attached
<1>7. EndTold' => EndTold
  BY <1>1, <1>3 DEF EndTold, Holds
<1> QED
  BY <1>1, <1>4, <1>5, <1>6, <1>7, ScriptStep

LEMMA WaitStep == ASSUME ScriptInv, WaitReads \/ WaitTimesOut PROVE ScriptInv'
<1> USE DEF ScriptInv
<1>1. /\ UNCHANGED <<others, engine, run, own, broadcasts, outcome, strays, mixed, overtook, connected, sent, mode,
                     request, stopper, stopEvent, loads>>
      /\ pc = "waiting"
  BY DEF WaitReads, WaitTimesOut, engineVars, replayVars, sessionHistory
<1>2. status = "IDLE" /\ stopper = "none" /\ inbox \in Seq(Events) /\ pending \in Seq(Events)
  BY <1>1 DEF OneRunAsked, ScriptTypeOK
<1>3. ASSUME inbox' \in Seq(Events), pending' \in Seq(Events),
             pc' \in {"free", "waiting"}, status' \in {"IDLE", "LOADED"},
             pc' = "waiting" => status' = "IDLE", pending' # << >> => pc' = "waiting",
             Holds(inbox', "Stopped") \/ Holds(pending', "Stopped")
             => Holds(inbox, "Stopped") \/ Holds(pending, "Stopped")
      PROVE  ScriptInv'
  <2>1. ScriptTypeOK'
    BY <1>1, <1>3 DEF ScriptTypeOK, Statuses
  <2>2. OneRunAsked'
    BY <1>1, <1>2, <1>3 DEF OneRunAsked, RunAsked
  <2>3. Attached'
    BY <1>1, <1>3 DEF Attached
  <2>4. EndTold' => EndTold
    BY <1>3 DEF EndTold
  <2> QED
    BY <1>1, <2>1, <2>2, <2>3, <2>4, ScriptStep
<1>4. CASE WaitTimesOut
  <2>1. inbox' = inbox /\ pending' = << >> /\ pc' = "free" /\ status' = status
    BY <1>4 DEF WaitTimesOut
  <2>2. ~Holds(pending', "Stopped")
    BY <2>1 DEF Holds
  <2>3. Holds(inbox', "Stopped") => Holds(inbox, "Stopped")
    BY <2>1 DEF Holds
  <2> QED
    BY <1>2, <1>3, <2>1, <2>2, <2>3
<1>5. CASE WaitReads
  <2> DEFINE e == Head(inbox)
  <2>1. /\ inbox # << >> /\ Tail(inbox) \in Seq(Events) /\ e \in Events
        /\ Holds(Tail(inbox), "Stopped") => Holds(inbox, "Stopped")
        /\ Holds(inbox, e.kind)
    BY <1>2, <1>5, TailHolds DEF WaitReads
  <2>2. \/ inbox' = Tail(inbox) \o pending /\ pending' = << >> /\ status' = "LOADED" /\ pc' = "free"
        \/ inbox' = Tail(inbox) /\ pending' = << >> /\ pc' = "free" /\ status' = status
        \/ inbox' = Tail(inbox) /\ UNCHANGED <<pending, status, pc>>
        \/ inbox' = Tail(inbox) /\ pending' = Append(pending, e) /\ UNCHANGED <<status, pc>>
    BY <1>5 DEF WaitReads
  <2>3. CASE inbox' = Tail(inbox) \o pending /\ pending' = << >> /\ status' = "LOADED" /\ pc' = "free"
    <3>1. /\ inbox' \in Seq(Events)
          /\ Holds(inbox', "Stopped") => Holds(Tail(inbox), "Stopped") \/ Holds(pending, "Stopped")
      BY <1>2, <2>1, <2>3, ConcatHolds
    <3>2. ~Holds(pending', "Stopped")
      BY <2>3 DEF Holds
    <3> QED
      BY <1>3, <2>1, <2>3, <3>1, <3>2
  <2>4. CASE inbox' = Tail(inbox) /\ pending' = << >> /\ pc' = "free" /\ status' = status
    <3>1. ~Holds(pending', "Stopped")
      BY <2>4 DEF Holds
    <3> QED
      BY <1>2, <1>3, <2>1, <2>4, <3>1
  <2>5. CASE inbox' = Tail(inbox) /\ UNCHANGED <<pending, status, pc>>
    <3>1. Holds(pending', "Stopped") => Holds(pending, "Stopped")
      BY <2>5 DEF Holds
    <3> QED
      BY <1>1, <1>2, <1>3, <2>1, <2>5, <3>1
  <2>6. CASE inbox' = Tail(inbox) /\ pending' = Append(pending, e) /\ UNCHANGED <<status, pc>>
    <3>1. /\ pending' \in Seq(Events)
          /\ Holds(pending', "Stopped") => Holds(pending, "Stopped") \/ e.kind = "Stopped"
      BY <1>2, <2>1, <2>6, AppendHolds
    <3> QED
      BY <1>1, <1>2, <1>3, <2>1, <2>6, <3>1
  <2> QED
    BY <2>2, <2>3, <2>4, <2>5, <2>6
<1> QED
  BY <1>4, <1>5

LEMMA RunStep == ASSUME ScriptInv, Run PROVE ScriptInv'
<1> USE DEF ScriptInv
<1>1. /\ UNCHANGED <<others, engine, run, own, broadcasts, outcome, strays, mixed, overtook, connected,
                     sent, inbox, pending, mode, stopper, loads>>
      /\ pc = "free" /\ status = "LOADED" /\ status' = "RUNNING"
      /\ own = NotRun /\ ~RunAsked
  BY DEF Run, engineVars, replayVars, sessionHistory, OneRunAsked
<1>2. /\ pc' \in {"starting", "local"} /\ (pc' = "local" => mode # "attach")
      /\ request' \in {request, "run"} /\ stopEvent' \in BOOLEAN
  BY DEF Run, ScriptTypeOK
<1>3. ScriptTypeOK'
  <2>1. pending' = << >>
    BY <1>1 DEF ScriptTypeOK
  <2> QED
    BY <1>1, <1>2, <2>1 DEF ScriptTypeOK, Statuses
<1>4. OneRunAsked'
  BY <1>1, <1>2 DEF OneRunAsked, RunAsked
<1>5. Attached'
  BY <1>1, <1>2 DEF Attached, ScriptTypeOK
<1>6. EndTold' => EndTold
  BY <1>1, <1>2 DEF EndTold, Holds
<1> QED
  BY <1>1, <1>3, <1>4, <1>5, <1>6, ScriptStep

LEMMA StartSentStep == ASSUME ScriptInv, StartSent PROVE ScriptInv'
<1> USE DEF ScriptInv
<1>1. /\ UNCHANGED <<others, engine, run, own, broadcasts, outcome, strays, mixed, overtook, connected,
                     inbox, pending, mode, status, request, stopper, stopEvent, loads>>
      /\ pc = "starting" /\ pc' = "events"
      /\ status \notin {"IDLE", "LOADED"} /\ own = NotRun /\ ~RunAsked
  BY DEF StartSent, engineVars, replayVars, sessionHistory, OneRunAsked
<1>2. sent' \in Seq(Commands)
      /\ \A i, j \in 1 .. Len(sent') : sent'[i] = "run" /\ sent'[j] = "run" => i = j
  BY <1>1, CommandSent DEF StartSent, ScriptTypeOK, Commands
<1>3. ScriptTypeOK'
  <2>1. pending' = << >>
    BY <1>1 DEF ScriptTypeOK
  <2> QED
    BY <1>1, <1>2, <2>1 DEF ScriptTypeOK, Commands
<1>4. OneRunAsked'
  BY <1>1, <1>2 DEF OneRunAsked
<1>5. Attached'
  BY <1>1 DEF Attached
<1>6. EndTold' => EndTold
  BY <1>1 DEF EndTold, Holds
<1> QED
  BY <1>1, <1>3, <1>4, <1>5, <1>6, ScriptStep

(* run() reads one event. *)
LEMMA EventsReadStep == ASSUME ScriptInv, EventsRead PROVE ScriptInv'
<1> USE DEF ScriptInv
<1> DEFINE e == Head(inbox)
<1>1. /\ UNCHANGED <<others, engine, run, own, broadcasts, outcome, strays, mixed, overtook, connected, sent, pending,
                     mode, stopper, stopEvent, loads>>
      /\ pc = "events" /\ inbox # << >> /\ inbox' \in {Tail(inbox), << >>}
  BY DEF EventsRead, Raises, engineVars, replayVars, sessionHistory
<1>2. /\ inbox' \in Seq(Events) /\ Holds(inbox, e.kind)
      /\ Holds(inbox', "Stopped") => Holds(inbox, "Stopped")
  <2>1. << >> \in Seq(Events) /\ ~Holds(<< >>, "Stopped")
    BY DEF Holds
  <2> QED
    BY <1>1, <2>1, TailHolds DEF ScriptTypeOK
<1>3. \/ e.kind = "Stopped" /\ status' = "STOPPED" /\ pc' = "ending" /\ request' = request
      \/ /\ status' = (IF status = "STOPPED" THEN status ELSE "ERRORED")
         /\ pc' = "free" /\ request' = NoRequest
      \/ UNCHANGED <<status, pc, request>>
  BY DEF EventsRead, Raises, Endings
<1>4. /\ status' \in {status, "STOPPED", "ERRORED"} /\ request' \in {request, NoRequest}
      /\ pc' \in {"events", "ending", "free"}
  BY <1>1, <1>3
<1>5. ScriptTypeOK'
  <2>1. pending' = << >>
    BY <1>1 DEF ScriptTypeOK
  <2> QED
    BY <1>1, <1>2, <1>4, <2>1 DEF ScriptTypeOK, Statuses
<1>6. OneRunAsked'
  BY <1>1, <1>4 DEF OneRunAsked, RunAsked
<1>7. Attached'
  BY <1>1, <1>4 DEF Attached
<1>8. EndTold' => EndTold
  <2>1. Holds(pending', "Stopped") => Holds(pending, "Stopped")
    BY <1>1 DEF Holds
  <2> QED
    BY <1>1, <1>2, <1>3, <2>1 DEF EndTold
<1> QED
  BY <1>1, <1>5, <1>6, <1>7, <1>8, ScriptStep

LEMMA RunReturnsStep ==
  ASSUME ScriptInv, LastCallback \/ EventsTimeOut \/ LocalEnds
  PROVE  ScriptInv'
<1> USE DEF ScriptInv
<1>1. /\ UNCHANGED <<others, engine, run, own, broadcasts, outcome, strays, mixed, overtook, connected, sent,
                     pending, mode, stopper, stopEvent, loads>>
      /\ pc \in {"events", "ending", "local"} /\ pc' = "free"
      /\ status' \in {"STOPPED", "ERRORED"} /\ request' \in {request, NoRequest}
      /\ inbox' \in {inbox, << >>}
  BY DEF LastCallback, EventsTimeOut, LocalEnds, Raises, engineVars, replayVars, sessionHistory
<1>2. ScriptTypeOK'
  <2>1. pending' = << >> /\ inbox' \in Seq(Events)
    BY <1>1, EmptyQueues DEF ScriptTypeOK
  <2> QED
    BY <1>1, <2>1 DEF ScriptTypeOK, Statuses
<1>3. OneRunAsked'
  BY <1>1 DEF OneRunAsked, RunAsked
<1>4. Attached'
  BY <1>1 DEF Attached
<1>5. mode = "attach" => (EndTold' => EndTold)
  <2>1. /\ Holds(inbox', "Stopped") => Holds(inbox, "Stopped")
        /\ Holds(pending', "Stopped") => Holds(pending, "Stopped")
    BY <1>1 DEF Holds
  <2>2. CASE LastCallback
    BY <1>1, <2>1, <2>2 DEF LastCallback, EndTold
  <2>3. CASE EventsTimeOut
    BY <1>1, <2>1, <2>3 DEF EventsTimeOut, Raises, EndTold
  <2>4. CASE LocalEnds
    BY <2>4 DEF LocalEnds, Attached
  <2> QED
    BY <2>2, <2>3, <2>4
<1> QED
  BY <1>1, <1>2, <1>3, <1>4, <1>5, ScriptStep

(* stop() from another thread. *)
LEMMA StopStep == ASSUME ScriptInv, StopLooks \/ StopSets \/ StopSends PROVE ScriptInv'
<1> USE DEF ScriptInv
<1>1. /\ UNCHANGED <<others, engine, run, own, broadcasts, outcome, strays, mixed, connected, inbox,
                     pending, mode, pc, request, loads>>
      /\ stopEvent' \in BOOLEAN /\ overtook' \in BOOLEAN /\ status' \in {status, "STOPPING"}
      /\ (status' # status => stopper # "none")
      /\ stopper' \in {"none", "checked", "sending"}
      /\ (stopper' # "none" => status' \notin {"IDLE", "LOADED"})
  <2>1. CASE StopLooks
    BY <2>1 DEF StopLooks, engineVars, replayVars, sessionHistory, ScriptTypeOK, OneRunAsked
  <2>2. CASE StopSets
    BY <2>2 DEF StopSets, engineVars, replayVars, sessionHistory, ScriptTypeOK
  <2>3. CASE StopSends
    BY <2>3 DEF StopSends, replayVars, ScriptTypeOK
  <2> QED
    BY <2>1, <2>2, <2>3
<1>2. sent' \in Seq(Commands) /\ (RunAsked' => RunAsked)
      /\ \A i, j \in 1 .. Len(sent') : sent'[i] = "run" /\ sent'[j] = "run" => i = j
  <2>1. CASE StopLooks \/ StopSets
    <3>1. sent' = sent
      BY <2>1 DEF StopLooks, StopSets
    <3> QED
      BY <3>1 DEF RunAsked, OneRunAsked, ScriptTypeOK, Commands
  <2>2. CASE StopSends
    BY <2>2, CommandSent DEF StopSends, ScriptTypeOK, Commands
  <2> QED
    BY <2>1, <2>2
<1>3. ScriptTypeOK'
  BY <1>1, <1>2 DEF ScriptTypeOK, Commands, Statuses
<1>4. OneRunAsked'
  BY <1>1, <1>2 DEF OneRunAsked
<1>5. Attached'
  BY <1>1 DEF Attached, OneRunAsked
<1>6. EndTold' => EndTold
  BY <1>1 DEF EndTold, Holds
<1> QED
  BY <1>1, <1>3, <1>4, <1>5, <1>6, ScriptStep

-----------------------------------------------------------------------------
(* The invariant of the session. *)

LEMMA ScriptInitInv == ScriptInit => ScriptInv
<1> SUFFICES ASSUME ScriptInit PROVE ScriptInv
  OBVIOUS
<1>1. ScriptTypeOK
  <2>1. run \in Nat /\ own \in 0 .. run /\ strays \in Nat /\ broadcasts \in 0 .. MaxItems
        /\ loads \in 0 .. MaxLoads
    BY ScriptAssumption DEF ScriptInit, NotRun
  <2>2. sent \in Seq({"load", "run", "stop"}) /\ inbox \in Seq(Events) /\ pending \in Seq(Events)
    BY EmptyQueues DEF ScriptInit
  <2>3. others \in BOOLEAN /\ connected \in BOOLEAN /\ stopEvent \in BOOLEAN
        /\ mixed \in BOOLEAN /\ overtook \in BOOLEAN
    BY DEF ScriptInit
  <2>4. engine = "IDLE" /\ mode = "none" /\ pc = "out" /\ status = "IDLE" /\ request = NoRequest
        /\ stopper = "none" /\ pending = << >> /\ outcome = "none"
    BY DEF ScriptInit
  <2> QED
    BY <2>1, <2>2, <2>3, <2>4 DEF ScriptTypeOK, Statuses
<1>2. OneRunAsked
  BY DEF ScriptInit, OneRunAsked, RunAsked
<1>3. Attached /\ RunsKnown
  BY DEF ScriptInit, Attached, RunsKnown, Active
<1>4. EndToldOver
  BY DEF ScriptInit, EndToldOver
<1> QED
  BY <1>1, <1>2, <1>3, <1>4 DEF ScriptInv

LEMMA ScriptNextInv == ScriptInv /\ [ScriptNext]_sessionVars => ScriptInv'
<1> SUFFICES ASSUME ScriptInv, [ScriptNext]_sessionVars PROVE ScriptInv'
  OBVIOUS
<1>1. CASE EngineTakes \/ GuiActs \/ RunProgress
  BY <1>1, EngineTakesStep, GuiActsStep, RunProgressStep
<1>2. CASE ThreadReports \/ StrayReports \/ RunOver \/ RunFails \/ Disconnected \/ Exit
  BY <1>2, ThreadReportsStep, StrayReportsStep, RunOverStep, RunFailsStep, ClosingStep
<1>3. CASE Enter \/ Load \/ WaitReads \/ WaitTimesOut \/ Run \/ StartSent
  BY <1>3, EnterStep, LoadStep, WaitStep, RunStep, StartSentStep
<1>4. CASE EventsRead \/ EventsTimeOut \/ LastCallback \/ LocalEnds
  BY <1>4, EventsReadStep, RunReturnsStep
<1>5. CASE StopLooks \/ StopSets \/ StopSends
  BY <1>5, StopStep
<1>6. CASE UNCHANGED sessionVars
  <2>1. UNCHANGED <<others, engine, run, own, broadcasts, outcome, strays, mixed, overtook, connected, sent, inbox, pending,
                    mode, pc, status, request, stopper, stopEvent, loads>>
    BY <1>6 DEF sessionVars, engineVars, replayVars, sessionHistory, scriptVars
  <2>2. ScriptTypeOK'
    BY <2>1 DEF ScriptInv, ScriptTypeOK
  <2>3. OneRunAsked' /\ Attached'
    BY <2>1 DEF ScriptInv, OneRunAsked, RunAsked, Attached
  <2>4. EndTold' => EndTold
    BY <2>1 DEF EndTold, Holds
  <2> QED
    BY <2>1, <2>2, <2>3, <2>4, ScriptStep
<1> QED
  BY <1>1, <1>2, <1>3, <1>4, <1>5, <1>6 DEF ScriptNext

LEMMA ScriptInductive == ScriptSpec => []ScriptInv
BY ScriptInitInv, ScriptNextInv, PTL DEF ScriptSpec

(* Every value of a session is of its kind, and no event is put aside outside
   wait_for.                                                                *)
THEOREM SessionTypeOK == ScriptSpec => []ScriptTypeOK
<1>1. ScriptInv => ScriptTypeOK
  BY DEF ScriptInv
<1> QED
  BY <1>1, ScriptInductive, PTL

(* Attached, and with no run of another client about: whatever the GUI, the
   stop() of another thread, lost connections and timeouts do, run() reports
   STOPPED only once the end of the run it has started was broadcast.       *)
THEOREM SessionStoppedMeansEnded == ScriptSpec => []StoppedMeansEnded
<1>1. ScriptInv => StoppedMeansEnded
  BY DEF ScriptInv, EndToldOver, EndTold, OwnTold, StoppedMeansEnded
<1> QED
  BY <1>1, ScriptInductive, PTL

(* STOPPED is final, also for the exceptions that follow it, but for a stop()
   that looked before and sets after.                                       *)
THEOREM SessionStoppedSticks == ScriptSpec => StoppedSticks
<1>1. ScriptInv /\ [ScriptNext]_sessionVars
      => [status = "STOPPED" /\ stopper # "checked" => status' = "STOPPED"]_status
  <2> SUFFICES ASSUME ScriptInv, [ScriptNext]_sessionVars, status = "STOPPED", stopper # "checked"
               PROVE  status' = "STOPPED"
    OBVIOUS
  <2>1. pc # "waiting" /\ pc # "local"
    BY DEF ScriptInv, OneRunAsked, Attached
  <2> QED
    BY <2>1 DEF ScriptNext, EngineTakes, GuiActs, Disconnected, RunProgress, ThreadReports,
         StrayReports, RunOver, RunFails, Enter, Load, WaitReads, WaitTimesOut, Run, StartSent,
         EventsRead, EventsTimeOut, LastCallback, LocalEnds, StopLooks, StopSets, StopSends, Exit,
         Raises, sessionVars, scriptVars
<1> QED
  BY <1>1, ScriptInductive, PTL DEF ScriptSpec, StoppedSticks
=============================================================================
