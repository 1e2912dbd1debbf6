---------------------------- MODULE ReplayEngine ----------------------------
(***************************************************************************)
(* The replay side of DataEngineServer (python/engine/server.py): the      *)
(* ReplayState machine, the StartEngine coroutines of the asyncio loop and *)
(* the worker threads (asyncio.to_thread) on which they run                *)
(* NautilusRunner.start_backtest_replay_streaming.                         *)
(*                                                                         *)
(* Everything a handler does between two awaits is one action of the event *)
(* loop; a worker thread interleaves with it at every access to the fields *)
(* they share (_engine_stop_events, _replay_paused, _replay_step_request). *)
(* The server is in mode "replay".  A command the state guard refuses      *)
(* (EngineBusy) changes nothing and is a stuttering step.                  *)
(***************************************************************************)
EXTENDS Naturals

CONSTANTS
    Strategies,   \* the strategy ids clients may name in StartEngine
    NoStrategy,   \* the empty strategy id
    MaxRuns,      \* bound: StartEngine commands accepted in one behaviour
    NumItems,     \* bars or ticks in the loaded data
    MaxSteps,     \* bound: pending StepReplay requests
    MaxEpoch      \* bound: LoadReplayData commands accepted

ASSUME ReplayAssumption ==
    /\ NoStrategy \notin Strategies
    /\ MaxRuns \in Nat /\ NumItems \in Nat
    /\ MaxSteps \in Nat /\ MaxEpoch \in Nat

Runs == 1 .. MaxRuns          \* a run is named by the order of its acceptance
NoRun == 0

ReplayStates == {"IDLE", "LOADED", "RUNNING", "PAUSED", "STOPPING"}
ActiveStates == {"RUNNING", "PAUSED", "STOPPING"}

(* A coroutine awaits its thread until it returns, times out or is cancelled. *)
CoroutineStates == {"none", "waiting", "finished", "timedout", "cancelled"}
(* queued: in the executor's queue; spawned: _run entered, no stop event yet;
   armed: holds its stop event; looping: EngineStarted emitted, at the head
   of the item loop; inItem: past the stop and pause checks of one item.   *)
LiveThread == {"queued", "spawned", "armed", "looping", "inItem"}
DeadThread == {"returned", "noresult", "raised", "dropped"}
ThreadStates == {"none"} \cup LiveThread \cup DeadThread

VARIABLES
    replayState,   \* self._replay_state
    epoch,         \* self._replay_session_epoch
    paused,        \* self._replay_paused
    stepRequest,   \* self._replay_step_request
    strategyId,    \* self._replay_strategy_id
    engineTasks,   \* self._engine_tasks: strategy id -> run, or NoRun
    stopEvents,    \* self._engine_stop_events: strategy id -> event, or NoRun
    isSet,         \* the stop events that are set (an event is named by the run that made it)
    nextRun,       \* the number of StartEngine commands accepted
    sid,           \* the strategy id of each run
    co,            \* the StartEngine coroutine of each run
    thread,        \* the worker thread of each run
    evt,           \* the stop event a thread obtained from setdefault
    items,         \* items a thread has processed
    stopFlag,      \* engine_stopped_emitted[0] of each run
    stoppedSent,   \* EngineStopped events emitted for each run
    stopAsked,     \* runs some stop command resolved to (history)
    fetchTasks,    \* self._fetch_tasks: the runs a mass cancellation would find
    doomed,        \* the tasks the running _cancel_all_streams has still to cancel
    cancelling     \* who runs _cancel_all_streams

runVars == <<nextRun, sid, co>>
cancelVars == <<fetchTasks, doomed, cancelling>>
threadVars == <<thread, evt, items, stopFlag, stoppedSent>>
(* What no worker thread writes, the stop events and step requests apart. *)
loopVars == <<replayState, epoch, paused, strategyId, engineTasks, runVars, cancelVars>>
vars == <<loopVars, stepRequest, stopEvents, isSet, threadVars, stopAsked>>

Registered == {r \in Runs : \E s \in Strategies : engineTasks[s] = r}

(* Emitting EngineStopped also raises the flag that suppresses the fallback. *)
EmitStopped(r) ==
    /\ stopFlag' = [stopFlag EXCEPT ![r] = TRUE]
    /\ stoppedSent' = [stoppedSent EXCEPT ![r] = @ + 1]

Init ==
    /\ replayState = "IDLE"
    /\ epoch = 0
    /\ paused = FALSE
    /\ stepRequest = 0
    /\ strategyId = NoStrategy
    /\ engineTasks = [s \in Strategies |-> NoRun]
    /\ stopEvents = [s \in Strategies |-> NoRun]
    /\ isSet = {}
    /\ nextRun = 0
    /\ sid = [r \in Runs |-> NoStrategy]
    /\ co = [r \in Runs |-> "none"]
    /\ thread = [r \in Runs |-> "none"]
    /\ evt = [r \in Runs |-> NoRun]
    /\ items = [r \in Runs |-> 0]
    /\ stopFlag = [r \in Runs |-> FALSE]
    /\ stoppedSent = [r \in Runs |-> 0]
    /\ stopAsked = {}
    /\ fetchTasks = {}
    /\ doomed = {}
    /\ cancelling = "no"

-----------------------------------------------------------------------------
(* Commands, handled on the event loop.                                     *)

(* The data check may fail, which reports an Error and changes nothing. *)
LoadReplayData ==
    /\ replayState = "IDLE"
    /\ epoch < MaxEpoch
    /\ replayState' = "LOADED"
    /\ strategyId' = NoStrategy
    /\ epoch' = epoch + 1
    /\ UNCHANGED <<paused, stepRequest, engineTasks, stopEvents, isSet, stopAsked,
                   runVars, cancelVars, threadVars>>

(* Faulty variant: the registry is not looked at. *)
AnyStrategyFree(s) == s \in Strategies

(* Else the command is answered with engine_already_running. *)
StrategyFree(s) == engineTasks[s] = NoRun

StartEngine(s) ==
    /\ replayState = "LOADED"
    /\ StrategyFree(s)
    /\ nextRun < MaxRuns
    /\ LET r == nextRun + 1 IN
        /\ nextRun' = r
        /\ engineTasks' = [engineTasks EXCEPT ![s] = r]
        /\ sid' = [sid EXCEPT ![r] = s]
        /\ co' = [co EXCEPT ![r] = "waiting"]
        /\ thread' = [thread EXCEPT ![r] = "queued"]
        /\ fetchTasks' = fetchTasks \cup {r}
    /\ replayState' = "RUNNING"
    /\ paused' = FALSE
    /\ stepRequest' = 0
    /\ strategyId' = s
    /\ UNCHANGED <<epoch, stopEvents, isSet, evt, items, stopFlag, stoppedSent,
                   stopAsked, doomed, cancelling>>

PauseReplay ==
    /\ replayState = "RUNNING"
    /\ replayState' = "PAUSED"
    /\ paused' = TRUE
    /\ UNCHANGED <<epoch, stepRequest, strategyId, engineTasks, stopEvents, isSet,
                   stopAsked, runVars, cancelVars, threadVars>>

PausedOnResume == FALSE

ResumeReplay ==
    /\ replayState = "PAUSED"
    /\ replayState' = "RUNNING"
    /\ paused' = PausedOnResume
    /\ UNCHANGED <<epoch, stepRequest, strategyId, engineTasks, stopEvents, isSet,
                   stopAsked, runVars, cancelVars, threadVars>>

StepReplay ==
    /\ replayState = "PAUSED"
    /\ stepRequest < MaxSteps
    /\ stepRequest' = stepRequest + 1
    /\ UNCHANGED <<loopVars, stopEvents, isSet, stopAsked, threadVars>>

(* Setting the stop event of strategy s, when the dict holds one for it. *)
EventsOf(S) == {stopEvents[s] : s \in S} \ {NoRun}

(* A client may also name a strategy that nobody started, here NoStrategy. *)
StopEngine(s) ==
    /\ replayState = "RUNNING"
    /\ replayState' = "STOPPING"
    /\ IF s = NoStrategy \/ engineTasks[s] = NoRun
       THEN UNCHANGED <<isSet, strategyId, stopAsked>>
       ELSE /\ isSet' = isSet \cup EventsOf({s})
            /\ strategyId' = IF strategyId = s THEN NoStrategy ELSE strategyId
            /\ stopAsked' = stopAsked \cup {engineTasks[s]}
    /\ UNCHANGED <<epoch, paused, stepRequest, engineTasks, stopEvents, runVars,
                   cancelVars, threadVars>>

(* The first key of the dict: the registered run that was accepted first. *)
FirstTask == {r \in Registered : \A q \in Registered : r <= q}

(* No await separates STOPPING from IDLE: the broadcast follows at once. *)
StopReplay ==
    /\ replayState \in {"RUNNING", "PAUSED"}
    /\ replayState' = "IDLE"
    /\ paused' = IF replayState = "PAUSED" THEN FALSE ELSE paused
    /\ LET firstSid == {sid[r] : r \in FirstTask} IN
        /\ isSet' = isSet \cup EventsOf(firstSid)
        /\ strategyId' = IF strategyId \in firstSid THEN NoStrategy ELSE strategyId
    /\ stopAsked' = stopAsked \cup FirstTask
    /\ UNCHANGED <<epoch, stepRequest, engineTasks, stopEvents, runVars, cancelVars,
                   threadVars>>

ForceStopReplay ==
    /\ isSet' = isSet \cup EventsOf({sid[r] : r \in Registered})
    /\ stopAsked' = stopAsked \cup Registered
    /\ strategyId' = NoStrategy
    /\ paused' = FALSE
    /\ stepRequest' = 0
    /\ replayState' = "IDLE"
    /\ UNCHANGED <<epoch, engineTasks, stopEvents, runVars, cancelVars, threadVars>>

-----------------------------------------------------------------------------
(* The worker thread.                                                       *)

ThreadPickUp(r) ==
    /\ thread[r] = "queued"
    /\ thread' = [thread EXCEPT ![r] = "spawned"]
    /\ UNCHANGED <<loopVars, stepRequest, stopEvents, isSet, evt, items, stopFlag,
                   stoppedSent, stopAsked>>

(* initial_cash does not parse: an Error event, and no result. *)
ThreadBadConfig(r) ==
    /\ thread[r] = "spawned"
    /\ thread' = [thread EXCEPT ![r] = "noresult"]
    /\ UNCHANGED <<loopVars, stepRequest, stopEvents, isSet, evt, items, stopFlag,
                   stoppedSent, stopAsked>>

(* stop_event = self._engine_stop_events.setdefault(strategy_id, Event()) *)
ThreadArm(r) ==
    /\ thread[r] = "spawned"
    /\ LET e == IF stopEvents[sid[r]] = NoRun THEN r ELSE stopEvents[sid[r]] IN
        /\ stopEvents' = [stopEvents EXCEPT ![sid[r]] = e]
        /\ evt' = [evt EXCEPT ![r] = e]
    /\ thread' = [thread EXCEPT ![r] = "armed"]
    /\ UNCHANGED <<loopVars, stepRequest, isSet, items, stopFlag, stoppedSent,
                   stopAsked>>

ThreadStart(r) ==
    /\ thread[r] = "armed"
    /\ thread' = [thread EXCEPT ![r] = "looping"]
    /\ UNCHANGED <<loopVars, stepRequest, stopEvents, isSet, evt, items, stopFlag,
                   stoppedSent, stopAsked>>

StepAvailable == stepRequest > 0

(* The checks before an item: not stopped, and not paused or one step asked for. *)
ThreadPass(r) ==
    /\ thread[r] = "looping"
    /\ items[r] < NumItems
    /\ evt[r] \notin isSet
    /\ \/ ~paused /\ UNCHANGED stepRequest
       \/ paused /\ StepAvailable /\ stepRequest' = stepRequest - 1
    /\ thread' = [thread EXCEPT ![r] = "inItem"]
    /\ UNCHANGED <<loopVars, stopEvents, isSet, evt, items, stopFlag, stoppedSent,
                   stopAsked>>

ThreadItem(r) ==
    /\ thread[r] = "inItem"
    /\ items' = [items EXCEPT ![r] = @ + 1]
    /\ thread' = [thread EXCEPT ![r] = "looping"]
    /\ UNCHANGED <<loopVars, stepRequest, stopEvents, isSet, evt, stopFlag,
                   stoppedSent, stopAsked>>

(* Faulty variant: the pause loop does not look at the stop event. *)
ReturnsDeafToStop(r) == items[r] = NumItems \/ (~paused /\ evt[r] \in isSet)

(* The stop event ends the loop while it is paused, too. *)
LoopEnds(r) == items[r] = NumItems \/ evt[r] \in isSet

ThreadReturn(r) ==
    /\ thread[r] = "looping"
    /\ LoopEnds(r)
    /\ thread' = [thread EXCEPT ![r] = "returned"]
    /\ EmitStopped(r)
    /\ UNCHANGED <<loopVars, stepRequest, stopEvents, isSet, evt, items, stopAsked>>

(* Validation raises before the runner's try block, which emits nothing;
   anything later emits EngineStopped and raises again.                     *)
ThreadRaise(r) ==
    /\ \/ thread[r] = "armed" /\ UNCHANGED <<stopFlag, stoppedSent>>
       \/ thread[r] \in {"looping", "inItem"} /\ EmitStopped(r)
    /\ thread' = [thread EXCEPT ![r] = "raised"]
    /\ UNCHANGED <<loopVars, stepRequest, stopEvents, isSet, evt, items, stopAsked>>

-----------------------------------------------------------------------------
(* The StartEngine coroutine resumes.                                       *)

(* Faulty variant: STOPPING is forgotten. *)
ReleasesNotStopping == IF replayState \in {"RUNNING", "PAUSED"} THEN "IDLE" ELSE replayState

(* LOADED was reached by a later session and is left alone. *)
StateReleased == IF replayState \in ActiveStates THEN "IDLE" ELSE replayState

(* Faulty variant: the entry is left in the dict. *)
EventsKept(r) == stopEvents

EventsWithout(r) == [stopEvents EXCEPT ![sid[r]] = NoRun]

(* The finally block.  strategyIs is _replay_strategy_id on entering it. *)
Finally(r, how, strategyIs) ==
    /\ co' = [co EXCEPT ![r] = how]
    /\ fetchTasks' = fetchTasks \ {r}
    /\ doomed' = doomed \ {r}
    /\ engineTasks' = [engineTasks EXCEPT ![sid[r]] = NoRun]
    /\ stopEvents' = EventsWithout(r)
    /\ replayState' = StateReleased
    /\ strategyId' = IF strategyIs = sid[r] THEN NoStrategy ELSE strategyIs

(* The executor drops a job it has not begun; a thread that runs goes on. *)
AbandonThread(r) ==
    thread' = IF thread[r] = "queued" THEN [thread EXCEPT ![r] = "dropped"] ELSE thread

(* Faulty variant: the flag of the runner is not looked at. *)
StoppedRegardless(r) == EmitStopped(r)

(* EngineStopped is emitted here unless the runner already did. *)
FallbackStopped(r) ==
    IF stopFlag[r] THEN UNCHANGED <<stopFlag, stoppedSent>> ELSE EmitStopped(r)

CoReturn(r) ==
    /\ co[r] = "waiting"
    /\ thread[r] \in {"returned", "noresult"}
    /\ Finally(r, "finished", IF thread[r] = "returned" THEN sid[r] ELSE strategyId)
    /\ UNCHANGED <<epoch, paused, stepRequest, isSet, nextRun, sid, stopAsked,
                   cancelling, threadVars>>

CoRaise(r) ==
    /\ co[r] = "waiting"
    /\ thread[r] = "raised"
    /\ FallbackStopped(r)
    /\ Finally(r, "finished", strategyId)
    /\ UNCHANGED <<epoch, paused, stepRequest, isSet, nextRun, sid, thread, evt,
                   items, stopAsked, cancelling>>

(* asyncio.wait_for gives up after 3600 s. *)
CoTimeout(r) ==
    /\ co[r] = "waiting"
    /\ thread[r] \in LiveThread
    /\ AbandonThread(r)
    /\ FallbackStopped(r)
    /\ Finally(r, "timedout", strategyId)
    /\ UNCHANGED <<epoch, paused, stepRequest, isSet, nextRun, sid, evt, items,
                   stopAsked, cancelling>>

(* _cancel_all_streams cancels the tasks it found in _fetch_tasks one by one and
   awaits each: a SetProxy with a new URL runs it, or the last client leaving.
   Two such calls are not overlapped here.                                  *)
CancelBegin(why) ==
    /\ cancelling = "no"
    /\ cancelling' = why
    /\ doomed' = fetchTasks
    /\ UNCHANGED <<replayState, epoch, paused, strategyId, engineTasks, runVars, fetchTasks,
                   stepRequest, stopEvents, isSet, threadVars, stopAsked>>

CoCancel(r) ==
    /\ co[r] = "waiting"
    /\ r \in doomed
    /\ AbandonThread(r)
    /\ Finally(r, "cancelled", strategyId)
    /\ UNCHANGED <<epoch, paused, stepRequest, isSet, nextRun, sid, evt, items, stopFlag,
                   stoppedSent, stopAsked, cancelling>>

(* _fetch_tasks is emptied of the tasks spawned meanwhile, too; the cleanup after
   the last client then resets the state, though a new client may be there.  *)
CancelEnd ==
    /\ cancelling # "no"
    /\ doomed = {}
    /\ fetchTasks' = {}
    /\ cancelling' = "no"
    /\ replayState' = IF cancelling = "disconnect" THEN "IDLE" ELSE replayState
    /\ UNCHANGED <<epoch, paused, strategyId, engineTasks, runVars, doomed, stepRequest,
                   stopEvents, isSet, threadVars, stopAsked>>

-----------------------------------------------------------------------------
Command ==
    \/ LoadReplayData
    \/ \E s \in Strategies : StartEngine(s)
    \/ \E s \in Strategies \cup {NoStrategy} : StopEngine(s)
    \/ PauseReplay \/ ResumeReplay \/ StepReplay
    \/ StopReplay \/ ForceStopReplay
    \/ \E why \in {"proxy", "disconnect"} : CancelBegin(why)
    \/ CancelEnd

Thread(r) ==
    \/ ThreadPickUp(r) \/ ThreadBadConfig(r) \/ ThreadArm(r) \/ ThreadStart(r)
    \/ ThreadPass(r) \/ ThreadItem(r) \/ ThreadReturn(r) \/ ThreadRaise(r)

Coroutine(r) == CoReturn(r) \/ CoRaise(r) \/ CoTimeout(r) \/ CoCancel(r)

Next == Command \/ \E r \in Runs : Thread(r) \/ Coroutine(r)

Spec == Init /\ [][Next]_vars

(* The OS runs every thread that can make progress, and the event loop runs
   every callback that is ready; commands, failures and timeouts need not come. *)
FairSpec ==
    /\ Spec
    /\ \A r \in Runs : /\ WF_vars(ThreadPickUp(r) \/ ThreadArm(r) \/ ThreadStart(r)
                                  \/ ThreadPass(r) \/ ThreadItem(r) \/ ThreadReturn(r))
                       /\ WF_vars(CoReturn(r) \/ CoRaise(r))

-----------------------------------------------------------------------------
TypeOK ==
    /\ replayState \in ReplayStates
    /\ epoch \in 0 .. MaxEpoch
    /\ paused \in BOOLEAN
    /\ stepRequest \in 0 .. MaxSteps
    /\ strategyId \in Strategies \cup {NoStrategy}
    /\ engineTasks \in [Strategies -> Runs \cup {NoRun}]
    /\ stopEvents \in [Strategies -> Runs \cup {NoRun}]
    /\ isSet \subseteq Runs
    /\ nextRun \in 0 .. MaxRuns
    /\ sid \in [Runs -> Strategies \cup {NoStrategy}]
    /\ co \in [Runs -> CoroutineStates]
    /\ thread \in [Runs -> ThreadStates]
    /\ evt \in [Runs -> Runs \cup {NoRun}]
    /\ items \in [Runs -> 0 .. NumItems]
    /\ stopFlag \in [Runs -> BOOLEAN]
    /\ stoppedSent \in [Runs -> 0 .. 2]
    /\ stopAsked \subseteq Runs
    /\ fetchTasks \subseteq Runs
    /\ doomed \subseteq Runs
    /\ cancelling \in {"no", "proxy", "disconnect"}

(* The handle StopEngine needs is never lost: a strategy's entry of
   _engine_tasks is the run whose coroutine still waits (M-14 race guard).  *)
TasksMatchCoroutines ==
    /\ \A s \in Strategies : engineTasks[s] # NoRun =>
           /\ co[engineTasks[s]] = "waiting"
           /\ sid[engineTasks[s]] = s
    /\ \A r \in Runs : co[r] = "waiting" => engineTasks[sid[r]] = r

(* The server never shows a session as running, paused or stopping with no run
   left that could end it: the next LoadReplayData would be busy for good.  *)
ActiveHasRunner == replayState \in ActiveStates => Registered # {}

(* The flag the worker threads poll agrees with the state the clients see,
   whatever run the last reset of the state came from.                      *)
PausedAgrees ==
    /\ replayState = "PAUSED" => paused
    /\ replayState \in {"RUNNING", "STOPPING"} => ~paused

(* What StopEngine, the busy check and the worker threads read agrees with the
   runs there are: the handles, the state and the pause flag.               *)
RunsMatch == TasksMatchCoroutines /\ ActiveHasRunner /\ PausedAgrees

(* A run is never started with, or stopped by, the stop event of an earlier
   run of its strategy: while a coroutine waits, its thread's event is set
   only if a stop command resolved to this very run.                        *)
StoppedOnlyIfAsked ==
    \A r \in Runs : co[r] = "waiting" /\ evt[r] \in isSet => r \in stopAsked

(* A run that came to an end by itself reported EngineStopped exactly once,
   from the thread or from the coroutine, but not from both (MEDIUM-R2-8); only
   a configuration error and a cancelled coroutine leave it unreported.     *)
StoppedOnce ==
    \A r \in Runs : co[r] = "finished" =>
        stoppedSent[r] = IF thread[r] = "noresult" THEN 0 ELSE 1

(* A run ends by itself or by a stop that was meant for it, and says so once. *)
EndsAsAsked == StoppedOnlyIfAsked /\ StoppedOnce

(* The runs as their clients see them. *)
Lives ==
    [r \in Runs |->
        CASE co[r] = "none" -> "none"
          [] co[r] = "waiting" -> "active"
          [] co[r] = "finished" -> "ended"
          [] OTHER -> "abandoned"]

Outcomes ==
    [r \in Runs |->
        CASE thread[r] \in {"returned", "raised"} -> thread[r]
          [] thread[r] = "noresult" -> "refused"
          [] OTHER -> "none"]

Client == INSTANCE ReplayRuns WITH
              state <- replayState, holder <- engineTasks, life <- Lives,
              outcome <- Outcomes, seen <- items, asked <- stopAsked,
              reports <- stoppedSent

(* The engine keeps what is promised of replay runs: threads that outlive their
   coroutine, stop events left in the dict, the flag that suppresses the
   fallback and tasks cancelled in between do not show.  A run returns before
   the end of its data only if a stop was meant for it.                     *)
RunsAsPromised == Client!Spec

(* The end of an old run never takes a loaded session away (B3 / MEDIUM-R3-2). *)
LoadedSurvivesOldRun ==
    [][\A r \in Runs : co[r] = "waiting" /\ co'[r] # "waiting" /\ replayState = "LOADED"
           => replayState' = "LOADED"]_vars

(* A stop event that reached a thread ends it, even while replay is paused. *)
StopEventEndsThread ==
    \A r \in Runs : (thread[r] \in {"armed", "looping", "inItem"} /\ evt[r] \in isSet)
                        ~> thread[r] \in DeadThread

(* STOPPING is always left, even if the stop named an unknown strategy or came
   before the thread had its stop event: the data end, and the finally resets. *)
StoppingEnds == replayState = "STOPPING" ~> replayState # "STOPPING"

-----------------------------------------------------------------------------
(* The inductive invariant, proved in ReplayProofs.                         *)

Unarmed == {"none", "queued", "spawned"}

(* A number not yet given out names no coroutine and no thread. *)
FreshRuns ==
    \A r \in Runs :
        /\ r > nextRun => co[r] = "none"
        /\ co[r] = "none" => thread[r] = "none" /\ r > nextRun
        /\ co[r] # "none" => sid[r] \in Strategies
        /\ thread[r] \in Unarmed => evt[r] = NoRun
        /\ thread[r] = "inItem" => items[r] < NumItems

(* Where the EngineStopped reports of a run come from. *)
ReportsCounted ==
    \A r \in Runs :
        /\ stopFlag[r] => stoppedSent[r] > 0
        /\ ~stopFlag[r] => stoppedSent[r] = 0
        /\ co[r] \in {"none", "waiting", "cancelled"} =>
               /\ stoppedSent[r] <= 1
               /\ thread[r] \notin {"returned", "raised"} => stoppedSent[r] = 0
               /\ thread[r] = "returned" => stoppedSent[r] = 1
        /\ co[r] = "timedout" /\ thread[r] \notin {"returned", "raised"} =>
               stoppedSent[r] <= 1
        /\ co[r] = "finished" => thread[r] \in {"returned", "noresult", "raised"}

(* Whose the stop events are. *)
EventsOwned ==
    /\ \A s \in Strategies : stopEvents[s] # NoRun =>
           /\ thread[stopEvents[s]] \notin Unarmed
           /\ sid[stopEvents[s]] = s
    /\ \A e \in isSet : thread[e] \notin Unarmed
    /\ \A s \in Strategies : stopEvents[s] \in isSet => engineTasks[s] \in stopAsked
    /\ \A r \in Runs : co[r] = "waiting" /\ evt[r] # NoRun => evt[r] = stopEvents[sid[r]]

IInv == /\ TypeOK
        /\ FreshRuns
        /\ TasksMatchCoroutines
        /\ ReportsCounted
        /\ StoppedOnce
        /\ EventsOwned
        /\ ActiveHasRunner
        /\ PausedAgrees

-----------------------------------------------------------------------------
(* What the code's own comments say and the code does not keep.             *)

(* server.py: N1.4 assumes one strategy at a time. *)
OneStrategyAtATime ==
    \A r, q \in Runs : co[r] = "waiting" /\ co[q] = "waiting" => r = q

(* server.py: the finally block resets only a RUNNING or STOPPING its own run
   is responsible for, that is, one no later run was started in.            *)
ResetsOnlyItsOwnState ==
    [][\A r \in Runs : co[r] = "waiting" /\ co'[r] # "waiting"
                       /\ replayState = "RUNNING" /\ replayState' = "IDLE"
           => r = nextRun]_vars

(* server.py: StopReplay broadcasts ReplayStopped after the runner completed. *)
StopReplayAfterCompletion == [][StopReplay => \A r \in Runs : co[r] # "waiting"]_vars

(* server.py: EngineStopped is not sent twice for a run (MEDIUM-R2-8). *)
NoDoubleStopped == \A r \in Runs : stoppedSent[r] <= 1

(* server.py: on a timeout stop() is sent so that the thread's resources are
   released.                                                                *)
TimeoutReleasesThread ==
    \A r \in Runs : co[r] = "timedout" ~> thread[r] \in DeadThread
=============================================================================
