--------------------------- MODULE ScriptSession ---------------------------
(***************************************************************************)
(* A Python script that drives a replay (ReplaySession and                 *)
(* _GrpcAttachClient of python/engine/replay_session.py), attached to the  *)
(* engine of the GUI or running the strategy in its own process.           *)
(*                                                                         *)
(* load() and run() block: they send a command and read recv_queue, into   *)
(* which a thread puts every event of the gRPC stream.  The engine         *)
(* broadcasts its events to all its clients, so the script also reads what *)
(* the GUI's commands and the runs of others give rise to; only a refusal  *)
(* (EngineBusy) goes to the client that asked.  stop() comes from another  *)
(* thread of the script, or from __exit__.                                 *)
(*                                                                         *)
(* The engine is here the state machine its clients see (ReplayEngine has  *)
(* its threads): the thread of a run broadcasts its events up to an        *)
(* EngineStopped, and the coroutine that waits for the thread makes the    *)
(* engine IDLE afterwards.  others tells whether the GUI is connected      *)
(* besides the script.  An event carries no field that tells the commands  *)
(* of one client from another's, except an Error, which has a request id.  *)
(***************************************************************************)
EXTENDS Naturals, Sequences

CONSTANTS
    MaxGuiRuns, \* bound: runs the GUI starts
    MaxItems,   \* bound: events the runs broadcast besides their end
    MaxLoads    \* bound: LoadReplayData commands of the script

ASSUME ScriptAssumption == MaxGuiRuns \in Nat /\ MaxItems \in Nat /\ MaxLoads \in Nat

NotRun == 0

Requests == {"load", "run", "other"}    \* whose request id an Error carries
NoRequest == "none"

VARIABLES
    others,     \* the GUI is connected as well
    engine,     \* _replay_state of the engine
    run,        \* the latest run
    own,        \* the run the script's StartEngine has started
    broadcasts, \* events the runs have broadcast, for the bound
    outcome,    \* how its thread said that it ended
    strays,     \* threads that a timeout has left running
    connected,  \* the gRPC stream is open
    sent,       \* commands on their way to the engine
    inbox,      \* recv_queue
    pending,    \* events wait_for has put aside
    mode,       \* _mode
    pc,         \* where the script's thread is
    status,     \* _status
    request,    \* _current_request_id
    stopper,    \* the thread that calls stop()
    stopEvent,  \* _stop_event, which only a run in this process looks at
    loads,      \* load() calls
    mixed,      \* history: a run of another client overlapped the session
    overtook    \* history: stop() sent before the StartEngine of its run

replayVars == <<engine, run, own, broadcasts, outcome, strays>>
sessionHistory == <<mixed, overtook>>
engineVars == <<others, replayVars, sessionHistory>>
scriptVars == <<mode, pc, status, request, stopper, stopEvent, loads>>
sessionVars == <<engineVars, connected, sent, inbox, pending, scriptVars>>

Kinds == {"Loaded", "Busy", "Event", "Stopped", "Error", "Closed"}
Events == [kind : Kinds, request : Requests \cup {NoRequest}]
Event(k) == [kind |-> k, request |-> NoRequest]
Error(r) == [kind |-> "Error", request |-> r]

Statuses == {"IDLE", "LOADED", "RUNNING", "STOPPING", "STOPPED", "ERRORED"}

ScriptTypeOK ==
    /\ others \in BOOLEAN /\ connected \in BOOLEAN /\ stopEvent \in BOOLEAN
    /\ mixed \in BOOLEAN /\ overtook \in BOOLEAN
    /\ engine \in {"IDLE", "LOADED", "RUNNING", "PAUSED", "STOPPING"}
    /\ run \in Nat /\ own \in 0 .. run
    /\ broadcasts \in 0 .. MaxItems
    /\ outcome \in {"none", "ended", "failed", "refused"} /\ strays \in Nat
    /\ sent \in Seq({"load", "run", "stop"})
    /\ inbox \in Seq(Events) /\ pending \in Seq(Events)
    /\ mode \in {"none", "attach", "inprocess"}
    /\ pc \in {"out", "free", "waiting", "starting", "events", "ending", "local", "exited"}
    /\ status \in Statuses
    /\ request \in {NoRequest, "load", "run"}
    /\ stopper \in {"none", "checked", "sending"}
    /\ loads \in 0 .. MaxLoads
    /\ pending # << >> => pc = "waiting"

Active == engine \in {"RUNNING", "PAUSED", "STOPPING"}
OwnRuns == Active /\ run = own

GuiRuns == IF own = NotRun THEN run ELSE run - 1

(* The EngineStopped of the latest run is out. *)
Told == outcome \in {"ended", "failed"}

ScriptInit ==
    /\ others \in BOOLEAN
    /\ engine = "IDLE" /\ run = NotRun /\ own = NotRun /\ broadcasts = 0
    /\ outcome = "none" /\ strays = 0
    /\ connected = FALSE /\ sent = << >> /\ inbox = << >> /\ pending = << >>
    /\ mode = "none" /\ pc = "out" /\ status = "IDLE" /\ request = NoRequest
    /\ stopper = "none" /\ stopEvent = FALSE /\ loads = 0
    /\ mixed = FALSE /\ overtook = FALSE

(* What the engine broadcasts reaches the script while it is connected, and
   is read until run() has taken an event for the end of its run: what is in
   the queue by then, or comes later, is left there.                       *)
Received(events) ==
    inbox' = IF status \in {"IDLE", "LOADED"} \/ pc \in {"starting", "events"}
             THEN inbox \o events
             ELSE inbox

Broadcast(events) == IF connected THEN Received(events) ELSE UNCHANGED inbox

-----------------------------------------------------------------------------
(* The engine and the GUI. *)

(* LoadReplayData is for IDLE, StartEngine for LOADED, StopEngine for
   RUNNING; a configuration it does not accept is an Error.  EngineBusy
   answers the client that asked, without a request id.                    *)
EngineTakes ==
    /\ sent # << >>
    /\ sent' = Tail(sent)
    /\ LET cmd == Head(sent) IN
       \/ /\ cmd = "load" /\ engine = "IDLE"
          /\ engine' = "LOADED"
          /\ Broadcast(<<Event("Loaded")>>)
          /\ UNCHANGED <<run, own, broadcasts, outcome>>
       \/ /\ \/ cmd = "load" /\ engine = "IDLE"
             \/ cmd = "run" /\ engine = "LOADED"
          /\ Broadcast(<<Error(cmd)>>)
          /\ UNCHANGED <<engine, run, own, broadcasts, outcome>>
       \/ /\ cmd = "run" /\ engine = "LOADED"
          /\ engine' = "RUNNING" /\ run' = run + 1 /\ own' = run + 1
          /\ outcome' = "none"
          /\ UNCHANGED <<broadcasts, inbox>>
       \/ /\ cmd = "stop" /\ engine = "RUNNING"
          /\ engine' = "STOPPING"
          /\ UNCHANGED <<run, own, broadcasts, outcome, inbox>>
       \/ /\ engine # (CASE cmd = "load" -> "IDLE" [] cmd = "run" -> "LOADED" [] OTHER -> "RUNNING")
          /\ Broadcast(<<Event("Busy")>>)
          /\ UNCHANGED <<engine, run, own, broadcasts, outcome>>
    /\ UNCHANGED <<others, strays, connected, pending, scriptVars, sessionHistory>>

(* Commands of the GUI, before the script attaches and while it hears of
   them; those refused concern only the GUI.                               *)
GuiActs ==
    /\ others /\ (connected \/ pc = "out")
    /\ \/ /\ engine = "IDLE" /\ GuiRuns < MaxGuiRuns
          /\ engine' = "LOADED" /\ Broadcast(<<Event("Loaded")>>)
          /\ UNCHANGED <<run, broadcasts, outcome, mixed>>
       \/ /\ engine = "LOADED" /\ GuiRuns < MaxGuiRuns
          /\ engine' = "RUNNING" /\ run' = run + 1 /\ outcome' = "none"
          /\ mixed' = TRUE
          /\ UNCHANGED <<broadcasts, inbox>>
       \/ /\ engine = "RUNNING" /\ engine' \in {"PAUSED", "STOPPING"}
          /\ UNCHANGED <<run, broadcasts, outcome, inbox, mixed>>
       \/ /\ engine = "PAUSED" /\ engine' = "RUNNING"
          /\ UNCHANGED <<run, broadcasts, outcome, inbox, mixed>>
    /\ UNCHANGED <<others, own, strays, connected, sent, pending, scriptVars, overtook>>

(* The thread of the run, or one that a timeout has left. *)
RunProgress ==
    /\ \/ Active /\ outcome = "none"
       \/ strays > 0
    /\ broadcasts < MaxItems
    /\ broadcasts' = broadcasts + 1
    /\ Broadcast(<<Event("Event")>>)
    /\ UNCHANGED <<others, engine, run, own, outcome, strays, connected, sent, pending,
                   scriptVars, sessionHistory>>

OwnOrOther == IF run = own THEN "run" ELSE "other"

(* The thread reports the end of the run, or that it failed, and goes on to
   dispose of its engine; an initial cash that is no number is refused in the
   thread, without an EngineStopped.  The state is as it was.               *)
ThreadReports ==
    /\ Active /\ outcome = "none"
    /\ \/ outcome' \in {"ended", "failed"} /\ Broadcast(<<Event("Stopped")>>)
       \/ outcome' = "refused" /\ Broadcast(<<Error(OwnOrOther)>>)
    /\ UNCHANGED <<others, engine, run, own, broadcasts, strays, connected, sent, pending,
                   scriptVars, sessionHistory>>

(* A thread that was left behind reports its end as well. *)
StrayReports ==
    /\ strays > 0
    /\ strays' = strays - 1
    /\ Broadcast(<<Event("Stopped")>>)
    /\ UNCHANGED <<others, engine, run, own, broadcasts, outcome, connected, sent, pending,
                   scriptVars, sessionHistory>>

(* The coroutine of the run, when its thread is done: after a failure, also
   one that came after EngineStopped, it sends the Error.                   *)
RunOver ==
    /\ Active /\ outcome # "none"
    /\ engine' = "IDLE"
    /\ \/ /\ outcome # "failed"
          /\ UNCHANGED <<outcome, inbox>>
       \/ /\ outcome # "refused"
          /\ outcome' = "failed"
          /\ Broadcast(<<Error(OwnOrOther)>>)
    /\ UNCHANGED <<others, run, own, broadcasts, strays, connected, sent, pending,
                   scriptVars, sessionHistory>>

(* A run that raises before its thread reports, or takes longer than an hour:
   the coroutine makes up for the missing EngineStopped before it sends the
   Error.  The thread of a run that took too long goes on.                  *)
RunFails ==
    /\ Active /\ outcome = "none"
    /\ engine' = "IDLE" /\ outcome' = "failed"
    /\ strays' \in {strays, strays + 1}
    /\ Broadcast(<<Event("Stopped"), Error(OwnOrOther)>>)
    /\ UNCHANGED <<others, run, own, broadcasts, connected, sent, pending, scriptVars,
                   sessionHistory>>

(* The stream ends.  The engine's cleanup stops the run when no client is
   left; what the script had sent is lost.                                 *)
Closes ==
    /\ connected' = FALSE
    /\ sent' = << >>
    /\ engine' = IF others THEN engine ELSE "IDLE"

Disconnected ==
    /\ connected
    /\ Closes
    /\ Received(<<Event("Closed")>>)
    /\ UNCHANGED <<others, run, own, broadcasts, outcome, strays, pending, scriptVars,
                   sessionHistory>>

-----------------------------------------------------------------------------
(* The script. *)

(* __enter__: attached, or in this process when there is no engine or its
   handshake fails.  A run or a thread left behind at that moment is another
   client's.                                                               *)
Enter ==
    /\ pc = "out"
    /\ pc' = "free"
    /\ \/ mode' = "attach" /\ connected' = TRUE /\ mixed' = (mixed \/ Active \/ strays > 0)
       \/ mode' = "inprocess" /\ UNCHANGED <<connected, mixed>>
    /\ UNCHANGED <<others, replayVars, sent, inbox, pending, status, request,
                   stopper, stopEvent, loads, overtook>>

Send(cmd) == sent' = IF connected THEN Append(sent, cmd) ELSE sent

Load ==
    /\ pc = "free" /\ status = "IDLE" /\ loads < MaxLoads
    /\ loads' = loads + 1
    /\ IF mode = "attach"
       THEN /\ Send("load") /\ request' = "load" /\ pc' = "waiting"
            /\ UNCHANGED status
       ELSE /\ status' \in {"IDLE", "LOADED"}
            /\ UNCHANGED <<sent, request, pc>>
    /\ UNCHANGED <<engineVars, connected, inbox, pending, mode, stopper, stopEvent>>

(* wait_for: the way out with the awaited event puts back what was set
   aside, behind what has arrived since; any other way out drops it.       *)
WaitReads ==
    /\ pc = "waiting" /\ inbox # << >>
    /\ LET e == Head(inbox) IN
       CASE e.kind = "Loaded" ->
              /\ inbox' = Tail(inbox) \o pending
              /\ pending' = << >>
              /\ status' = "LOADED" /\ pc' = "free"
         [] \/ e.kind \in {"Closed", "Busy"}
            \/ e.kind = "Error" /\ e.request = request ->
              /\ inbox' = Tail(inbox)
              /\ pending' = << >>
              /\ pc' = "free"
              /\ UNCHANGED status
         [] e.kind = "Error" /\ e.request # request ->
              /\ inbox' = Tail(inbox)
              /\ UNCHANGED <<pending, status, pc>>
         [] OTHER ->
              /\ inbox' = Tail(inbox)
              /\ pending' = Append(pending, e)
              /\ UNCHANGED <<status, pc>>
    /\ UNCHANGED <<engineVars, connected, sent, mode, request, stopper, stopEvent, loads>>

WaitTimesOut ==
    /\ pc = "waiting"
    /\ pending' = << >> /\ pc' = "free"
    /\ UNCHANGED <<engineVars, connected, sent, inbox, mode, status, request, stopper,
                   stopEvent, loads>>

(* RUNNING is set before the command is sent. *)
Run ==
    /\ pc = "free" /\ status = "LOADED"
    /\ status' = "RUNNING"
    /\ IF mode = "attach"
       THEN /\ request' = "run" /\ pc' = "starting"
            /\ UNCHANGED stopEvent
       ELSE /\ stopEvent' = FALSE /\ pc' = "local"
            /\ UNCHANGED request
    /\ UNCHANGED <<engineVars, connected, sent, inbox, pending, mode, stopper, loads>>

(* send_command logs what goes wrong and returns: run() waits all the same. *)
StartSent ==
    /\ pc = "starting"
    /\ Send("run")
    /\ pc' = "events"
    /\ UNCHANGED <<engineVars, connected, inbox, pending, mode, status, request, stopper,
                   stopEvent, loads>>

(* run() is left by an exception. *)
Raises ==
    /\ status' = IF status = "STOPPED" THEN status ELSE "ERRORED"
    /\ pc' = "free" /\ request' = NoRequest
    /\ inbox' = << >>

(* Faulty variant: any event of the stream's end counts as EngineStopped. *)
EndsOnClose == {"Stopped", "Closed"}

(* What run() takes for the end of its run. *)
Endings == {"Stopped"}

(* Any EngineStopped ends the loop, and sets STOPPED before the callback of
   the user runs, which may raise for this as for any other event.         *)
EventsRead ==
    /\ pc = "events" /\ inbox # << >>
    /\ LET e == Head(inbox)
           goesOn == inbox' = Tail(inbox) /\ UNCHANGED <<status, pc, request>>
       IN CASE e.kind \in Endings ->
                 /\ status' = "STOPPED" /\ pc' = "ending"
                 /\ inbox' = << >>
                 /\ UNCHANGED request
            [] \/ e.kind \in {"Closed", "Busy"}
               \/ e.kind = "Error" /\ e.request = request -> Raises
            [] e.kind = "Error" /\ e.request # request -> goesOn
            [] OTHER -> goesOn \/ Raises
    /\ UNCHANGED <<engineVars, connected, sent, pending, mode, stopper, stopEvent, loads>>

(* The callback returns, and run() makes sure of STOPPED, or it raises. *)
LastCallback ==
    /\ pc = "ending"
    /\ \/ /\ status' = "STOPPED" /\ pc' = "free" /\ request' = NoRequest
          /\ UNCHANGED inbox
       \/ Raises
    /\ UNCHANGED <<engineVars, connected, sent, pending, mode, stopper, stopEvent, loads>>

(* Faulty variant: silence ends the loop only when the stream is closed. *)
SilenceOfClosed ==
    /\ pc = "events" /\ inbox = << >> /\ ~connected
    /\ Raises
    /\ UNCHANGED <<engineVars, connected, sent, pending, mode, stopper, stopEvent, loads>>

(* Nothing for 60 seconds. *)
EventsTimeOut ==
    /\ pc = "events" /\ inbox = << >>
    /\ Raises
    /\ UNCHANGED <<engineVars, connected, sent, pending, mode, stopper, stopEvent, loads>>

(* The runner in this process returns, because its data end or the stop
   event is set, or raises.                                                *)
LocalEnds ==
    /\ pc = "local"
    /\ pc' = "free"
    /\ status' \in {"STOPPED", "ERRORED"}
    /\ UNCHANGED <<engineVars, connected, sent, inbox, pending, mode, request, stopper,
                   stopEvent, loads>>

(* stop() on another thread: it looks at the status, sets it, and sends. *)
StopLooks ==
    /\ pc \notin {"out", "exited"} /\ stopper = "none"
    /\ IF mode = "attach" /\ status = "RUNNING"
       THEN stopper' = "checked" /\ UNCHANGED stopEvent
       ELSE mode = "inprocess" /\ stopEvent' = TRUE /\ UNCHANGED stopper
    /\ UNCHANGED <<engineVars, connected, sent, inbox, pending, mode, pc, status, request,
                   loads>>

StopSets ==
    /\ stopper = "checked"
    /\ stopper' = "sending"
    /\ status' = "STOPPING"
    /\ UNCHANGED <<engineVars, connected, sent, inbox, pending, mode, pc, request, stopEvent,
                   loads>>

(* Faulty variant: STOPPING without the command. *)
StopsSilently ==
    /\ stopper = "sending"
    /\ stopper' = "none"
    /\ UNCHANGED <<engineVars, connected, sent, inbox, pending, mode, pc, status, request,
                   stopEvent, loads>>

StopSends ==
    /\ stopper = "sending"
    /\ stopper' = "none"
    /\ Send("stop")
    /\ overtook' = (overtook \/ pc = "starting")
    /\ UNCHANGED <<others, replayVars, mixed, connected, inbox, pending, mode, pc, status,
                   request, stopEvent, loads>>

(* __exit__: stop(), which by now has nothing to send, and close(). *)
Exit ==
    /\ pc = "free" /\ stopper = "none"
    /\ pc' = "exited"
    /\ IF connected THEN Closes ELSE UNCHANGED <<connected, sent, engine>>
    /\ UNCHANGED <<others, run, own, broadcasts, outcome, strays, inbox, pending, mode, status,
                   request, stopper, stopEvent, loads, sessionHistory>>

ScriptNext ==
    \/ EngineTakes \/ GuiActs \/ Disconnected
    \/ RunProgress \/ ThreadReports \/ StrayReports \/ RunOver \/ RunFails
    \/ Enter \/ Load \/ WaitReads \/ WaitTimesOut \/ Run \/ StartSent \/ EventsRead
    \/ EventsTimeOut \/ LastCallback \/ LocalEnds \/ StopLooks \/ StopSets \/ StopSends \/ Exit

ScriptSpec == ScriptInit /\ [][ScriptNext]_sessionVars

(* Threads run, the engine takes commands and a run that was told to stop
   ends, for it looks at its stop event before every bar, and its coroutine
   goes on when its thread is done.                                        *)
ScriptFairSpec ==
    /\ ScriptSpec
    /\ WF_sessionVars(EngineTakes)
    /\ WF_sessionVars(engine = "STOPPING" /\ (ThreadReports \/ RunFails))
    /\ WF_sessionVars(RunOver)
    /\ WF_sessionVars(StartSent) /\ WF_sessionVars(StopSets)
    /\ WF_sessionVars(WaitReads) /\ WF_sessionVars(WaitTimesOut)
    /\ WF_sessionVars(EventsRead) /\ WF_sessionVars(EventsTimeOut)
    /\ WF_sessionVars(LastCallback) /\ WF_sessionVars(LocalEnds) /\ WF_sessionVars(StopSends)

-----------------------------------------------------------------------------
(* Properties. *)

(* With no run of another client about, run() reports STOPPED only once the
   EngineStopped of its own run was broadcast.                             *)
StoppedMeansEnded ==
    mode = "attach" /\ status = "STOPPED" /\ ~mixed => own # NotRun /\ run = own /\ Told

(* An exception after the end of the run, as from the callback of the user,
   leaves the status STOPPED; only a stop() that looked before the end and
   sets after it disturbs it.                                              *)
StoppedSticks == [][status = "STOPPED" /\ stopper # "checked" => status' = "STOPPED"]_status

(* load() and run() return. *)
CallsReturn == pc \in {"waiting", "events", "ending"} ~> pc = "free"

(* A stop() of a script alone with the engine ends its run and leaves no
   command behind, also when it is called while the run starts, unless its
   StopEngine is sent before the StartEngine.                              *)
StopReaches ==
    status = "STOPPING" /\ ~others ~> (sent = << >> /\ ~OwnRuns) \/ overtook

(* Refuted: stop() may send its StopEngine between the RUNNING of run() and
   the StartEngine.  The engine refuses it, run() ends with EngineBusy, and
   the run goes on.                                                        *)
StopAlwaysReaches ==
    status = "STOPPING" /\ ~others ~> sent = << >> /\ ~OwnRuns

(* Refuted: EngineStopped is broadcast by the thread of the run, before the
   engine leaves RUNNING; a load() that follows at once is refused.        *)
StoppedMeansIdle ==
    mode = "attach" /\ status = "STOPPED" /\ ~mixed => ~OwnRuns

(* Refuted: a run that fails ends with EngineStopped before its Error, and
   is reported STOPPED ("STOPPED: 正常終了", "ERRORED: 実行中に例外発生"). *)
FailureReported == [][status' = "STOPPED" /\ status # "STOPPED" /\ ~mixed /\ mode = "attach"
                          => outcome # "failed"]_status

(* Refuted: the EngineStopped of another client's run ends run(). *)
StoppedIsOwn == mode = "attach" /\ status = "STOPPED" => own # NotRun /\ (run = own => Told)

(* Refuted: 60 silent seconds, as of a paused replay, a raising callback or
   a stop refused while paused end run(), and the script leaves with its
   run going on in the engine of the GUI.                                  *)
ExitEndsRun == pc = "exited" => ~OwnRuns
=============================================================================
