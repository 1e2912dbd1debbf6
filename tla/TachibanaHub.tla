---------------------------- MODULE TachibanaHub ----------------------------
(***************************************************************************)
(* The market data streams of one Tachibana ticker (python/engine/         *)
(* exchanges/tachibana.py, tachibana_ws.py): stream_depth and              *)
(* stream_trades share one EVENT WebSocket, which a TickerEventWsHub runs  *)
(* for its first subscriber and stops after its last; a new session        *)
(* replaces every hub; depth falls back to polling.                        *)
(*                                                                         *)
(* The sections under the lock of a hub do not await, so each runs in one  *)
(* step, as does a frame handed to the subscribers.  The wake-ups of tasks *)
(* are served in their order: a cancelled coroutine has left its hub       *)
(* before one created later subscribes.                                    *)
(***************************************************************************)
EXTENDS Naturals, FiniteSets

CONSTANTS
    MaxStreams,     \* bound: stream coroutines
    MaxSessions     \* bound: sessions set_session is given

ASSUME HubAssumption == {MaxStreams, MaxSessions} \subseteq Nat

Kinds == {"depth", "trades"}
Streams == 1 .. MaxStreams    \* a stream is named by its place in the order of creation
None == 0

Hubs == 1 .. MaxSessions      \* as a session has one hub of the ticker at most

VARIABLES
    sessions,   \* sessions given so far
    session,    \* the url of _session, None when logged out
    current,    \* _ticker_hubs of the ticker
    hubs,       \* hubs created
    hub,        \* its url, subscribers by kind, stop_event, runner
                \* task, aclose() scheduled
    connected,  \* hubs whose WebSocket is open
    created,    \* streams created
    stream,     \* the coroutines
    watchdog,   \* streams whose _safety_watchdog is running
    registry    \* _streams of the engine

sessionVars == <<sessions, session>>
hubVars == <<current, hubs, hub, connected>>
streamVars == <<created, stream, watchdog, registry>>
vars == <<sessionVars, hubVars, streamVars>>

(* polling: in _depth_polling_fallback; ended: the done callback is due. *)
Phases == {"none", "new", "waiting", "polling", "ended", "gone"}

TypeOK ==
    /\ sessions \in 0 .. MaxSessions
    /\ session \in 0 .. sessions
    /\ current \in 0 .. hubs
    /\ hubs \in 0 .. MaxSessions
    /\ hub \in [Hubs -> [url : 0 .. MaxSessions, subs : [Kinds -> Streams \cup {None}], stop : BOOLEAN,
                         runner : {"none", "running", "done"}, closing : BOOLEAN]]
    /\ connected \subseteq Hubs
    /\ \A h \in connected : hub[h].runner = "running"
    /\ created \in 0 .. MaxStreams
    /\ stream \in [Streams -> [kind : Kinds, phase : Phases, hub : Hubs \cup {None},
                               innerStop : BOOLEAN, cancelled : BOOLEAN, hasBook : BOOLEAN]]
    /\ watchdog \subseteq {s \in Streams : stream[s].kind = "depth"}
    /\ registry \in [Kinds -> Streams \cup {None}]

Fresh(k) == [kind |-> k, phase |-> "none", hub |-> None,
             innerStop |-> FALSE, cancelled |-> FALSE, hasBook |-> FALSE]

Init ==
    /\ sessions = 0
    /\ session = None
    /\ current = None
    /\ hubs = 0
    /\ hub = [h \in Hubs |-> [url |-> None, subs |-> [k \in Kinds |-> None], stop |-> FALSE,
                              runner |-> "none", closing |-> FALSE]]
    /\ connected = {}
    /\ created = 0
    /\ stream = [s \in Streams |-> Fresh("depth")]
    /\ watchdog = {}
    /\ registry = [k \in Kinds |-> None]

Subscribers(h) == {hub[h].subs[k] : k \in Kinds} \ {None}
Is(s, phase) == stream[s].phase = phase

-----------------------------------------------------------------------------
(* The engine: Subscribe, Unsubscribe and the done callback of a task. *)

Subscribe(k) ==
    /\ registry[k] = None
    /\ created < MaxStreams
    /\ created' = created + 1
    /\ stream' = [stream EXCEPT ![created + 1] = [@ EXCEPT !.kind = k, !.phase = "new"]]
    /\ registry' = [registry EXCEPT ![k] = created + 1]
    /\ UNCHANGED <<sessionVars, hubVars, watchdog>>

Unsubscribe(k) ==
    /\ registry[k] # None
    /\ registry' = [registry EXCEPT ![k] = None]
    /\ LET s == registry[k] IN
       stream' = [stream EXCEPT ![s].cancelled = TRUE,
                                ![s].phase = IF @ = "new" THEN "ended" ELSE @]
    /\ UNCHANGED <<sessionVars, hubVars, created, watchdog>>

(* _on_done takes out whatever the key holds.  The coroutine is forgotten. *)
Done(s) ==
    /\ Is(s, "ended")
    /\ stream' = [stream EXCEPT ![s] = [Fresh(stream[s].kind) EXCEPT !.phase = "gone"]]
    /\ registry' = [registry EXCEPT ![stream[s].kind] = None]
    /\ UNCHANGED <<sessionVars, hubVars, created, watchdog>>

-----------------------------------------------------------------------------
(* The coroutines. *)

InTurn(s) == Is(s, "new") /\ \A t \in Streams : Is(t, "waiting") => ~stream[t].cancelled

(* The market is closed, or nobody is logged in: the client is told. *)
Declines(s) ==
    /\ InTurn(s)
    /\ stream' = [stream EXCEPT ![s].phase = "ended"]
    /\ UNCHANGED <<sessionVars, hubVars, created, watchdog, registry>>

(* _get_or_create_hub. *)
HubFor == IF current # None THEN current ELSE hubs + 1

(* subscribe: the runner is started unless there is one that has not ended. *)
With(h, k, s) ==
    [hub[h] EXCEPT !.subs[k] = s,
                   !.url = session,
                   !.stop = hub[h].runner = "running" /\ @,
                   !.runner = "running"]

Joins(s) ==
    /\ InTurn(s)
    /\ session # None
    /\ LET k == stream[s].kind
           h == HubFor
       IN  /\ h \in Hubs
           /\ current' = h
           /\ hubs' = IF h > hubs THEN h ELSE hubs
           /\ hub' = IF hub[h].subs[k] # None    \* a key that is taken is ignored
                     THEN hub
                     ELSE [hub EXCEPT ![h] = With(h, k, s)]
           /\ stream' = [stream EXCEPT ![s] = [@ EXCEPT !.phase = "waiting", !.hub = h]]
           /\ watchdog' = IF k = "depth" THEN watchdog \cup {s} ELSE watchdog
    /\ UNCHANGED <<sessionVars, connected, created, registry>>

(* Mutant of Without: the last subscriber leaves the runner running. *)
WithoutStop(h, k) == [hub[h] EXCEPT !.subs[k] = None]

(* unsubscribe: whoever holds the key; the last one stops the runner. *)
Without(h, k) ==
    LET left == [hub[h].subs EXCEPT ![k] = None]
    IN  [hub[h] EXCEPT !.subs = left,
                       !.stop = @ \/ (hub[h].runner # "none" /\ \A j \in Kinds : left[j] = None)]

(* The wait for _inner_stop ends.  A cancelled depth stream leaves its
   watchdog running; one without a book goes over to polling.              *)
Leaves(s) ==
    /\ Is(s, "waiting")
    /\ stream[s].innerStop \/ stream[s].cancelled
    /\ hub' = [hub EXCEPT ![stream[s].hub] = Without(stream[s].hub, stream[s].kind)]
    /\ LET polls == stream[s].kind = "depth" /\ ~stream[s].cancelled /\ ~stream[s].hasBook
       IN  stream' = [stream EXCEPT ![s].phase = IF polls THEN "polling" ELSE "ended"]
    /\ watchdog' = IF stream[s].cancelled THEN watchdog ELSE watchdog \ {s}
    /\ UNCHANGED <<sessionVars, current, hubs, connected, created, registry>>

(* Polling ends: cancelled, logged out, or after _DEPTH_POLL_MAX_S. *)
PollEnds(s) ==
    /\ Is(s, "polling")
    /\ stream' = [stream EXCEPT ![s].phase = "ended"]
    /\ UNCHANGED <<sessionVars, hubVars, created, watchdog, registry>>

(* Mutant of WatchdogWakes: it only warns. *)
WatchdogWarns(s) ==
    /\ s \in watchdog
    /\ watchdog' = watchdog \ {s}
    /\ UNCHANGED <<sessionVars, hubVars, created, stream, registry>>

(* _safety_watchdog after _DEPTH_SAFETY_TIMEOUT_S. *)
WatchdogWakes(s) ==
    /\ s \in watchdog
    /\ watchdog' = watchdog \ {s}
    /\ stream' = [stream EXCEPT ![s].innerStop = @ \/ (Is(s, "waiting") /\ ~stream[s].hasBook)]
    /\ UNCHANGED <<sessionVars, hubVars, created, registry>>

-----------------------------------------------------------------------------
(* The runner of a hub: TachibanaEventWs.run. *)

Connects(h) ==
    /\ hub[h].runner = "running"
    /\ ~hub[h].stop
    /\ h \notin connected
    /\ connected' = connected \cup {h}
    /\ UNCHANGED <<sessionVars, current, hubs, hub, streamVars>>

(* The connection is lost, or silent for _DEAD_FRAME_TIMEOUT_S. *)
Breaks(h) ==
    /\ h \in connected
    /\ connected' = connected \ {h}
    /\ UNCHANGED <<sessionVars, current, hubs, hub, streamVars>>

RunnerEnds(h) ==
    /\ hub[h].runner = "running"
    /\ hub[h].stop
    /\ hub' = [hub EXCEPT ![h].runner = "done"]
    /\ connected' = connected \ {h}
    /\ UNCHANGED <<sessionVars, current, hubs, streamVars>>

(* An FD frame with bids or asks. *)
Quotes(h) ==
    /\ h \in connected
    /\ hub[h].subs["depth"] # None
    /\ stream' = [stream EXCEPT ![hub[h].subs["depth"]].hasBook = TRUE]
    /\ UNCHANGED <<sessionVars, hubVars, created, watchdog, registry>>

(* An ST frame ends depth if the session expired, trades if the market closed. *)
Status(h, k) ==
    /\ h \in connected
    /\ hub[h].subs[k] # None
    /\ stream' = [stream EXCEPT ![hub[h].subs[k]].innerStop = TRUE]
    /\ UNCHANGED <<sessionVars, hubVars, created, watchdog, registry>>

-----------------------------------------------------------------------------
(* set_session and the aclose() it schedules. *)

(* Mutant of SetSession: the hub is forgotten, not closed. *)
SetSessionForgets ==
    /\ sessions < MaxSessions
    /\ sessions' = sessions + 1
    /\ session' \in 1 .. sessions + 1
    /\ current' = None
    /\ UNCHANGED <<hubs, hub, connected, streamVars>>

(* A login with the cached session brings its url again. *)
SetSession ==
    /\ \/ session # None /\ session' = None /\ UNCHANGED sessions
       \/ /\ sessions < MaxSessions
          /\ sessions' = sessions + 1
          /\ session' \in 1 .. sessions + 1
    /\ current' = None
    /\ hub' = IF current = None THEN hub ELSE [hub EXCEPT ![current].closing = TRUE]
    /\ UNCHANGED <<hubs, connected, streamVars>>

(* Mutant of Close: the subscribers are told, the runner is not stopped. *)
CloseKeepsRunning(h) ==
    /\ hub[h].closing
    /\ hub' = [hub EXCEPT ![h] = [@ EXCEPT !.subs = [k \in Kinds |-> None], !.closing = FALSE]]
    /\ stream' = [s \in Streams |->
                    [stream[s] EXCEPT !.innerStop = @ \/ s \in Subscribers(h)]]
    /\ UNCHANGED <<sessionVars, current, hubs, connected, created, watchdog, registry>>

Close(h) ==
    /\ hub[h].closing
    /\ hub' = [hub EXCEPT ![h] = [@ EXCEPT !.subs = [k \in Kinds |-> None],
                                           !.stop = TRUE, !.closing = FALSE]]
    /\ stream' = [s \in Streams |->
                    [stream[s] EXCEPT !.innerStop = @ \/ s \in Subscribers(h)]]
    /\ UNCHANGED <<sessionVars, current, hubs, connected, created, watchdog, registry>>

Next ==
    \/ SetSession
    \/ \E k \in Kinds : Subscribe(k) \/ Unsubscribe(k)
    \/ \E s \in Streams :
          \/ Done(s) \/ Declines(s) \/ Joins(s) \/ Leaves(s) \/ PollEnds(s) \/ WatchdogWakes(s)
    \/ \E h \in Hubs :
          \/ Connects(h) \/ Breaks(h) \/ RunnerEnds(h) \/ Quotes(h) \/ Close(h)
          \/ \E k \in Kinds : Status(h, k)

Spec == Init /\ [][Next]_vars

Fairness ==
    /\ \A s \in Streams :
          /\ WF_vars(Done(s)) /\ WF_vars(Declines(s) \/ Joins(s)) /\ WF_vars(Leaves(s))
          /\ WF_vars(PollEnds(s)) /\ WF_vars(WatchdogWakes(s))
    /\ \A h \in Hubs : WF_vars(Connects(h)) /\ WF_vars(RunnerEnds(h)) /\ WF_vars(Close(h))

FairSpec == Spec /\ Fairness

-----------------------------------------------------------------------------
(* An open EVENT connection is that of the present hub, or its runner is told
   to stop or will be by aclose(): however streams come, go and come back to a
   hub that winds down, none outlives its session.  As a new session may have
   the old one's url, this is what bounds the connections to one url
   (set_session, TickerEventWsHub).                                          *)
OldConnectionsEnd ==
    \A h \in connected : h = current \/ hub[h].closing \/ hub[h].stop

(* Who subscribed is on the hub of the present session, or on one whose
   aclose() is due: no login or logout leaves a stream behind on an old url
   (set_session).                                                          *)
NoneLeftBehind ==
    \A h \in Hubs : Subscribers(h) # {} => h = current \/ hub[h].closing

(* A stream subscribed to a hub that is being closed comes out of its wait
   (on_close of aclose()).                                                 *)
CloseFreesWaiters ==
    \A s \in Streams, h \in Hubs :
        (hub[h].closing /\ s \in Subscribers(h) /\ Is(s, "waiting")) ~> ~Is(s, "waiting")

(* A hub that nobody listens to ends its runner, and with it the connection,
   unless somebody subscribes first (unsubscribe).                         *)
UnheardHubEnds ==
    \A h \in Hubs :
        (hub[h].runner = "running" /\ Subscribers(h) = {})
            ~> (hub[h].runner = "done" \/ Subscribers(h) # {})

(* A depth stream does not stay without a book: one comes, or the stream
   leaves the hub, for polling if nobody ended it, even when its hub is
   deaf (_safety_watchdog).                                                *)
DepthNotSilent ==
    \A s \in Streams :
        (Is(s, "waiting") /\ stream[s].kind = "depth")
            ~> (stream[s].hasBook \/ ~Is(s, "waiting"))

(* TickerEventWsHub: the first subscribe starts the WebSocket task.  Not kept:
   one that comes between the last unsubscribe and the end of the runner
   finds the runner there, and it ends all the same.                       *)
FirstSubscriberStarts ==
    \A h \in Hubs : Subscribers(h) # {} => hub[h].runner = "running" /\ ~hub[h].stop

(* The broker admits one EVENT connection for a session and a ticker and ends
   the other with p_errno=2 (TickerEventWsHub).  Not kept: after a login with
   the cached session the new hub connects while the old one winds down.     *)
OneConnection ==
    \A g, h \in connected : hub[g].url = hub[h].url => g = h
=============================================================================
