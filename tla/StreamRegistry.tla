--------------------------- MODULE StreamRegistry ---------------------------
(***************************************************************************)
(* The market data subscriptions of DataEngineServer (python/engine/       *)
(* server.py): the registry _streams from subscription keys to the handles *)
(* of stream tasks, and the handlers of several clients that subscribe,    *)
(* unsubscribe, change the proxy (which cancels and reopens every stream)  *)
(* or, leaving last, cancel all streams.                                   *)
(*                                                                         *)
(* A handler runs to its next await in one step: only the await of a       *)
(* cancelled task suspends it, of a stream or, after those, of the fetches *)
(* of the engine (VenueWorker), of which any number may be under way.  The *)
(* done callback of a task (_on_done) is called in the loop iteration      *)
(* after the one in which the task ended; up to then each client runs at   *)
(* most one command, as the next one needs a read from its stream.         *)
(* kabu_station subscriptions are in KabuPush.                             *)
(***************************************************************************)
EXTENDS Naturals, FiniteSets

CONSTANTS
    Clients,    \* connected sessions
    Keys,       \* (venue, ticker, market, stream, timeframe)
    MaxTasks    \* bound: stream tasks made in one behaviour

ASSUME StreamsAssumption ==
    /\ IsFiniteSet(Clients)
    /\ IsFiniteSet(Keys) /\ Keys # {}
    /\ MaxTasks \in Nat

Tasks == 1 .. MaxTasks    \* a task is named by its place in the order of creation
NoTask == 0

(* done: ended, its callback not called yet; gone: the callback was called. *)
TaskStates == {"none", "running", "cancelled", "done", "gone"}
Ended == {"done", "gone"}

(* What the handler of a client awaits: nothing, the task it unsubscribed,
   or in _cancel_all_streams one of the streams, then the cancelled fetches. *)
HandlerStates == {"idle", "unsubscribe", "cancelAll", "fetches"}

VARIABLES
    created,    \* _stream_counter
    task,       \* the stream tasks
    keyOf,      \* the key a task serves (captured by its callback)
    registry,   \* _streams
    handler,    \* where the handler of each client is
    awaited,    \* the task it awaits
    todo,       \* handles _cancel_all_streams has yet to cancel
    reopen,     \* active_subs of _handle_set_proxy
    attached,   \* _connections
    acted,      \* clients that ran a command since a task ended
    owed,       \* history: keys a client subscribed, did not unsubscribe, and
                \* whose stream did not end by itself
    raced       \* history: a handler ran between the end of a task and its callback,
                \* or two clients were served at once

handlerVars == <<handler, awaited, todo, reopen>>
vars == <<created, task, keyOf, registry, handlerVars, attached, acted, owed, raced>>

TypeOK ==
    /\ created \in 0 .. MaxTasks
    /\ task \in [Tasks -> TaskStates]
    /\ keyOf \in [Tasks -> Keys]
    /\ registry \in [Keys -> Tasks \cup {NoTask}]
    /\ handler \in [Clients -> HandlerStates]
    /\ awaited \in [Clients -> Tasks \cup {NoTask}]
    /\ todo \in [Clients -> SUBSET Tasks]
    /\ reopen \in [Clients -> SUBSET Keys]
    /\ attached \in SUBSET Clients
    /\ acted \in [Tasks -> SUBSET Clients]
    /\ owed \in [Clients -> SUBSET Keys]
    /\ raced \in BOOLEAN

Init ==
    /\ created = 0
    /\ task = [t \in Tasks |-> "none"]
    /\ keyOf = [t \in Tasks |-> CHOOSE k \in Keys : TRUE]
    /\ registry = [k \in Keys |-> NoTask]
    /\ handler = [c \in Clients |-> "idle"]
    /\ awaited = [c \in Clients |-> NoTask]
    /\ todo = [c \in Clients |-> {}]
    /\ reopen = [c \in Clients |-> {}]
    /\ attached = {}
    /\ acted = [t \in Tasks |-> {}]
    /\ owed = [c \in Clients |-> {}]
    /\ raced = FALSE

Races == raced' = (raced \/ \E t \in Tasks : task[t] = "done")

(* A client reads its next command; it has not run one since a task ended
   whose callback is still to be called.                                   *)
Reads(c) ==
    /\ c \in attached /\ handler[c] = "idle"
    /\ \A t \in Tasks : task[t] = "done" => c \notin acted[t]
    /\ acted' = [t \in Tasks |-> IF task[t] = "done" THEN acted[t] \cup {c} ELSE acted[t]]
    /\ Races

Attach(c) ==
    /\ c \notin attached /\ handler[c] = "idle"
    /\ attached' = attached \cup {c}
    /\ raced' = (raced \/ attached # {} \/ \E d \in Clients : handler[d] # "idle")
    /\ UNCHANGED <<created, task, keyOf, registry, handlerVars, acted, owed>>

(* Bound: tasks kept for the streams a proxy change will reopen. *)
Pending == {p \in Clients \X Keys : p[2] \in reopen[p[1]]}
Room(n) == created + Cardinality(Pending) + n <= MaxTasks

Subscribe(c, k) ==
    /\ Reads(c)
    /\ owed' = [owed EXCEPT ![c] = @ \cup {k}]
    /\ \/ /\ registry[k] # NoTask          \* already subscribed
          /\ UNCHANGED <<created, task, keyOf, registry>>
       \/ /\ registry[k] = NoTask /\ Room(1)
          /\ created' = created + 1
          /\ task' = [task EXCEPT ![created'] = "running"]
          /\ keyOf' = [keyOf EXCEPT ![created'] = k]
          /\ registry' = [registry EXCEPT ![k] = created']
    /\ UNCHANGED <<handlerVars, attached>>

(* Faulty variant: awaits a task that nothing stops. *)
AwaitOnly(t) == task' = task

(* _StreamHandle.cancel: the caller suspends unless the task has ended. *)
CancelTask(t) == task' = [task EXCEPT ![t] = IF @ = "running" THEN "cancelled" ELSE @]
Live(ts) == {t \in ts : task[t] \notin Ended}

TakesOut(k) == registry' = [registry EXCEPT ![k] = NoTask]

(* The entry is taken out before the task is cancelled and awaited. *)
Unsubscribe(c, k) ==
    /\ Reads(c)
    /\ k \in owed[c]
    /\ owed' = [owed EXCEPT ![c] = @ \ {k}]
    /\ TakesOut(k)
    /\ IF registry[k] # NoTask /\ Live({registry[k]}) # {}
       THEN /\ CancelTask(registry[k])
            /\ handler' = [handler EXCEPT ![c] = "unsubscribe"]
            /\ awaited' = [awaited EXCEPT ![c] = registry[k]]
       ELSE UNCHANGED <<task, handler, awaited>>
    /\ UNCHANGED <<created, keyOf, todo, reopen, attached>>

EndUnsubscribe(c) ==
    /\ handler[c] = "unsubscribe" /\ task[awaited[c]] = "gone"
    /\ handler' = [handler EXCEPT ![c] = "idle"]
    /\ awaited' = [awaited EXCEPT ![c] = NoTask]
    /\ UNCHANGED <<created, task, keyOf, registry, todo, reopen, attached, acted, owed, raced>>

-----------------------------------------------------------------------------
(* _cancel_all_streams: one handle after the other, then clear, then the
   fetches; with keys, _handle_set_proxy, which subscribes them anew.      *)

SuspendAt(c, t, rest, keys) ==
    /\ CancelTask(t)
    /\ handler' = [handler EXCEPT ![c] = "cancelAll"]
    /\ awaited' = [awaited EXCEPT ![c] = t]
    /\ todo' = [todo EXCEPT ![c] = rest]
    /\ reopen' = [reopen EXCEPT ![c] = keys]
    /\ UNCHANGED <<created, keyOf, registry>>

ClearAll(c, keys) ==
    /\ registry' = [k \in Keys |-> NoTask]
    /\ handler' = [handler EXCEPT ![c] = "fetches"]
    /\ awaited' = [awaited EXCEPT ![c] = NoTask]
    /\ todo' = [todo EXCEPT ![c] = {}]
    /\ reopen' = [reopen EXCEPT ![c] = keys]
    /\ UNCHANGED <<created, task, keyOf>>

CancelOn(c, rest, keys) ==
    \/ \E t \in Live(rest) : SuspendAt(c, t, Live(rest) \ {t}, keys)
    \/ Live(rest) = {} /\ ClearAll(c, keys)

Registered == {k \in Keys : registry[k] # NoTask}
Handles == {registry[k] : k \in Registered}

(* The workers have taken the new proxy; from here the streams are moved. *)
SetProxy(c) ==
    /\ Reads(c)
    /\ Room(Cardinality(Registered))
    /\ CancelOn(c, Handles, Registered)
    /\ UNCHANGED <<attached, owed>>

CancelNext(c) ==
    /\ handler[c] = "cancelAll" /\ task[awaited[c]] = "gone"
    /\ CancelOn(c, todo[c], reopen[c])
    /\ Races
    /\ UNCHANGED <<attached, acted, owed>>

(* Faulty variant: the keys are forgotten. *)
ForgetsKeys(keys) == UNCHANGED <<created, task, keyOf, registry>>

(* Those among the keys that nobody has subscribed meanwhile. *)
SubscribeAnew(keys) ==
    LET n == Cardinality(keys \ Registered) IN
    \E name \in [keys \ Registered -> created + 1 .. created + n] :
        /\ \A j, k \in keys \ Registered : j # k => name[j] # name[k]
        /\ created' = created + n
        /\ task' = [t \in Tasks |-> IF \E k \in keys \ Registered : name[k] = t THEN "running" ELSE task[t]]
        /\ keyOf' = [t \in Tasks |-> IF \E k \in keys \ Registered : name[k] = t
                                     THEN CHOOSE k \in keys \ Registered : name[k] = t ELSE keyOf[t]]
        /\ registry' = [k \in Keys |-> IF k \in keys \ Registered THEN name[k] ELSE registry[k]]

(* The fetches have ended. *)
Reopen(c) ==
    /\ handler[c] = "fetches"
    /\ SubscribeAnew(reopen[c])
    /\ handler' = [handler EXCEPT ![c] = "idle"]
    /\ reopen' = [reopen EXCEPT ![c] = {}]
    /\ Races
    /\ UNCHANGED <<awaited, todo, attached, acted, owed>>

(* The session ends; the last one cancels the streams. *)
Leave(c) ==
    /\ c \in attached /\ handler[c] = "idle"
    /\ attached' = attached \ {c}
    /\ owed' = [owed EXCEPT ![c] = {}]
    /\ IF attached = {c}
       THEN CancelOn(c, Handles, {})
       ELSE UNCHANGED <<created, task, keyOf, registry, handlerVars>>
    /\ UNCHANGED <<acted, raced>>

-----------------------------------------------------------------------------
(* The stream tasks. *)

(* The stream returns or raises by itself. *)
TaskDies(t) ==
    /\ task[t] = "running"
    /\ task' = [task EXCEPT ![t] = "done"]
    /\ owed' = [c \in Clients |-> owed[c] \ {keyOf[t]}]
    /\ UNCHANGED <<created, keyOf, registry, handlerVars, attached, acted, raced>>

TaskCancelled(t) ==
    /\ task[t] = "cancelled"
    /\ task' = [task EXCEPT ![t] = "done"]
    /\ UNCHANGED <<created, keyOf, registry, handlerVars, attached, acted, owed, raced>>

(* Faulty variant: the entry of an ended stream stays. *)
KeepsEntry(t) == registry' = registry

PopsEntry(t) == registry' = [registry EXCEPT ![keyOf[t]] = NoTask]

(* The callback pops its key, whichever handle is there by now. *)
OnDone(t) ==
    /\ task[t] = "done"
    /\ task' = [task EXCEPT ![t] = "gone"]
    /\ PopsEntry(t)
    /\ acted' = [acted EXCEPT ![t] = {}]
    /\ UNCHANGED <<created, keyOf, handlerVars, attached, owed, raced>>

Step(c) ==
    \/ Attach(c) \/ Leave(c) \/ SetProxy(c) \/ EndUnsubscribe(c) \/ CancelNext(c) \/ Reopen(c)
    \/ \E k \in Keys : Subscribe(c, k) \/ Unsubscribe(c, k)

TaskStep(t) == TaskDies(t) \/ TaskCancelled(t) \/ OnDone(t)

Next == (\E c \in Clients : Step(c)) \/ (\E t \in Tasks : TaskStep(t))

Spec == Init /\ [][Next]_vars

(* A cancelled task ends, also a fetch, its callback is called and who awaits
   it resumes.                                                              *)
Fairness ==
    /\ \A t \in Tasks : WF_vars(TaskCancelled(t)) /\ WF_vars(OnDone(t))
    /\ \A c \in Clients : WF_vars(EndUnsubscribe(c)) /\ WF_vars(CancelNext(c)) /\ WF_vars(Reopen(c))

FairSpec == Spec /\ Fairness

-----------------------------------------------------------------------------
(* Properties. *)

Running == {t \in Tasks : task[t] = "running"}
Quiet == /\ \A c \in Clients : handler[c] = "idle"
         /\ \A t \in Tasks : task[t] # "done"

(* An entry is the handle of a task for that very key, not yet called back:
   a subscription found in the registry is refused as a duplicate only while
   a stream for it lives or its end is about to be reported.                *)
EntryNamesItsStream ==
    \A k \in Registered : keyOf[registry[k]] = k /\ task[registry[k]] \notin {"none", "gone"}

(* Every handler that awaits streams ends, whatever other clients do. *)
HandlersEnd == \A c \in Clients : handler[c] # "idle" ~> handler[c] = "idle"

(* As long as clients are served one after the other: whenever the engine is
   quiet, the running streams are the registered ones, at most one for a key,
   and the client has every stream it is owed, through every mixture of
   subscriptions, proxy changes, dying streams and disconnects, unless a
   handler ran in the loop iteration in which a stream died of itself.      *)
StreamsAsOwed ==
    Quiet /\ ~raced => Running = Handles /\ UNION {owed[c] : c \in Clients} \subseteq Registered

-----------------------------------------------------------------------------
(* Statements of the documentation that the code does not keep when several
   clients are attached.                                                    *)

(* "Subscriptions that can be unioned (market data) are re-sent per
   connection and then bundled by the engine" (docs/specs/data-engine.md:278):
   what one client unsubscribes another is still owed.                      *)
OthersStillServed ==
    Quiet => UNION {owed[c] : c \in Clients} \subseteq Registered

(* ... and a key that is subscribed twice is one stream.  A stream whose
   entry was popped by the callback of an older task, or cleared by a proxy
   change, runs on unseen; the next subscription opens a second one.        *)
OneStreamPerKey == \A s, t \in Running : keyOf[s] = keyOf[t] => s = t
=============================================================================
