---------------------------- MODULE VenueWorker ----------------------------
(***************************************************************************)
(* The tasks the engine runs against its venues, and the change of proxy   *)
(* under them (python/engine/server.py, exchanges/binance.py and the other *)
(* workers).  A request runs in a task of _spawn_fetch; a stream of trades *)
(* or klines in a task of its own.  SetProxy gives every worker the new    *)
(* proxy and drops its httpx client, then cancels and awaits the streams   *)
(* and the requests one after another.  Everything runs on one event loop: *)
(* what has no await between its parts is one step.                        *)
(*                                                                         *)
(* One stream stands for those of all crypto venues: which of them are     *)
(* open, and their reopening after SetProxy, is in StreamRegistry; their   *)
(* connections do not use the proxy.  The streams of Tachibana share hubs  *)
(* (TachibanaHub), which set_proxy leaves with the proxy they were made    *)
(* with.  The crypto workers count as one.                                 *)
(***************************************************************************)
EXTENDS VenueOperations, Integers, Sequences, FiniteSets, SequencesExt, FiniteSetsExt

CONSTANTS
    Clients,            \* gRPC sessions that send SetProxy; any session sends requests
    Tasks,              \* bound: requests at a time
    Proxies,            \* proxy urls; "direct" is no proxy
    MaxRunning,         \* bound: requests and streams at a time
    MaxCoroutines,      \* bound: those and the SetProxy handlers
    MaxTrades           \* bound: trades in a batch

ASSUME WorkerAssumption ==
    /\ "direct" \in Proxies
    /\ {MaxRunning, MaxCoroutines, MaxTrades} \subseteq Nat

Crew == <<"crypto", "tachibana">>       \* in the order of _workers
Workers == ToSet(Crew)
Stores == {"archive", "master"}

VARIABLES
    proxy,          \* _proxy_url of the engine
    worker,         \* _proxy and _client of the workers
    setting,        \* the SetProxy handlers
    apart,          \* history: no SetProxy has run beside another since all had ended
    task,           \* the tasks of _spawn_fetch
    tracked,        \* _fetch_tasks
    bucket,         \* holder and waiters of the lock of the limiter
    queue,          \* holder and waiters of the lock of each store
    kept,           \* is there the file of the archive, the loaded master?
    stream,         \* the coroutine of the stream
    owed            \* history: trades read from its connections, less those told

requestVars == <<task, tracked, bucket, queue, kept>>
streamVars == <<stream, owed>>
workerVars == <<proxy, worker, setting, apart, requestVars, streamVars>>

Idle == [at |-> "idle", url |-> "direct", next |-> 1, todo |-> {}, awaits |-> {}]

(* due: history, the events that tell the client of the end of its request *)
(* still to come.                                                          *)
Slot == [op |-> {}, left |-> 0, phase |-> "ended", via |-> {},
         later |-> FALSE, skipped |-> FALSE, due |-> 0]

Closed == [phase |-> "ended", helpers |-> 0, batch |-> 0,
           cause |-> "over", stop |-> FALSE, cancel |-> FALSE]

WorkerTypeOK ==
    /\ proxy \in Proxies
    /\ worker \in [Workers -> [proxy : Proxies, client : {{}} \cup {{p} : p \in Proxies}]]
    /\ setting \in [Clients -> [at : {"idle", "closing", "streams", "tasks"}, url : Proxies,
                                next : 1 .. Len(Crew) + 1, todo : SUBSET Tasks,
                                awaits : {{}} \cup {{t} : t \in Tasks}]]
    /\ apart \in BOOLEAN
    /\ \A t \in Tasks :
        /\ \A o \in task[t].op : \E p \in Operations : o.client = p.client /\ o.answer = p.answer
        /\ task[t].left \in 0 .. MaxPages + 3
        /\ task[t].phase \in {"new", "queued", "loading", "limited", "sent", "killed", "cancelled", "ended"}
        /\ task[t].due \in Int
    /\ tracked \subseteq Tasks
    /\ kept \in [Stores -> BOOLEAN]
    /\ stream.phase \in {"ended", "new", "connecting", "open", "closing", "waiting"}
    /\ stream.batch \in 0 .. MaxTrades
    /\ owed \in -MaxTrades .. MaxTrades

WorkerInit ==
    /\ proxy = "direct"
    /\ worker = [w \in Workers |-> [proxy |-> "direct", client |-> {}]]
    /\ setting = [c \in Clients |-> Idle]
    /\ apart = TRUE
    /\ task = [t \in Tasks |-> Slot]
    /\ tracked = {}
    /\ bucket = <<>>
    /\ queue = [k \in Stores |-> <<>>]
    /\ kept = [k \in Stores |-> FALSE]
    /\ stream = Closed
    /\ owed = 0

Alive(t) == task[t].phase # "ended"
Streaming == stream.phase # "ended"
Op(t) == CHOOSE o \in task[t].op : TRUE

Running == Cardinality({t \in Tasks : Alive(t)}) + (IF Streaming THEN 1 ELSE 0)
Coroutines == Running + Cardinality({c \in Clients : setting[c].at # "idle"})

(* Once two SetProxy have run beside each other there is one at a time,    *)
(* until a SetProxy begins alone.                                          *)
RoomToRun ==
    /\ Running < (IF apart THEN MaxRunning ELSE 1)
    /\ Coroutines < MaxCoroutines

(***************************************************************************)
(* Requests.                                                               *)
(***************************************************************************)

(* A client that awaits no SetProxy of its own asks for something; what it *)
(* is shows when the task begins to run.                                   *)
Spawn(t) ==
    /\ ~Alive(t)
    /\ RoomToRun
    /\ \A c \in Clients : t \notin setting[c].todo
    /\ task' = [task EXCEPT ![t] = [Slot EXCEPT !.phase = "new", !.due = 1]]
    /\ tracked' = tracked \cup {t}
    /\ UNCHANGED <<proxy, worker, setting, apart, bucket, queue, kept, streamVars>>

(* The task ends with n events for its request; one that is silent may end *)
(* with none.                                                              *)
Ended(n, silent) == [Slot EXCEPT !.due = IF silent /\ n = 0 THEN 0 ELSE 1 - n]

(* The marks of the chunks of an answer of n chunks, an empty one included. *)
IsLast(n) == [i \in 1 .. (IF n = 0 THEN 1 ELSE n) |-> i >= n]
Lasts(n) == Cardinality({i \in DOMAIN IsLast(n) : IsLast(n)[i]})

(* What the request is sent when all it asked for has arrived.             *)
Replies(o, skipped) ==
    CASE o.answer = "one" -> {1}
      [] o.answer = "chunks" -> {Lasts(n) : n \in 0 .. 2}
      [] o.answer = "failed" -> {IF skipped THEN 1 ELSE 0}
      [] o.answer = "none" -> {0}

(* _http: a client is made, with the proxy of now, when there is none.     *)
Client(w) == IF worker[w].client = {} THEN {worker[w].proxy} ELSE worker[w].client

Through(w) == worker' = [worker EXCEPT ![w].client = Client(w)]

(* The task, as T, goes on to its next HTTP request: _get_json waits for   *)
(* the limiter first, the other workers have none.                         *)
Proceed(t, T) ==
    LET o == CHOOSE o \in T.op : TRUE IN
    CASE T.left = 0 ->
            /\ \E n \in Replies(o, T.skipped) :
                    task' = [task EXCEPT ![t] = Ended(n, o.answer \in {"failed", "none"})]
            /\ UNCHANGED <<bucket, worker>>
      [] T.left > 0 /\ o.client = "crypto" ->
            /\ task' = [task EXCEPT ![t] = [T EXCEPT !.phase = "limited", !.via = {}]]
            /\ bucket' = Append(bucket, t)
            /\ UNCHANGED worker
      [] T.left > 0 /\ o.client = "own" ->
            /\ task' = [task EXCEPT ![t] = [T EXCEPT !.phase = "sent", !.via = {}]]
            /\ UNCHANGED <<bucket, worker>>
      [] T.left > 0 /\ o.client = "tachibana" ->
            /\ Through("tachibana")
            /\ task' = [task EXCEPT ![t] = [T EXCEPT !.phase = "sent", !.via = Client("tachibana")]]
            /\ UNCHANGED bucket

(* It goes on with any of these numbers of HTTP requests.                  *)
Continue(t, o, numbers) ==
    \E n \in numbers :
        Proceed(t, [Slot EXCEPT !.op = {[o EXCEPT !.requests = {}, !.needs = "nothing", !.busy = FALSE]},
                                !.left = n, !.due = 1])

(* The first step of the task: a request that cannot be served is refused, *)
(* with an Error or without its request id.                                *)
Refuse(t, o) ==
    /\ task[t].phase = "new"
    /\ \E n \in {0, 1} :
        /\ n = 0 => o.busy
        /\ task' = [task EXCEPT ![t] = Ended(n, o.busy)]
    /\ UNCHANGED <<proxy, worker, setting, apart, bucket, queue, kept, streamVars>>

(* The store the request needs is looked up under its lock; the master     *)
(* that is loaded is not.                                                  *)
Begin(t, o) ==
    /\ task[t].phase = "new"
    /\ IF o.needs = "archive" \/ (o.needs = "master" /\ ~kept["master"])
       THEN /\ task' = [task EXCEPT ![t].op = {o}, ![t].phase = "queued"]
            /\ queue' = [queue EXCEPT ![o.needs] = Append(@, t)]
            /\ UNCHANGED <<bucket, worker>>
       ELSE Continue(t, o, o.requests) /\ UNCHANGED queue
    /\ UNCHANGED <<proxy, setting, apart, kept, streamVars>>

(* Under the lock: what is kept is used; today's master may be on disk;    *)
(* else it is downloaded.  An archive answers the request, unless it is no *)
(* zip with a CSV: then the pages of intraday trades are fetched, as they  *)
(* are without an archive.                                                 *)
UseStore(t) ==
    LET o == Op(t)
    IN \/ o.needs = "archive" /\ Continue(t, o, {0})
       \/ Continue(t, o, o.requests)

LeaveStore(t, k, there) ==
    /\ kept' = [kept EXCEPT ![k] = there]
    /\ queue' = [queue EXCEPT ![k] = Tail(@)]

(* Faulty variant: not looked up again once the lock is held.              *)
EnterStoreUnchecked(t) ==
    /\ task[t].phase = "queued"
    /\ Head(queue[Op(t).needs]) = t
    /\ Through(Op(t).client)
    /\ task' = [task EXCEPT ![t].phase = "loading", ![t].via = Client(Op(t).client)]
    /\ UNCHANGED <<proxy, setting, apart, bucket, queue, kept, streamVars>>

EnterStore(t) ==
    LET k == Op(t).needs IN
    /\ task[t].phase = "queued"
    /\ Head(queue[k]) = t
    /\ \/ /\ kept[k] \/ k = "master"
          /\ LeaveStore(t, k, TRUE)
          /\ UseStore(t)
       \/ /\ ~kept[k]
          /\ Through(Op(t).client)
          /\ task' = [task EXCEPT ![t].phase = "loading", ![t].via = Client(Op(t).client)]
          /\ UNCHANGED <<bucket, queue, kept>>
    /\ UNCHANGED <<proxy, setting, apart, streamVars>>

LoadDone(t) ==
    /\ task[t].phase = "loading"
    /\ LeaveStore(t, Op(t).needs, TRUE)
    /\ UseStore(t)
    /\ UNCHANGED <<proxy, setting, apart, streamVars>>

(* Without the archive there are still the pages; without the master there *)
(* is an Error, or for kabu_station an empty list.                         *)
LoadFailed(t) ==
    LET o == Op(t) IN
    /\ task[t].phase = "loading"
    /\ LeaveStore(t, o.needs, kept[o.needs])
    /\ IF o.needs = "archive"
       THEN Continue(t, o, o.requests)
       ELSE task' = [task EXCEPT ![t] = Ended(1, FALSE)] /\ UNCHANGED <<bucket, worker>>
    /\ UNCHANGED <<proxy, setting, apart, streamVars>>

(* The JST date rolls over, or a login changes the environment.            *)
InvalidateMaster ==
    /\ kept["master"]
    /\ kept' = [kept EXCEPT !["master"] = FALSE]
    /\ UNCHANGED <<proxy, worker, setting, apart, tracked, task, bucket, queue, streamVars>>

(* acquire: the holder of the bucket has the tokens.                       *)
Acquired(t) ==
    /\ task[t].phase = "limited"
    /\ Head(bucket) = t
    /\ bucket' = Tail(bucket)
    /\ Through("crypto")
    /\ task' = [task EXCEPT ![t].phase = "sent", ![t].via = Client("crypto")]
    /\ UNCHANGED <<proxy, setting, apart, queue, kept, streamVars>>

ResponseArrives(t) ==
    /\ task[t].phase = "sent"
    /\ Proceed(t, [task[t] EXCEPT !.left = @ - 1, !.via = {}, !.later = Op(t).skips])
    /\ UNCHANGED <<proxy, setting, apart, queue, kept, streamVars>>

(* A timeout, a status, a response that cannot be read or a client that    *)
(* was closed: an Error, or the event of an order, except for a part that  *)
(* is passed over.  A session or a password that is refused ends a         *)
(* CancelAllOrders all the same.                                           *)
RequestFails(t) ==
    LET o == Op(t)
        passedOver == o.skips /\ task[t].later
    IN
    /\ task[t].phase = "sent"
    /\ \/ /\ passedOver => o.answer = "failed"
          /\ \E n \in {0, 1} :
                /\ n = 0 => o.answer = "none"
                /\ task' = [task EXCEPT ![t] = Ended(n, o.answer = "none")]
          /\ UNCHANGED <<bucket, worker>>
       \/ /\ passedOver
          /\ Proceed(t, [task[t] EXCEPT !.left = @ - 1, !.via = {}, !.skipped = o.answer = "failed"])
    /\ UNCHANGED <<proxy, setting, apart, queue, kept, streamVars>>

(* A lock's queue q without t, which waits in it or holds it: a task waits *)
(* once.                                                                   *)
Without(q, t) ==
    IF t \in ToSet(q) THEN RemoveAt(q, CHOOSE i \in DOMAIN q : q[i] = t) ELSE q

(* CancelledError: an Error of the code "cancelled", unless the task never *)
(* began to run.                                                           *)
EndsCancelled(t) ==
    /\ task[t].phase \in {"killed", "cancelled"}
    /\ task' = [task EXCEPT ![t] =
                IF task[t].phase = "killed" THEN Ended(0, TRUE) ELSE Ended(1, FALSE)]
    /\ bucket' = Without(bucket, t)
    /\ queue' = [k \in Stores |-> Without(queue[k], t)]
    /\ UNCHANGED <<proxy, worker, setting, apart, kept, streamVars>>

(* A task that has ended is discarded, if it is there.                     *)
Discards == tracked' = {t \in tracked : task'[t].phase # "ended"}

TaskSteps(t) ==
    /\ \/ \E o \in Operations : Refuse(t, o) \/ Begin(t, o)
       \/ EnterStore(t)
       \/ LoadDone(t)
       \/ LoadFailed(t)
       \/ Acquired(t)
       \/ ResponseArrives(t)
       \/ RequestFails(t)
       \/ EndsCancelled(t)
    /\ Discards

(***************************************************************************)
(* The stream: stream_trades, or stream_kline, which has no batch.         *)
(***************************************************************************)

(* Tasks beside the reader that it cancels and awaits at the end of a      *)
(* connection: of trades, the one that flushes the batch and, for MEXC,    *)
(* the pings; of klines, for MEXC, the pings.                              *)
BinanceTradeHelpers == 1
BybitTradeHelpers == 1
OkexTradeHelpers == 1
HyperliquidTradeHelpers == 1
MexcTradeHelpers == 2
BinanceKlineHelpers == 0
BybitKlineHelpers == 0
OkexKlineHelpers == 0
HyperliquidKlineHelpers == 0
MexcKlineHelpers == 1
TradeHelpers == {BinanceTradeHelpers, BybitTradeHelpers, OkexTradeHelpers,
                 HyperliquidTradeHelpers, MexcTradeHelpers}
KlineHelpers == {BinanceKlineHelpers, BybitKlineHelpers, OkexKlineHelpers,
                 HyperliquidKlineHelpers, MexcKlineHelpers}

OpenStream ==
    /\ ~Streaming
    /\ RoomToRun
    /\ \A c \in Clients : setting[c].at # "streams"
    /\ stream' = [Closed EXCEPT !.phase = "new"]
    /\ UNCHANGED <<proxy, worker, setting, apart, requestVars, owed>>

Stream(s) ==
    /\ stream' = s
    /\ UNCHANGED <<proxy, worker, setting, apart, requestVars>>

(* The head of the loop: the next connection has its own stream_session_id *)
(* and an empty batch.                                                     *)
Connecting(s) == [s EXCEPT !.phase = "connecting", !.batch = 0, !.cause = "over"]
Again(s) == IF s.stop THEN Closed ELSE Connecting(s)

Connect ==
    /\ stream.phase \in {"new", "waiting"} /\ ~stream.cancel
    /\ Stream(Again(stream))
    /\ UNCHANGED owed

Connected ==
    /\ stream.phase = "connecting" /\ ~stream.cancel
    /\ \E n \in TradeHelpers \cup KlineHelpers : Stream([stream EXCEPT !.phase = "open", !.helpers = n])
    /\ UNCHANGED owed

ConnectFails ==
    /\ stream.phase = "connecting" /\ ~stream.cancel
    /\ Stream([stream EXCEPT !.phase = "waiting"])
    /\ UNCHANGED owed

(* A trade; a kline is told as it is read.  What is a stream of klines     *)
(* here may have helpers too: then it is one no trade comes on.            *)
Frame ==
    /\ stream.phase = "open" /\ ~stream.cancel
    /\ stream.helpers > 0 /\ stream.batch < MaxTrades
    /\ Stream([stream EXCEPT !.batch = @ + 1])
    /\ owed' = owed + 1

Flush == owed' = owed - stream.batch

(* _flush_periodically, every _TRADE_BATCH_INTERVAL.                       *)
FlushPeriodically ==
    /\ stream.phase = "open" /\ stream.batch > 0
    /\ Flush
    /\ Stream([stream EXCEPT !.batch = 0])

(* After the finally: an orderly end connects again at once, a failure is  *)
(* told and waited out, a cancellation ends the coroutine.                 *)
AfterFinally(s) ==
    CASE s.cause = "over" -> Again(s)
      [] s.cause = "failed" -> IF s.stop THEN Closed ELSE [s EXCEPT !.phase = "waiting", !.cause = "over"]
      [] s.cause = "cancelled" -> Closed

(* Faulty variant: the batch is not flushed at the end.                    *)
LeaveUnflushed(s) ==
    /\ IF s.helpers = 0
       THEN Stream(AfterFinally([s EXCEPT !.batch = 0]))
       ELSE Stream([s EXCEPT !.phase = "closing"])
    /\ UNCHANGED owed

(* The helpers are awaited; after the last of them: _flush_batch.          *)
Leave(s) ==
    IF s.helpers = 0
    THEN Flush /\ Stream(AfterFinally([s EXCEPT !.batch = 0]))
    ELSE Stream([s EXCEPT !.phase = "closing"]) /\ UNCHANGED owed

ConnectionEnds ==
    /\ stream.phase = "open" /\ ~stream.cancel
    /\ \E cause \in {"over", "failed"} : Leave([stream EXCEPT !.cause = cause])

(* The await of a cancelled helper ends; a CancelledError of the coroutine *)
(* itself is taken for that of the helper.                                 *)
HelperEnds ==
    LET s == [stream EXCEPT !.helpers = @ - 1, !.cancel = FALSE] IN
    /\ stream.phase = "closing"
    /\ Leave(s)

StreamCancelled ==
    /\ stream.cancel
    /\ \/ /\ stream.phase = "open"
          /\ Leave([stream EXCEPT !.cause = "cancelled", !.cancel = FALSE])
       \/ /\ stream.phase \in {"new", "connecting", "waiting"}
          /\ Stream(Closed)
          /\ UNCHANGED owed

StreamSteps ==
    \/ Connect
    \/ Connected
    \/ ConnectFails
    \/ FlushPeriodically
    \/ HelperEnds
    \/ StreamCancelled

(***************************************************************************)
(* SetProxy.                                                               *)
(***************************************************************************)

(* Faulty variant: the requests are left to run on.                        *)
CancelNoTasks(c) == setting' = [setting EXCEPT ![c] = Idle]

(* _cancel_all_streams, its second half: the requests tracked now.         *)
CancelTasks(c) ==
    setting' = [setting EXCEPT ![c] =
        IF tracked = {} THEN Idle ELSE [Idle EXCEPT !.at = "tasks", !.todo = tracked]]

(* Faulty variant: the task is cancelled, the stop event not set.          *)
CancelStreamUnstopped(c) ==
    IF Streaming
    THEN /\ stream' = [stream EXCEPT !.cancel = TRUE]
         /\ setting' = [setting EXCEPT ![c] = [Idle EXCEPT !.at = "streams"]]
    ELSE /\ UNCHANGED stream
         /\ CancelTasks(c)

(* _StreamHandle.cancel.                                                   *)
CancelStream(c) ==
    IF Streaming
    THEN /\ stream' = [stream EXCEPT !.stop = TRUE, !.cancel = TRUE]
         /\ setting' = [setting EXCEPT ![c] = [Idle EXCEPT !.at = "streams"]]
    ELSE /\ UNCHANGED stream
         /\ CancelTasks(c)

(* The workers from Crew[i] on are given the proxy, up to one whose client *)
(* has to be closed, which is awaited; from then on it counts as closed.   *)
SetWorkers(c, url, i, W) ==
    LET open == {j \in i .. Len(Crew) : W[Crew[j]].client # {}}
        last == IF open = {} THEN Len(Crew) ELSE Min(open)
        given == {Crew[j] : j \in i .. last}
    IN /\ worker' = [w \in Workers |->
                        IF w \in given THEN [proxy |-> url, client |-> {}] ELSE W[w]]
       /\ IF open = {}
          THEN CancelStream(c)
          ELSE /\ setting' = [setting EXCEPT ![c] =
                                [Idle EXCEPT !.at = "closing", !.url = url, !.next = last]]
               /\ UNCHANGED stream

SetProxy(c, url) ==
    /\ setting[c].at = "idle"
    /\ url # proxy
    /\ Coroutines < MaxCoroutines
    /\ proxy' = url
    /\ apart' = \A d \in Clients \ {c} : setting[d].at = "idle"
    /\ SetWorkers(c, url, 1, worker)
    /\ UNCHANGED <<requestVars, owed>>

(* aclose() has returned: whatever _client is by now is forgotten.         *)
ClientClosed(c) ==
    LET i == setting[c].next IN
    /\ setting[c].at = "closing"
    /\ SetWorkers(c, setting[c].url, i + 1, [worker EXCEPT ![Crew[i]].client = {}])
    /\ UNCHANGED <<proxy, apart, requestVars, owed>>

StreamGone(c) ==
    /\ setting[c].at = "streams"
    /\ ~Streaming
    /\ CancelTasks(c)
    /\ UNCHANGED <<proxy, worker, apart, requestVars, streamVars>>

(* Whatever it awaited, its next step is the CancelledError.               *)
Cancelling(T) ==
    [Slot EXCEPT !.phase = IF T.phase \in {"new", "killed"} THEN "killed" ELSE "cancelled", !.due = 1]

CancelTask(c, t) ==
    /\ setting[c].at = "tasks"
    /\ setting[c].awaits = {}
    /\ t \in setting[c].todo
    /\ setting' = [setting EXCEPT ![c].awaits = {t}]
    /\ task' = IF Alive(t) THEN [task EXCEPT ![t] = Cancelling(@)] ELSE task
    /\ UNCHANGED <<proxy, worker, apart, tracked, bucket, queue, kept, streamVars>>

(* After the last of them _fetch_tasks is emptied: the requests that have  *)
(* come meanwhile run on, and no later SetProxy will find them.            *)
TaskGone(c) ==
    /\ setting[c].at = "tasks"
    /\ \E t \in setting[c].awaits :
        /\ ~Alive(t)
        /\ setting' = [setting EXCEPT ![c] =
                        IF @.todo = {t} THEN Idle
                        ELSE [@ EXCEPT !.todo = setting[c].todo \ {t}, !.awaits = {}]]
        /\ tracked' = IF setting[c].todo = {t} THEN {} ELSE tracked
    /\ UNCHANGED <<proxy, worker, apart, task, bucket, queue, kept, streamVars>>

HandlerSteps(c) ==
    \/ ClientClosed(c)
    \/ StreamGone(c)
    \/ \E t \in Tasks : CancelTask(c, t)
    \/ TaskGone(c)

WorkerNext ==
    \/ \E t \in Tasks : Spawn(t)
    \/ \E t \in Tasks : TaskSteps(t)
    \/ InvalidateMaster
    \/ OpenStream
    \/ Frame
    \/ ConnectionEnds
    \/ StreamSteps
    \/ \E c \in Clients : \E url \in Proxies : SetProxy(c, url)
    \/ \E c \in Clients : HandlerSteps(c)

WorkerSpec == WorkerInit /\ [][WorkerNext]_workerVars

(***************************************************************************)
(* Properties.                                                             *)
(***************************************************************************)

(* A request that has ended has been told so exactly once under its id,    *)
(* whatever failed, was passed over or was cancelled.  None is told only   *)
(* of what has no event of its own, is stopped at the gate with EngineBusy *)
(* or was cancelled before it began.                                       *)
AnsweredOnce ==
    \A t \in Tasks : task[t].due = (IF Alive(t) THEN 1 ELSE 0)

(* A store is downloaded by one request at a time, and not while what it   *)
(* would bring is there: the waiting requests use what the first brought.  *)
OneDownload ==
    \A k \in Stores :
        LET loading == {t \in Tasks : task[t].phase = "loading" /\ Op(t).needs = k}
        IN /\ Cardinality(loading) <= 1
           /\ loading # {} => ~kept[k]

FetchesSound == AnsweredOnce /\ OneDownload

(* After SetProxy handlers that did not run beside each other, every       *)
(* worker has the proxy of the engine, no client that is kept goes through *)
(* another, and no request under way that the engine still tracks does.    *)
ProxyInUse ==
    (apart /\ \A c \in Clients : setting[c].at = "idle") =>
        /\ \A w \in Workers : worker[w].proxy = proxy /\ worker[w].client \subseteq {proxy}
        /\ \A t \in tracked : task[t].via \subseteq {proxy}

(* Every trade read from a connection is told, once and before the next    *)
(* connection has its stream_session_id, or still waits in its batch: none *)
(* is left when the connection or the stream has ended.                    *)
TradesTold ==
    owed = (IF stream.phase \in {"open", "closing"} THEN stream.batch ELSE 0)

(* While a SetProxy waits for the stream to end it connects no more,       *)
(* though a connection that is closing takes the cancellation for that of  *)
(* a helper and goes on: the stop event ends it then.                      *)
StoppingEndsStream ==
    [][(stream'.phase = "connecting" /\ stream.phase # "connecting") =>
            \A c \in Clients : setting[c].at # "streams"]_stream

(***************************************************************************)
(* Refuted.                                                                *)
(***************************************************************************)

(* "Fetch HTTP clients are replaced lazily" (server.py:4473), and what is  *)
(* under way is cancelled: not a request that began while a SetProxy       *)
(* awaited the cancelled ones.  It is no more in _fetch_tasks, and goes    *)
(* through its proxy whatever SetProxy comes next.                         *)
NothingThroughOldProxy ==
    (apart /\ \A c \in Clients : setting[c].at = "idle") =>
        \A t \in Tasks : task[t].via \subseteq {proxy}

(* After every SetProxy the workers have the proxy of the engine: two that *)
(* run beside each other may leave the older one on a worker.              *)
WorkersAgree ==
    (\A c \in Clients : setting[c].at = "idle") => \A w \in Workers : worker[w].proxy = proxy
=============================================================================
