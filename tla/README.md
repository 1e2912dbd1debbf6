# e-station: TLA+ models of its control logic

e-station is a trading workstation. A Rust GUI (`src/`, `data/`, `exchange/`)
talks through `engine-client/` to a Python data engine (`python/engine/`) over a
gRPC stream. The engine holds the venues' market data streams and broker
sessions, places orders, and replays historical data through Nautilus
strategies on worker threads. Several clients (the GUI, scripts) may be
attached to one engine.

The engine is one asyncio event loop plus threads. Most of its state belongs to
one object, `DataEngineServer`, which every handler of every client reads and
writes; nothing but the absence of an `await` protects it. What is hard about it
is therefore the order of things: what a handler assumed before an `await` and
uses after it, which of two runs, clients or tasks cleans up first, what a failure
half way leaves behind, what a restart reads. That is what is modelled here.

Paths below are relative to the repository. Sections: 1 inventory, 2 plan,
3 replay engine, 4 connections, 5 streams, 6 order log, 7 venue logins,
8 order passwords, 9 order events, 10 kabu_station push, 11 Tachibana's shared
connection, 12 order books, 13 venue workers, 14 script sessions, 15 runs,
16 what the code does not keep, 17 proofs, 18 what is left out.

How to run, in this directory:

    tlc -workers 2 -config ReplayEngine.cfg MCReplayEngine.tla
    tlapm ReplayProofs.tla

## 1. Inventory

Components with their state, operations and the module that models them.

| Component | Where | State | Operations | Module |
|---|---|---|---|---|
| Replay engine control | `python/engine/server.py`, `nautilus/engine_runner.py` | replay state, pause flag, step counter, session epoch, `_engine_tasks`, `_engine_stop_events`, `_fetch_tasks`, a worker thread per run | LoadReplayData, StartEngine, Pause/Resume/StepReplay, StopEngine, StopReplay, ForceStopReplay, mass cancellation | `ReplayEngine` |
| gRPC sessions | `server_grpc.py`, `server.py` | `_connections`, `_outbox`, `_mode`, handshake lock, `_tachibana_startup_task`, `_kabu_startup_task`, `_event_task`, `_live_state` | Session RPC: handshake, registration, prepare, serve, login requests and logout, `finally` | `EngineConnections` |
| Market data streams | `server.py` | `_streams`, one task per key, done callbacks | Subscribe, Unsubscribe, SetProxy, cancel all | `StreamRegistry` |
| Order log | `exchanges/tachibana_orders.py`, `server.py`, `wal_in_flight.py`, `src/main.rs` | `tachibana_orders.jsonl`, orders under way | SubmitOrder, the two readers, engine death, power loss | `OrderWal` |
| Venue logins | `server.py`, `exchanges/tachibana_auth.py`, `tachibana_login_flow.py`, `kabusapi_login_flow.py` | `LiveState`, `_connected_venue`, login tasks and their locks, cached session, tokens | RequestVenueLogin, logout, first and last client, expiry | `VenueLogin` |
| Order passwords | `tachibana_auth.py`, `kabusapi_auth.py`, `kabusapi_orders.py`, `server.py` | second password and trade password, idle timer, refusal counter, lockout, dialog lock | SetSecondPassword, forget, orders and their answers | `OrderPassword` |
| Order events | `server.py`, `exchanges/tachibana_event.py` | frames seen, venue-to-client map, cumulative fills, reconnection counter | EC frames, order answers, reconnect | `OrderEvents` |
| kabu_station push | `exchanges/kabusapi_register.py`, `kabusapi_ws.py`, `server.py` | list of 50 symbols, streams, WebSocket loop | Subscribe, Unsubscribe, PUT /register, push loop | `KabuPush` |
| Shared EVENT connection | `exchanges/tachibana.py`, `tachibana_ws.py` | `TickerEventWsHub` per ticker, its subscribers and runner, watchdog of depth | set_session, stream_depth, stream_trades, polling | `TachibanaHub` |
| Order book synchronisation | `exchanges/*.py` (syncers), `engine-client/src/depth_tracker.rs`, `backend.rs`, `server.py` | last sequence number and session per book | snapshot, difference, gap, request for a snapshot | `DepthSync`, abstract `MarketBook` |
| Venue workers | `exchanges/binance.py`, `bybit.py`, `okex.py`, `mexc.py`, `hyperliquid.py`, `tachibana.py`, `server.py` | proxy and httpx client of each worker, `_fetch_tasks`, rate limiter, archive and master with their locks, batch of trades | every request of `_spawn_fetch`, streams of trades and klines, SetProxy | `VenueOperations`, `VenueWorker` |
| Script API | `replay_session.py` | `recv_queue`, status of the session, threads | enter, load, run, stop, exit | `ScriptSession` |
| Engine process supervision | `engine-client/src/process.rs`, `session_file.rs` | child process, mode of the next start, backoff, session file | spawn, attach, lose, restart with mode | *EngineProcess* (planned) |
| gRPC client | `engine-client/src/grpc_transport.rs`, `connection.rs` | pending requests, event broadcast | send, match an answer, connection lost | *ClientRequests* (planned) |
| Step-back of a replay | `server.py`, `engine_runner.py` | ring of snapshots, strategy and portfolio holders | push, restore, clear | *ReplaySnapshots* (planned) |
| Run records | `run_buffer.py`, `scenario.py` | run directory and its status | start, append, finish, abort, SIGTERM, exit | *RunRecord* (planned) |
| Mode switch of the GUI | `src/handlers/menu.rs`, `window.rs`, `replay.rs` | dialog chain, gate answer | ask, confirm, restart | *ModeSwitch* (planned) |
| Idempotency map of the client | `engine-client/src/order_session_state.rs` | client order ids and their request keys | — | none: no caller in the application |
| Live strategies, data loading, messages, GUI, data and exchange crates | see `PROJECT.json` | — | — | not modelled (section 18) |

How they interact:

- **Sessions → everything.** `server_grpc.py` reads a client's commands one at a
  time and hands each to `DataEngineServer._dispatch`; some handlers are
  awaited there (the next command of that client waits), some become tasks in
  `_fetch_tasks` (StartEngine, SubmitOrder, every request for data). Events go to
  the outbox queues of all clients.
- **Last client's cleanup.** The `finally` of the last session cancels the
  login, the EVENT loop, all streams and all `_fetch_tasks`, awaiting each, and
  then resets the mode, the live state and the replay state.
- **StartEngine → thread.** A StartEngine task waits for `asyncio.to_thread`; the
  thread and the loop share `_engine_stop_events`, `_replay_paused`,
  `_replay_step_request`, the snapshots and the portfolio.
- **Both brokers → one live state.** A login of either venue writes
  `_live_state` and `_connected_venue`; what it leaves behind (session, EVENT loop,
  token, push task) belongs to its venue.
- **SetProxy** changes every worker, cancels and reopens every stream and
  cancels the `_fetch_tasks`.
- **SubmitOrder → file → GUI gate.** The order log is written by the engine and
  read by the GUI (a different process) when it wants to leave live mode.

What is hard, and the properties that decide it (line numbers for each are in
`PROJECT.json`, "hazards"):

| Component | Hard behaviour | Correct means |
|---|---|---|
| Replay engine | a run that was stopped goes on behind an IDLE state while the next one starts; both share flags and stop events; a timeout leaves its thread; a stop comes before the thread has an event | handles are never lost; the state shown can always be left; the flag threads poll agrees with the state; a stop hits the run it was meant for; each run reports its end once |
| Sessions | concurrent handshakes; the last client's cleanup awaits while new clients register; a client lost before its `try` | limit kept; one mode; no login in replay, none nobody can cancel; the last client leaves a pristine engine; a cleanup ends |
| Streams | done callbacks pop "the" entry; entries are popped before the await; clear() after awaits | an entry names a live stream of its key; a client has the streams it is owed; handlers end |
| Order log | death between log and request, request and answer, answer and its line; half-written lines; two orders of one id; day boundary | what may be at the venue is on disk; a synced line stays readable; a live order is reported |
| Logins | two venues share a state; a logout or a disconnect overtakes a login; a session expires | CONNECTED is usable; one EVENT loop; CONNECTING ends |
| Passwords | answers arrive when other orders are under way and another password was typed; parallel orders wait for one dialog | a refused password is not held; a lockout follows consecutive refusals; one dialog |
| Order events | frames of the day are sent again by every connection; an execution before the order's answer | fills are told once, in order, and only of orders the client knows |
| kabu_station push | the PUT of the whole list is awaited between the check and the entry of a stream | every stream has its symbol in the list; a failed PUT leaves none behind |
| Shared connection | a hub is replaced under waiting streams; the last leaves while the next comes | nobody is left on an old hub; a connection nobody listens to ends; depth does not stay silent |
| Order books | snapshots arrive late; differences before their snapshot; sessions replaced without a word | the book shown is the exchange's at the version shown; a refusal leads to a snapshot |
| Workers | SetProxy awaits between workers while requests go on; a cancelled connection cleans up; one download for all who wait | nothing goes through an old proxy; each request is answered once; no trade is lost |
| Scripts | the end of the run, stop(), a timeout and the loss of the connection race; events of others are read | STOPPED means ended; calls return; a stop takes effect |
| Supervision | restart requested while a restart sleeps | the engine that runs has the mode asked for last |

## 2. Plan

Done, in order of importance: `ReplayEngine`, `EngineConnections`, `OrderWal`
(checked and proved), `StreamRegistry`, `VenueLogin`, `OrderPassword`, `KabuPush`,
`TachibanaHub`, `OrderEvents`, `VenueWorker`, `ScriptSession` (checked, the safety
properties of their runs proved), and `DepthSync`, checked and proved to implement the
abstract `MarketBook`; `ReplayEngine` likewise implements `ReplayRuns`.

Left, in this order:

1. `ReplaySnapshots`: the ring, the two holders and the lock, between
   StepBackward and the worker thread; refines "strategy and portfolio are
   restored from one snapshot".
2. `EngineProcess` and `ModeSwitch`: the restart loop with its backoff, the
   dialog chain and the order gate that precedes it (composes the reader of
   `OrderWal`).
3. `RunRecord`: status of a run under finish, abort, SIGTERM and exit.
4. `ClientRequests`: pending requests and the loss of the connection, below
   `DepthSync` and `ScriptSession`.

Modules compose through the state they share, given as constants or as external
actions: the cleanup of the last client is the subject of `EngineConnections`
and one action of `VenueLogin`; the reopening of streams after SetProxy is in
`StreamRegistry` and their connections in `VenueWorker`; the replay engine a script sees
is the state machine of `ReplayEngine` without its threads; `VenueWorker` extends
`VenueOperations`, the table of what each request does.

## 3. Replay engine control — `ReplayEngine.tla`, `ReplayRuns.tla`

State: the fields of `DataEngineServer` under their own names (`replayState`,
`epoch`, `paused`, `stepRequest`, `strategyId`, `engineTasks`, `stopEvents`,
`fetchTasks`), and for each accepted StartEngine (a *run*, numbered in order of
acceptance) where its coroutine (`co`) and its thread (`thread`) are, the stop
event the thread holds (`evt`), and the `EngineStopped` reports made
(`stopFlag`, `stoppedSent`). A `threading.Event` is named by the run that made it.
`stopAsked` is a history variable: the runs a stop command resolved to.

| Action | Code |
|---|---|
| `LoadReplayData`, `StartEngine`, `PauseReplay`, `ResumeReplay`, `StepReplay`, `StopEngine`, `StopReplay`, `ForceStopReplay` | the handlers in `server.py`, from their state guard to the end: none has an await between its guard and its last assignment to the modelled state |
| `ThreadPickUp` … `ThreadRaise` | `_run` inside `_handle_start_engine`, and `start_backtest_replay_streaming` in `engine_runner.py`, one action per access to what the thread shares with the loop |
| `CoReturn`, `CoRaise`, `CoTimeout`, `CoCancel` | the coroutine resumes from `wait_for(to_thread(...))`: the branch taken and its `finally` |
| `CancelBegin`, `CancelEnd` | `_cancel_all_streams` as far as it concerns runs, called by SetProxy or by the cleanup after the last client |

Assumptions and bounds:

- The server is in mode replay; a refused command (EngineBusy) is a stutter.
- `self._replay_step_request -= 1` and the dict's `setdefault` are taken as
  atomic against the event loop. The checks before an item (stop event, pause
  flag, step counter) are one action, since each is a single test made again in
  the next round of the loop; the item that follows is another action, so that
  every command can still fall between the check and the item.
- Two calls of `_cancel_all_streams` do not overlap; one may be interleaved with
  everything else.
- Bounds: `MaxRuns` = 2 accepted StartEngine of one strategy or of two,
  `MaxEpoch` = 2 loaded sessions, `NumItems` = 1 item in the data, `MaxSteps` = 1 pending
  step request. Two runs are what every conflict here needs: an old run and its
  successor. Two strategies are needed for two runs that are registered at once:
  StopReplay leaves the first one alive behind IDLE, and only another strategy can be
  started beside it. The strategies are interchangeable, so the constraint
  `FirstIsA` gives the first run to one of them; it cuts behaviours only at StartEngine,
  which has no fairness, so the liveness properties keep their meaning. The
  constraint `StepsInFirstRun` lets steps be asked for while there is one run: a step only
  lets a paused thread go on for one item, and StartEngine forgets those that are left.

`ReplayRuns` is what clients are promised of runs, without threads, events or tasks: the
state they are shown (`state`), the run each strategy is busy with (`holder`), and of
each run its life (none, active, ended, or abandoned by the engine after a timeout or a
cancellation), its outcome, the items it has seen, whether a stop was meant for it, and the
times its end was told. A run returns when it has seen all the data or because a stop was
meant for *it* (`Returns`); its end has been told once when its strategy becomes free
(`Ends`), not at all if its configuration was refused; an abandoned run promises nothing of
its end. `Lives` and `Outcomes` in `ReplayEngine` say how coroutines and threads are seen,
and `RunsAsPromised` that the engine implements `ReplayRuns`: the thread's pick-up, its event,
its checks, the pending steps and the beginning of a cancellation are stutters.

## 4. Sessions — `EngineConnections.tla`

One member of `Sessions` is one Session RPC, used once; a client that reconnects
is a new one. `phase` is where its coroutine is suspended; `connections`, `mode`,
`eventTask`, `live` and `venue` (`_connected_venue`) are the fields of the server,
`handle` its `_tachibana_startup_task` and `_kabu_startup_task`. `awaited` is the
task the `finally` waits for. A login task is named by the session whose `Serve` creates
it or by the request (`TachibanaRequests`, `KabuRequests`) that does.

`Register` is the body of `async with _handshake_lock`, `Prepare` the end of the
workers' `prepare()`, `Serve` the point after `yield Ready` at which the login is
started, `Leave` the end of the receive or send loop. `RequestTachibana`, `RequestKabu`
and `Logout` are RequestVenueLogin and RequestVenueLogout, which clients may send as long
as they are served. `CreateLogin` stores the new task in the handle of its venue and
cancels nothing; the `finally` of a kabu_station login (`ClearsHandle`) clears that handle,
whatever it holds. `Cleanup(c, done, busy)` is a stretch of the session's `finally` from one
suspension to the next: it may wait for either login (`CloseLogin`, `CloseKabu`), for the
EVENT loop (`CloseLoop`) and for streams and fetches (`CloseTasks`), each only if there is
something to wait for, and it clears each handle after the wait, *whatever the handle holds
by then*. `Lose` is a client that goes away between its registration and the `try`.

Two history variables say where the promises end. `overlap`: some client was registered
while another one's cleanup ran. `forgotten`: the logins whose handle a later login of their
venue overwrote, or the `finally` of another one cleared, while they ran. The cleanup
cannot cancel those, so they may connect a later, even a replay, lifecycle; the
properties say that nothing else does.

Abstractions: a login is its lock and its outcome (section 7 has its steps, the expiry of
a kabu_station token, which only takes the live state back, and the latch that may end
the process). Whether streams and fetches are there to be waited for is left open (`busy`);
they are the subject of sections 5 and 13. No command is dispatched after its
session's `finally` has begun.

Bounds: three sessions, at most two registered, one request to each broker. They show
everything found here: one that leaves, one that arrives during its cleanup, and
one that meets the limit. They may also follow each other, which covers a reconnect.
`StartInOrder` takes one order of the three, which are interchangeable; `RequestsApart`
ends a behaviour that has both a request and an overlap, of which only the invariants of
section 17 speak.

## 5. Streams — `StreamRegistry.tla`

`registry` is `_streams`: it maps a key to the task that serves it. `CancelOn` is
`_cancel_all_streams`: it cancels and awaits one handle after the other and then
clears the whole dict (`ClearAll`). It still awaits the cancelled fetches, of which
there may be any number; they are the tasks of `VenueWorker`, and here only a
suspension between the clearing and `Reopen`, the end of `_handle_set_proxy`, which
subscribes its keys anew unless another client has done so meanwhile. The order in
which the dict is walked is left open. `OnDone` is the done callback: it pops the entry of its key, whatever handle
is in it. asyncio calls a done callback one loop iteration after the task ended;
in that iteration other handlers may run, but a client at most one command, as its
next one must be read from its stream first. `acted` carries this restriction.

Clients unsubscribe only keys they are owed. `owed` is a history variable: the
keys a client subscribed, did not unsubscribe, and whose stream did not end by
itself. `raced` is another: a handler ran in the iteration between the end of a
stream and its callback, or two clients were served at once. Under ~`raced`,
`StreamsAsOwed` holds; section 16 has what happens otherwise.
kabu_station subscriptions, which await a PUT before they store their handle, are in
section 10; what a stream sends is in sections 11 to 13.

Bounds: two clients, two keys, four tasks; the keys are interchangeable, so the constraint
`FirstIsK1` gives the first stream to one of them (it cuts behaviours only at Subscribe, which
has no fairness). A key is then opened again twice, by the
same client or the other, with an older task of it still on its way out.

## 6. Order log — `OrderWal.tla`

`wal` is the file as a sequence of pieces, one for each write that reached it: a
line, or the part of one that a failed write or a power loss left. `Readable` is
what both readers do: they split at newlines and skip what is not JSON. A piece
that lost its newline is glued to the next one, and both are lost, unless it is
the last and was whole. `synced` is how far `fsync` has reached.

`Submit` logs, syncs and sends in one step, because there is no await between them
(`_audit_log_submit` runs on the loop). `VenueDecides`, `VenueSettles` and the
expiry in `NewDay` are the venue's (external), `VenueAnswers`, `AnswerNotLogged`,
`NoAnswer` the three ways the request ends for the engine. `EngineDies`
loses nothing that was flushed; `PowerLoss` leaves a prefix that holds at least
the synced part. `InFlight` is the answer of `has_wal_in_flight_orders_at`: the ids
whose last readable line of today is not a rejection.

Abstractions: the fields of a line that no reader looks at; ids and expiry are
chosen at the start; an order without a date expires at midnight in Japan;
orders placed at night for the next day are not modelled; a reader that cannot
open the file (the gate then answers "nothing in flight") is not either. Two
orders are needed for the glued line and for two orders of one id, two days
(`MaxDay` = 1) for the cut at midnight; failures and power losses are not bounded.

## 7. Venue logins — `VenueLogin.tla`

A login is a task with a `venue` and a `step`: *created* (waits for the lock of its
venue), *validate* (asks whether the cached session is good), *dialog*, *call*,
*ended*. `live` and `connected` are the state both venues share; `session`, `cache`,
`loops` and `eventTask` are Tachibana's, `kabuVenue`, `object`, `tokens`, `push` and
`order` kabu_station's.

`TachibanaFresh`, `TachibanaAgain`, `KabuFresh`, `KabuAgain` are the four ways through
`_do_request_venue_login` (not connected or connected, per venue); the second drops
the session the engine has before it asks for another. `Validated`, `DialogAnswered`,
`PasswordRefused`, `LoggedIn`, `LoginFails` and their kabu_station counterparts are
the awaits of `startup_login`, each up to the next; `Fails` and `Succeeds` are the ends
of `_startup_tachibana`. `ClearKabuSession` is an order that finds the token expired.
`LastClientLeaves` is one action: its awaits are in section 4.

`ConnectedIsUsable` asks of a connected kabu_station for the object its commands use, with
a token, and a push task. `cleared` and `astray` are history: the logins that were under way
when an order cleared the session, and whether the last login of kabu_station to succeed
was one of them, the only way to be connected without the object (`KabuHasVenue`,
section 16). A login whose handle was overwritten runs on in this module as in the code;
that nobody can cancel it is `NoOrphanLogin` (section 16) and, between lifecycles of the
engine, `LifecyclesApart` (section 4).

Left out: the state TRADING, since no live strategy reaches it (section 18), and
credentials a developer puts into the environment instead of a dialog. Bounds: three
login tasks, two attempts each. Three are one of either venue and a second of one of
them, so that a login finds a running one of its own venue and of the other.

## 8. Order passwords — `OrderPassword.tla`

`holder` is the state of a `TachibanaSessionHolder` or a `KabuTradePasswordHolder`:
password, time since its last use, refusals, lockout. What the user types is a number
of its own (`Entries`), of which `right` are the password; `Tick` lets time pass.
An order takes its password along (`carried`), and `Refused`, `Accepted`,
`FailsOtherwise` and `SessionExpired` are the broker's answer, applied to the holder as
it is *then*. `queue` is `_dialog_lock` of an order client of kabu_station:
`KabuStarts` joins it if no password is held, `LockAcquired` looks again, and
`DialogAnswered` or `DialogCancelled` passes the lock on. `Login` makes a new order client
and, unless it can take it over, a new holder. `refused` and `streak` are history.

Bounds: two orders at a time, three entries, two order clients, a lockout after two
refusals, two ticks to forget and two of lockout. Two orders suffice for an answer that
comes after another password was typed; three entries are a wrong one, another
wrong one and the right one.

## 9. Order events — `OrderEvents.tla`

`day` is the broker's list of notices (EC frames), which every new connection
sends from its start; `sent` is how far the present one has got. `Receive` is
`_on_ec_event`: what is in `seen` is dropped, the rest counts as seen, and it is
reported if its order is in `known` (`_venue_to_client`), which the answer to
SubmitOrder fills. `ClosesOk`, `ConnectionBreaks`, `Reconnects` and `ReconnectFails` are
`receive_loop` with its counter; an orderly close empties `seen`. `EngineRestarts`
loses everything the engine keeps in memory.

Bounds: two orders of two, three notices, two retries, three logins or restarts, one
orderly close. Every execution is of one, so that a report too many shows in the sum.
`NotOvercounted` holds with the orderly closes in it: each of them, and nothing else, may
have every execution counted once more.

## 10. kabu_station push — `KabuPush.tla`

`registered` is the list the engine keeps, `atBroker` the one kabu STATION has.
`Subscribe` adds the symbol and sends the whole list in a PUT; `Subscribed` stores the
stream after the await, `SubscribeFails` takes the symbol back. `put` and `list` are
the requests under way: kabu STATION may take them up in another order than they were
made in (`BrokerTakes`). The WebSocket loop (`push`) sends the list again when it has
connected (`Opens`, `Registered`), counts failures and orderly closes, and gives up.

The run has two clients, two symbols of which one fits, one kind of stream and two
attempts. Two clients, or two kinds, may come to share a symbol, and then a stream can lose
it: `StreamsRegistered` does not hold (section 16). `KeepsSymbols` says what does: a state
in which every stream has its symbol and none is shared is left by no step for one in which
a stream has lost it.

## 11. Tachibana's shared connection — `TachibanaHub.tla`

A ticker's `stream_depth` and `stream_trades` subscribe to one `TickerEventWsHub`. `hub`
has its url, its subscribers, its stop event and its runner; `current` is the one in `_ticker_hubs`. `Joins` subscribes and starts the
runner for the first, `Leaves` unsubscribes and stops it after the last, `SetSession`
gives up every hub and schedules its `aclose()`, which `Close` carries out.
`WatchdogWakes` is the task that sends a depth stream without a book to polling.
What runs under the lock of a hub has no await and is one step. `session` is the url of
the session; a login with the cached session brings an earlier one again, so that two
connections to one url may be open for a while, of which `OldConnectionsEnd` says that the
older is on its way out. A hub has a book once a first frame came (`Quotes`), also one whose
levels are all dropped in normalisation (`tachibana.py:1242-1249`): so it is in the code, and
the watchdog then leaves such a stream alone.

Bounds: two coroutines of either kind in any order of creation, two sessions; a hub is
then left, given up, and replaced under a waiting stream.

## 12. Order books — `DepthSync.tla`, `MarketBook.tla`

`MarketBook` is the promise: the book on the screen is the exchange's book at the version
shown with it; a snapshot puts it anywhere in the exchange's history, a difference moves
it forward; nothing is promised to a reader before its first snapshot. `DepthSync` is how
it is kept: the exchange publishes differences (`Publish`) into a connection, the
venue's syncer (`Read`, with one variant per venue for where the first snapshot comes from and
how a difference names its predecessor) numbers or refuses them, `outbox` carries
events to the client, and `Receive` is `DepthTracker` with `depth_stream`, which asks for a
snapshot when it refuses one. `LateAnswered` is the `initialize()` a broken Binance
connection leaves behind. The refinement is
`INSTANCE MarketBook WITH shown <- reader.seq, book <- reader.book`; the property
`FollowsMarket` is its `Spec`. A replay of the differences that waited for a snapshot
(`ApplySnapshot`) is a recursive function over their places, one `Replay` each.

Bounds: the five variants in one run, three versions over two price levels, a queue of one
difference (so that it overflows), three connections, one frame left out, one failure,
one reader that joins again. Three versions are a snapshot, a difference lost and the
difference after it. Hyperliquid sends whole books and needs none of this.

Two conditions limit the properties. `MarketBook`'s `sound` ends when a late snapshot of a
broken connection comes behind one of a newer session: what the tracker accepts from then
on is promised to be a book again only from the next snapshot of the newest session.
`RefusedIsServed` does not hold out for a session beyond the bound (`Exhausted`); at Bybit a
refused difference may wait for the next session (`bybit.py:645`).

## 13. Venue workers — `VenueOperations.tla`, `VenueWorker.tla`

`VenueOperations` is a table of all requests that `_spawn_fetch` runs: how many HTTP
requests each makes, what the limiter charges, through which client it goes, which
store (archive of trades, master of the day) must be loaded first, whether a
failing part is passed over, and how its client learns of the end. `CostsFit`, an ASSUME
TLC evaluates, says that no request costs more than its bucket holds:
`TokenBucket.acquire` would otherwise keep its lock for ever.

`VenueWorker` runs them: a task waits for the lock of its store, for the limiter, for each
response, may fail anywhere or be cancelled, and makes or uses the client of its worker.
The stream has a connection, a batch of trades that a helper task flushes, and the
`finally` that cancels and awaits the helpers, in which a cancellation of the stream
itself may be swallowed. SetProxy gives the workers the new proxy one after another, with
an await of `aclose()` between them, then stops the stream and cancels and awaits the
tasks of `tracked` (`_fetch_tasks`) one after another; then it empties the set, so that a
request spawned meanwhile goes on untracked and no later SetProxy finds it.

Abstractions: the crypto workers count as one, and one stream stands for all of theirs;
these do not use the proxy. The streams of Tachibana do, through hubs that keep the proxy
they were made with (section 16); their proxy is not modelled, nor is that of order and
account calls, which open a client of their own: `ProxyInUse` speaks of neither. The archive
is kept because the engine has a data directory. The table distinguishes more requests
than the properties need: what tells them apart there is the client, the store, the number
of HTTP requests, `skips` and `answer`, and the table is the record of which command is which.
`apart` is history: no SetProxy ran beside another. Bounds: two clients, two requests or
one request and the stream (one of them alone after SetProxy handlers overlapped, until one
begins alone), two proxies, two pages, two coroutines besides a
SetProxy, one trade in a batch. The clients and the tasks are symmetric; there is
no liveness property here.

## 14. Script sessions — `ScriptSession.tla`

`status`, `request` and `pc` are the script's thread in `ReplaySession`; `inbox` is
`recv_queue` and `pending` what `wait_for` put aside. `Load` sends a command and blocks
(`WaitReads`, `WaitTimesOut`). `Run` sets RUNNING, `StartSent` sends StartEngine, and
`EventsRead`, `EventsTimeOut` and `LastCallback` are the loop that reads the run's events.
`StopLooks`, `StopSets` and `StopSends` are the parts of `stop()` in another thread, between
any of which the run may start or end. `recv_queue` is not kept once `run()` ended: nothing
reads it any more.

`EngineTakes` and `GuiActs` are the engine its clients see; it broadcasts to all, so the
script reads the GUI's events too. A run ends in two steps, as in the code:
`ThreadReports` is the EngineStopped of the thread (`engine_runner.py:1082`, `1109`), `RunOver` the
coroutine that finds the thread done, makes the state IDLE and tells a failure
(`server.py:5078`). `RunFails` is a run that raises before its thread reports or takes too
long, where the coroutine makes up for the missing EngineStopped; on a timeout the thread
goes on as one of `strays` and may report later (`StrayReports`). `mixed` and `overtook` are
history: another client's run, or a thread it left, overlapped the session; and a
StopEngine was sent while `run()` was between RUNNING and StartEngine.

Running a strategy in the own process is mode *inprocess*. Bounds: the own run and one
of the GUI, in either order, one event, two loads.

## 15. Runs

Each run checks one module: `MC<Module>.tla` with `<Module>.cfg` (`Connections.cfg` for
`MCEngineConnections`). All pass. Times are of a machine with two workers.

| Run | Distinct states | Properties | Shows |
|---|---|---|---|
| `replay` | 334 469, 150 s | `RunsMatch`, `EndsAsAsked`, `RunsAsPromised`, `StopEventEndsThread`, `StoppingEnds` | two strategies whose runs may overlap, every stop, pause and timeout anywhere: handles, state and pause flag agree with the runs there are; a run is stopped only if asked and says so once; the engine implements `ReplayRuns`; a set stop event ends its thread, and STOPPING ends |
| `connections` | 363 685, 80 s | `RegistryExact`, `LifecyclesApart`, `CleanupEnds` | three sessions, both modes, a login request to either broker: the limit is kept; unless a client registers during a cleanup there is one mode, and but for forgotten logins none in replay and a pristine engine in the end; every cleanup ends |
| `streams` | 327 217, 75 s | `StreamsAsOwed`, `EntryNamesItsStream`, `HandlersEnd` | clients served one after the other have the streams they are owed; no entry names a dead stream, whatever they do; handlers end |
| `order_wal` | 132 284, 7 s | `SentIsLogged`, `LiveIsInFlight`, `SyncedStaysReadable` | writes that fail half way, engine deaths and power losses anywhere |
| `venue_login` | 64 782, 20 s | `ConnectedIsUsable`, `OneEventLoop`, `ConnectingEnds` | logins of both venues against logout, disconnect and expiry |
| `order_password` | 211 221, 60 s | `RefusedNotHeld`, `MissesAreConsecutive`, `DialogOnlyWithout`, `CommandsEnd` | answers in any order while passwords are typed, forgotten and locked out |
| `script_session` | 271 055, 70 s | `StoppedMeansEnded`, `CallsReturn`, `StopReaches` | a script beside the GUI, with slow answers, lost connections and stop() anywhere: STOPPED comes after the EngineStopped of the own run; a stop takes effect unless its StopEngine overtakes the StartEngine |
| `kabu_push` | 424 760, 145 s | `LeftByLeaversOnly`, `KeepsSymbols`, `HandlersEnd` | two clients, PUTs that fail or overtake one another, and the loop that reconnects: no step takes the symbol of a stream that shares it with nobody |
| `order_events` | 268 828, 30 s | `ToldRightly`, `NotOvercounted`, `LoopGoesOn` | the notices of the day again and again, over broken connections, logins and restarts |
| `depth_sync` | 326 335, 40 s | `FollowsMarket`, `RefusedIsServed` | the refinement of `MarketBook` for five venue variants; a refused difference leads to a snapshot |
| `tachibana_hub` | 138 547, 105 s | `NoneLeftBehind`, `OldConnectionsEnd`, `UnheardHubEnds`, `DepthNotSilent` | hubs left, given up and replaced under their streams, by a new session or by the cached one |
| `venue_worker` | 832 776, 75 s | `FetchesSound`, `ProxyInUse`, `TradesTold`, `StoppingEndsStream` | every kind of request and a stream under SetProxy |

The parts of the properties named above (`TypeOK`, `TasksMatchCoroutines`,
`StoppedOnce`, `WithinCapacity`, `OneModeApart`, `OneDownload` and so on) are
definitions of their own and can be put into the cfg; so can statements that
hold as well and are not in a run: `WithinLimit`, `GivesUpLate` and `LoopGoesOn`
(`KabuPush`), `CloseFreesWaiters` (`TachibanaHub`), `FramesAreRead`
(`OrderEvents`), `StoppedSticks` (`ScriptSession`), and `LoadedSurvivesOldRun`
(`ReplayEngine`), the part of `RunsAsPromised` that is about LOADED.

Deadlock is checked in the runs of the streams, of the order log and of kabu_station, where
some step is always possible. In the others the bounded runs, sessions, logins,
entries or notices may all be used up, hence `CHECK_DEADLOCK FALSE`.

Symmetry is used in `order_wal` (orders, ids) and `venue_worker` (clients, tasks), which
check no liveness and name none of the values; `replay` fixes the strategy of the
first run instead (section 3).

Fairness, and why it is justified. Everywhere it is weak, and it is given to what the
event loop or the operating system does by itself, never to commands or users, with the
two exceptions named:

- `ReplayEngine`: the operating system runs every thread that can go on, and the loop
  resumes a coroutine whose thread has ended. None for commands, errors, timeouts or
  cancellations. `StopEventEndsThread` holds under pause because the pause loop tests
  the stop event; a paused thread whose event is *not* set need not end.
- `EngineConnections`: a cancelled login ends, and a coroutine whose awaited task has
  ended is resumed. Nothing is assumed of clients, of a user who leaves the login
  dialog open, or of the broker: the cleanup ends because it cancels what it waits for.
- `StreamRegistry`: a cancelled task ends, also a fetch, its callback is called, and who
  awaits it is resumed.
- `VenueLogin`: each login goes on. *This includes its dialog*, which the user answers or
  closes; Tachibana's is killed after ten minutes.
- `OrderPassword`: the lock passes on, requests are answered or time out. *The dialog
  of an order is answered or closed.* Without it an order that waits for the user waits.
- `ScriptSession`: threads run, the engine takes what was sent, waits time out, a run
  told to stop ends (`StopEventEndsThread` of the replay engine), and its coroutine goes
  on when its thread is done.
- `KabuPush`: a PUT is answered or times out, an attempt to connect succeeds or fails.
- `OrderEvents`: an open connection is read, an attempt to connect succeeds or fails.
- `DepthSync`: connections are opened and read, fetches are answered or fail, events are
  received.
- `TachibanaHub`: woken coroutines run in turn, the watchdog's timer expires, a runner
  that is told to stop ends, a scheduled `aclose()` runs.
- `OrderWal`, `VenueWorker`: none; their properties are about every prefix.

Each property comes with a *faulty variant* of one definition, kept beside it and
marked as such in the modules ("Faulty variant: ..." or "Mutant of ..."): a bug a change of
the code could plausibly introduce, under which TLC finds the property violated. They are
not used by the specifications; `PROJECT.json` lists which belongs to what.

## 16. What the code does not keep

Statements of the repository, or expectations one may have of it, that the code does not
keep. Each is written down at the end of its module; TLC refutes it when its name
replaces the properties in the cfg of the module's run, with one change of a constant where
the table names it. The trace is a schedule of the real handlers.

| Module | Definition | Statement, and what happens |
|---|---|---|
| `ReplayEngine` | `ResetsOnlyItsOwnState` | `server.py:5076`, the `finally` resets only the state of its own run: StopReplay leaves run 1 alive behind IDLE, another run is started, and the `finally` of run 1 makes its RUNNING IDLE |
| | `TimeoutReleasesThread` | `server.py:4995`, on a timeout stop() releases the thread: `runner.stop()` does nothing while the run goes on, and the event is dropped unset |
| | `OneStrategyAtATime` | N1.4 assumes one strategy at a time: with StopReplay two runs overlap |
| | `StopReplayAfterCompletion` | ReplayStopped is broadcast after the runner completed: it does not wait for it |
| | `NoDoubleStopped` | EngineStopped is sent once: a thread that goes on after its timeout sends a second one |
| `EngineConnections` | `NoLoginForReplay` | `docs/specs/replay.md:30`, no login during a replay session: a replay client registers during the cleanup of the last live client, which then sets the mode to live |
| | `FullMeansFull` | `docs/specs/data-engine.md:96`, up to four clients: one lost before the `try` is never unregistered and keeps its place |
| | `NoOrphanLogin` | `server.py:4431`, the stored task can be cancelled on disconnect: a second client asks for a login while the first still awaits `prepare()`; once the first is served it starts its own and takes the handle, and the other goes on when both have left |
| | `OneMode`, `ReadyWhenPrepared` | one mode among the clients: not during a cleanup; Ready comes after the workers are prepared: not for the second client |
| `StreamRegistry` | `OthersStillServed` | `docs/specs/data-engine.md:278`, subscriptions are a union: one client's Unsubscribe ends the stream for all |
| | `OneStreamPerKey` | an old callback or `clear()` unregisters a newer stream, which runs on |
| `OrderWal` | `OldOrdersSettled` | `src/main.rs:322`, an accepted line of an earlier day is settled: a GTD order lives on, and the gate drops its line |
| | `SentIsReadable` | every order sent has a readable line: not if the line before it was cut |
| | `NotSubmittedIsTrue` | "not submitted" is answered although the order is at the venue, when its *accepted* line fails |
| | `OneOrderPerId` | a command repeated with its id yields the order there is: the id is looked up nowhere |
| `VenueLogin` | `NoGhostLoop` | an EVENT loop runs only for the session the engine has: a login of kabu STATION fails and sets the shared state to DISCONNECTED while Tachibana's loop runs, and the next Tachibana login drops the session but not the loop |
| | `OtherVenueKeeps` | a venue stays connected when a login of the other fails: the shared state is set to DISCONNECTED |
| | `KabuHasVenue` | connected to kabu_station, its object is there for orders: an order that finds the token expired clears the object while another login is under way with it, and that login then ends CONNECTED without one |
| | `NeverKilled` | the latch never ends the process: of the login tasks queued at the lock, a second one that validates the cached session finds the latch set and calls `os._exit(2)` |
| | `NoOrphanLogin` | without clients no login is under way: not one whose handle was overwritten |
| `OrderPassword` | `IdleNotUsed` | the password is forgotten after 30 idle minutes (`tachibana_auth.py`): `touch()` moves the timer before it is tested |
| | `NoOrderInLockout` | kabu_station: an order that waits for the dialog or its lock is sent during a lockout |
| | `LockoutOutlastsLogin` | a login after an expired token brings a holder without the lockout |
| | `LockoutTakesEntries` (`Orders <- ThreeOrders`) | a lockout takes that many wrong entries: one entry in parallel orders is enough |
| | `OwnRefusalOnly` | a refusal clears the password it is about: it clears the one held by then |
| | `ForgivenOnlyByBroker` | CancelAllOrders with nothing to cancel resets the refusals |
| `ScriptSession` | `FailureReported` | a run that fails is reported ERRORED: its EngineStopped comes before its Error |
| | `StoppedIsOwn` | another client's EngineStopped ends run() |
| | `StopAlwaysReaches` | `stop()` ends the run: one called while `run()` is between RUNNING (`replay_session.py:1460`) and its StartEngine sends StopEngine first, which is refused, and the run goes on |
| | `StoppedMeansIdle` | after STOPPED the engine can be loaded again: EngineStopped comes from the thread, before the engine leaves RUNNING, and a load() that follows at once is refused |
| | `ExitEndsRun` | the script may leave with its run going on: 60 silent seconds, a raising callback, a stop refused while paused |
| `KabuPush` | `StreamsRegistered` | a stream keeps its symbol registered: Unsubscribe of the other kind, or another client's failed PUT, takes it away |
| | `AtRestServed` | kabu STATION pushes what the list holds: PUTs that overtake one another leave the older list, and an empty list is never sent |
| | `NoneLeft` | only symbols of streams stay registered: a client that leaves does not take its symbols |
| | `NumbersGrow` | a login numbers from one again under the same stream session id |
| `OrderEvents` | `ResentIsDropped` | `docs/specs/order.md:969`, frames sent again are dropped: not after an orderly close, which empties the set of those seen |
| | `GivesUpFailing` | only consecutive failures end the loop: a connection that was had and broke counts too |
| | `AnsweredIsTold` | an execution that overtakes the answer to its order is lost: it counts as seen |
| `DepthSync` | `NeverCorrupted` | `backend.rs:458`, never a corrupted book: a depth_stream that joins between differences applies them to an empty one |
| `VenueWorker` | `NothingThroughOldProxy` | `server.py:4473`, clients are replaced and what is under way is cancelled: a fetch spawned while a SetProxy awaits the cancelled ones drops out of `_fetch_tasks` and goes on through its proxy after the next SetProxy |
| | `WorkersAgree` | after every SetProxy the workers have the engine's proxy: of two beside each other the first may set a worker last, and setting the second's url again returns early |
| `TachibanaHub` | `FirstSubscriberStarts` | the first subscriber starts the WebSocket: one that comes between the last unsubscribe and the end of the runner finds it there, and it ends |
| | `OneConnection` | `tachibana_ws.py:518`, one EVENT connection for a session and a ticker: after a login with the cached session the new hub connects while the old one winds down |

Met while modelling `VenueWorker` and left out of its properties by their conditions or
abstractions: `TachibanaWorker.set_proxy` leaves the cached hubs of its tickers, which
connect with the proxy they were made with (`tachibana.py:776`, `tachibana_ws.py:383`), so
that after SetProxy Tachibana's streams go through the old proxy until the next login;
a client made during `aclose()` is
forgotten unclosed; an orderly close of a stream gives no Disconnected; EngineBusy carries no
request id; a Hyperliquid list without the DEXes that failed is told as the whole;
statistics of inverse MEXC contracts are incomplete when their sizes are missing;
`invalidate_master` during a download lets the old environment's master in; the master file
is not replaced atomically.

## 17. Proofs

Eight modules prove, for every value of the constants that satisfies the named ASSUME of
the module, what the runs check on an instance. The assumptions are only that bounds are
natural numbers, that null values are no members of their sets, that limits are
positive, in `DepthSync` that each version changes one of the levels, and in `KabuPush` that
there are finitely many symbols; no set of strategies,
sessions, streams or orders is assumed finite.

| Module | Theorems (`Spec => ...`) |
|---|---|
| `ReplayProofs` | of `ReplayEngine`: `ReplayTypeOK`, `ReplayTasksMatch`, `ReplayActiveHasRunner`, `ReplayPausedAgrees`, `ReplayRunsMatch`, `ReplayStoppedOnce`, `ReplayStoppedOnlyIfAsked`, `ReplayEndsAsAsked`, `ReplayLoadedSurvives`, `ReplayRunsAsPromised`; of `ScriptSession`: `SessionTypeOK`, `SessionStoppedMeansEnded`, `SessionStoppedSticks` |
| `EngineConnectionsProofs` | `ConnectionsTypeOK`, `ConnectionsServedRegistered`, `ConnectionsOneFirst`, `ConnectionsWithinCapacity`, `ConnectionsRegistryExact`, `ConnectionsOneMode`, `ConnectionsNoReplayLogin`, `ConnectionsHandled`, `ConnectionsPristine`, `ConnectionsLifecyclesApart` |
| `OrderWalProofs` | `Typing`, `SentOrdersLogged`, `LiveOrdersReported`, `SyncedLinesStay` |
| `StreamProofs` | of `StreamRegistry`: `StreamsTypeOK`, `StreamsEntryNames`, `StreamsOwedAreServed`; of `DepthSync`: `DepthTyped`, `DepthFollowsMarket` |
| `VenueProofs` | of `VenueWorker`: `WorkerTypesAlways`, `WorkerFetchesSound`, `WorkerProxyInUse`, `WorkerTradesTold`, `WorkerStoppingEndsStream`; of `VenueLogin`: `LoginTypesAlways`, `ConnectedIsUsableAlways`, `OneEventLoopAlways` |
| `OrderPasswordProofs` | `PasswordRefusedNotHeld`, `PasswordMissesConsecutive`, `PasswordDialogOnlyWithout` |
| `KabuPushProofs` | `KabuTypeOK`, `KabuWithinLimit`, `KabuGivesUpLate`, `KabuLeftByLeaversOnly`, `KabuKeepsSymbols`, `KabuRegisteredOnePerSymbol` |
| `TachibanaProofs` | of `OrderEvents`: `EventsTypesAlways`, `EventsToldRightly`, `EventsNotOvercounted`; of `TachibanaHub`: `HubTypeOK`, `HubOldConnectionsEnd`, `HubNoneLeftBehind` |

Each has an inductive invariant `IInv` (at the end of the first three modules, in the
proof modules of the others); the proofs are one lemma per part of it or per kind of step.
`VenueProofs`, `TachibanaProofs`, `ReplayProofs` and `StreamProofs` each extend two components,
so that their theorems speak of the definitions the runs check; for this reason the common
names of `VenueWorker`, `OrderEvents`, `ScriptSession` and `DepthSync` carry a prefix
(`WorkerSpec`, `EventsInit`, `ScriptNext`, `DepthInit`), and so do their invariants, `WorkerInv`,
`EventsInv`, `ScriptInv` and `DepthInv`.

**Replay engine.** The properties are not inductive alone. `StoppedOnlyIfAsked`
speaks of the event a thread holds, but what makes it true is where events come
from: `EventsOwned` says that the dict's event for a strategy was made by a thread of
that strategy that has passed its arming, that a set event in the dict means its
registered run was asked to stop, and that a waiting run which is armed holds the
dict's event. The last holds because the `finally` pops the event together with
the registration, and because `setdefault` runs only after the run is registered
and never again. `StoppedOnce` needs `ReportsCounted`, which relates the number of
reports to the thread's progress for *each* way the coroutine can end: the
thread of a run that timed out or was cancelled may still report. `FreshRuns` says
that run numbers not yet given out name nothing. `TasksMatchCoroutines` carries
`ActiveHasRunner`: a state other than IDLE and LOADED is entered only with a
registered run or kept from such a state, and the `finally` of any run leaves IDLE
or LOADED behind.
`ReplayRunsAsPromised` is the refinement, one lemma each for commands, threads and the ends
of coroutines: what a stop resolves to is active (`RegisteredActive`), a live thread
belongs to a run of which nothing has been said (`LiveUnderWay`), the `finally` frees the
strategy of its own run and no other (`LeavesRegistry`), and `StoppedOnlyIfAsked` makes an
early return one that was asked for.

**Connections.** All but `ServedRegistered`, `OneFirst` and the limit hold only while
no client registers during a cleanup, so the invariant is split: `Apart`, the
conjuncts that say nothing once `overlap` is true, and the rest.
Under ~`overlap`, `ClosingAlone` says that a running cleanup is the only one and that
nobody is registered, `HandledApart` that every login and EVENT loop is named by its handle
or forgotten, and `PassedApart` that what a cleanup has passed is gone but for
what was forgotten; together they make the end pristine. `CreateHandled` is the one place
where a login is forgotten by another's creation, `LoginIInv` the one where a handle is
cleared. `CleanupIInv` proves one stretch of the `finally` for an arbitrary set of passed
suspensions and is then used by `Leave` and by the four `Close` actions. `WithinCapacity` is
proved apart, with the finiteness of `connections`.

**Order log.** `SentIsLogged` is about the prefix that is synced. `WriteAppends` and
`LossLeavesPrefix` say what an append and a power loss do to a sequence of
pieces, `FileSteps` that a step does nothing else to the file, and `OrderSteps` how
an order's stage and venue state move; the conjuncts of the invariant follow from
these alone. `LinesOwned` and `RejectedRefused` add what the file says of the orders.
They give `LiveIsInFlight`: a line that ends an id of its own is of an order the venue
refused, so it is not live.

**Streams.** `Started` (tasks are named in the order of creation) makes a new entry's task a
new one, and `RoomKept` says that the bound on tasks leaves one for each stream a proxy
change is still to reopen. `Suspends`, `Clears` and `Cancels` treat the loop of
`_cancel_all_streams` for an arbitrary set of handles still to be awaited, `Reopens` what
is subscribed anew, some of the keys perhaps by another client before.
`StreamsAsOwed` speaks of quiet states; `Served` says what leads from one to the next while
clients are served one at a time. Outside the loop (`Kept`) a running stream has the
entry of its key and an ending one has it or nobody has, so that its callback pops no entry
but its own; within it (`Moving`) every running stream is still to be cancelled and what is
owed is to be reopened, and from the clearing on (`Cleared`) nothing runs or is registered.

**Order books.** `DepthFollowsMarket` is the refinement: the invariant `DepthInv` holds at
first and is kept, and under it every step is a step of `MarketBook` or leaves what is shown
alone (`MarketStep`). `Flow` says that frames, syncers and events tell the truth: a difference
leaves no hole after the version it names (`Diffs`, `ConnectsWithoutHole`). `AppliedFollows`
is why that is enough: levels set from the hole-free difference on are its own, the others
are as old as the book says. The rest is order. A difference on its way to the client
stands behind a snapshot of its own session with only differences between them
(`FollowsOwn`), or no snapshot of a later session is before it (`InOrder`); a late `initialize()`
of a broken connection emits the first kind, the present one either. Hence, once a snapshot of
session c was shown and the tracker knows of no later session (`AtSession`), the only
difference it may accept is one of session c that follows the version shown: what
comes from an earlier session is preceded by that session's own snapshot. `BehindSnapshot` starts
this at a snapshot, `BehindTail` and `EmissionKeepsOrder` keep it. The replay of a queue
needs induction over its places. The library's induction theorems cannot be used (they take an
operator), so `LeastElement`, from the well-foundedness of < on Nat, gives the least place
where a claim fails; `Steps` (the recursive function exists) and `Stays` (it remains in a
set) follow from it.

**Logins.** The two invariants are inductive once the types are known, since a step of
either venue writes the shared state together with what it claims; the types need
`ObjectTaken`, that a kabu_station login which holds the lock has made its object.

**Venue workers.** `WorkerInv` has five parts besides the properties. `Types` ties what a
request is doing to the table of operations, whose entries are all typed
(`OperationsServed`, one lemma per venue). `TasksSound` says of a request by itself that
it owes the event of its end until it has ended and that no client serves it while it waits for
something else. `Queues` makes one download out of the lock: who waits is in the queue,
who downloads heads it, and the store is not there yet; `WithoutKeeps` says what leaving a
queue does to the places of the others. `Applied` is what a SetProxy that
runs alone has done at each of its awaits, where a tracked request is one of
`_fetch_tasks`; `ProxyInUse` alone says nothing until the
handler has ended, when it is too late. `Stopping`, the stop event of a stream
that is waited for, gives the action property: a cancellation may be swallowed, the event
may not. `StreamStep`, `TaskStep` and `SetStep` treat each kind of step once.

**Order events.** `SeenIsPrefix` says that up to an orderly close the notices seen are those
up to some place and the connection is not beyond it, hence a notice not seen before
comes after all that were and after all that was told. `ToldWasSeen` ties reports to
`seen`, so nothing is told again, and `CountedWasSeen` bounds the sum by the number of
executions seen since the last orderly close and, for each such close, by all there are. A restart forgets the sum, the map and what was
seen together; `Known` (an order in the map was answered) makes that safe.

**Passwords.** `OfTyped`, `ClientsMade`, `HeldOnce` and `CarriesOwn` tie entries to the
orders that carry them: an entry is held by one holder at most, and an order carries what
its own holder had, so its refusal reaches every copy. `Methods` states what the holder's
methods can do, `HolderSteps` concludes for every step built from them.
`LockInv`, on top of it, is about the lock of the dialog (`InTurn`): who waits is in the queue of its
order client and who has the dialog heads it. `OnlyEntriesBring` says that no step but an
entry gives a holder a password, so it could only come from another command with a dialog
at the same holder, which is then of another client (`StaysAlone`): the case
`DialogOnlyWithout` leaves out.

**kabu_station.** The invariant falls into the loop's counters (`AttemptsLeft`: who is not
dead has an attempt left) and the lists; `LimitKept` derives the limit of every list
under way from that of the list it was copied from. `StreamsRegistered` is no invariant of
the code (section 16). `KabuKeepsSymbols` states what it takes: while no symbol has two
streams, a subscribed one and one under way, or two Subscribes under way at once
(`OnePerSymbol`), what an Unsubscribe or a failed PUT takes from the set belongs to nobody
else (`NewStreams`). `KabuRegisteredOnePerSymbol` follows: where that is always so, every
stream's symbol is always registered, for any number of clients.

**Script sessions.** `EndTold` follows an EngineStopped from `recv_queue` through `wait_for` to
the end of `run()`; `EndToldOver` says that from its broadcast on the end of the own run was
told (`OwnTold`). It stays so because the script starts one run at most: `OneRunAsked` says that
the status leaves IDLE and LOADED for good, which a stop() that has looked at it relies on
too, and that one command to run is on its way at most, and none once there was a run.
`RunsKnown` says that, unless another client's run has overlapped the session, the run under
way is the script's, and a thread that a timeout left behind belongs to it and comes after
the coroutine's EngineStopped.

**Shared connection.** `HubsEnd` says that hubs to come are fresh and that a runner that runs
is the present hub's or told to end: nobody subscribes to a hub that was given up, so none
is started again. `StreamsNamed` ties coroutines to hubs.

Only model-checked: everything under fairness, which is beyond the prover, hence the
liveness properties of the runs. Every invariant, action property and refinement that a run
checks without fairness is proved.

## 18. Not modelled, and why

- Planned, section 2: step-back, process supervision, the mode switch, run records and
  client requests. Their main hazards are in `PROJECT.json`. Others to look at then: a
  step request not consumed before ResumeReplay stays counted (`server.py:1225`); a replay
  run reads the two step-back holders one after the other (`engine_runner.py:869`).
- Live strategies: `start_live` (`engine_runner.py:1125`) wraps the future of
  `run_in_executor` in `create_task`, which raises TypeError; no live strategy trades, and the
  queue that would bring it executions has no reader.
- The WebSocket transport: not the default (`--transport grpc`); its handshake awaits
  between counting the connections and registering (`server.py:718`).
- `OrderSessionState` and its `load_from_wal`: no caller in the application.
- Orders in replay and at kabu_station write no line of the order log; ModifyOrder
  and CancelOrder neither. The outcome of their requests is in `VenueOperations`.
- Hyperliquid's depth stream, which sends whole books, and its orders; the polling
  that replaces Tachibana's depth, beyond its end.
- The older WebSocket client of scripts, `LiveSession` and the command line.
- Token bucket and replay speed as arithmetic on real time; what the bucket does to the
  order of requests is in `VenueWorker`.
- Wire formats, codecs, the contents of the master and of scenario files, data loaders,
  strategies, settings, aggregation, and the GUI's drawing: sequential data
  transformations that unit tests reach. Generated protobuf code and vendored assets.
