------------------------- MODULE EngineConnections -------------------------
(***************************************************************************)
(* The gRPC Session RPC of the data engine (python/engine/server_grpc.py): *)
(* the handshake that registers a client and fixes the engine's mode, the  *)
(* broker logins that the first live client starts and any client may ask  *)
(* for, and the cleanup of the resources all clients share, which the last *)
(* client to leave runs in its `finally`.                                  *)
(*                                                                         *)
(* One action is what the asyncio loop runs between two awaits.  A Session *)
(* RPC is used once: a client that reconnects is a new member of Sessions, *)
(* as it is a new _GrpcSessionKey in the code.  A login is abstracted to   *)
(* its task, its lock and its outcome; VenueLogin opens it.                *)
(***************************************************************************)
EXTENDS Naturals, FiniteSets

CONSTANTS
    Sessions,          \* the Session RPCs of one behaviour
    TachibanaRequests, \* the RequestVenueLogin commands that start a task,
    KabuRequests,      \* by venue
    NoLogin,
    MaxConnections     \* MAX_CONNECTIONS

ASSUME ConnectionsAssumption ==
    /\ TachibanaRequests \cap Sessions = {}
    /\ KabuRequests \cap (Sessions \cup TachibanaRequests) = {}
    /\ NoLogin \notin Sessions \cup TachibanaRequests \cup KabuRequests
    /\ MaxConnections \in Nat \ {0}

Modes == {"live", "replay"}
Requests == TachibanaRequests \cup KabuRequests

(* A login task is named by the session or the request that created it. *)
Logins == Sessions \cup Requests
LoginOrNone == Logins \cup {NoLogin}
Venues == {"tachibana", "kabu"}
VenueOf(t) == IF t \in KabuRequests THEN "kabu" ELSE "tachibana"

(* hello: waiting for the HelloRequest; prepare: registered, awaiting the
   workers' prepare(); ready: suspended in the yield of Ready; serve: in the
   recv/send loops, inside the try whose finally unregisters the client.   *)
Handshaking == {"prepare", "ready"}
(* Where the finally of the last client waits: for the login of either venue
   and the EVENT loop it cancelled, for the streams and the tasks of other
   commands it cancels.                                                    *)
Closing == {"closeLogin", "closeKabu", "closeLoop", "closeTasks"}
(* lost: cancelled before the try was entered, so no finally runs. *)
Phases == {"new", "hello", "serve", "closed", "lost"} \cup Handshaking \cup Closing

VARIABLES
    phase,        \* where each Session RPC is
    wants,        \* hello.mode
    isFirst,      \* is_first of the RPCs
    connections,  \* _connections (and the queues of _outbox)
    mode,         \* _mode
    prepared,     \* the workers' prepare() has been awaited
    asked,        \* the requests that have created their task
    logins,       \* login tasks that are not done
    lock,         \* the tasks that hold the _login_inflight of each venue
    cancelled,    \* the tasks among them that were cancelled
    handle,       \* _tachibana_startup_task and _kabu_startup_task
    awaited,      \* the login a session in closeLogin or closeKabu waits for
    loops,        \* EVENT loop tasks that run, named by the login that made them
    eventTask,    \* _event_task
    live,         \* _live_state
    venue,        \* _connected_venue
    overlap,      \* history: a client was registered during another's cleanup
    forgotten     \* history: logins whose handle another login took or cleared

sessionVars == <<phase, wants, isFirst, connections>>
taskVars == <<asked, logins, lock, cancelled, handle>>
loopVars == <<loops, eventTask, live, venue>>
vars == <<sessionVars, mode, prepared, taskVars, awaited, loopVars, overlap, forgotten>>

TypeOK ==
    /\ phase \in [Sessions -> Phases]
    /\ wants \in [Sessions -> Modes]
    /\ isFirst \in [Sessions -> BOOLEAN]
    /\ connections \in SUBSET Sessions
    /\ mode \in Modes
    /\ prepared \in BOOLEAN
    /\ asked \in SUBSET Requests
    /\ logins \in SUBSET Logins
    /\ lock \in [Venues -> LoginOrNone]
    /\ cancelled \in SUBSET LoginOrNone
    /\ handle \in [Venues -> LoginOrNone]
    /\ awaited \in [Sessions -> LoginOrNone]
    /\ loops \in SUBSET Logins
    /\ eventTask \in LoginOrNone
    /\ live \in {"DISCONNECTED", "CONNECTING", "CONNECTED"}
    /\ venue \in Venues \cup {"none"}
    /\ overlap \in BOOLEAN
    /\ forgotten \in SUBSET Logins

Init ==
    /\ phase = [c \in Sessions |-> "new"]
    /\ wants = [c \in Sessions |-> "live"]
    /\ isFirst = [c \in Sessions |-> FALSE]
    /\ connections = {}
    /\ mode = "live"
    /\ prepared = FALSE
    /\ asked = {} /\ logins = {} /\ cancelled = {}
    /\ lock = [v \in Venues |-> NoLogin]
    /\ handle = [v \in Venues |-> NoLogin]
    /\ awaited = [c \in Sessions |-> NoLogin]
    /\ loops = {} /\ eventTask = NoLogin
    /\ live = "DISCONNECTED" /\ venue = "none"
    /\ overlap = FALSE /\ forgotten = {}

Moves(c, p) == phase' = [phase EXCEPT ![c] = p]

-----------------------------------------------------------------------------
(* The handshake. *)

(* The RPC starts and waits for its first command, whose mode is up to the
   client.                                                                 *)
Connect(c) ==
    /\ phase[c] = "new"
    /\ Moves(c, "hello")
    /\ \E m \in Modes : wants' = [wants EXCEPT ![c] = m]
    /\ UNCHANGED <<isFirst, connections, mode, prepared, taskVars, awaited, loopVars,
                   overlap, forgotten>>

(* No HelloRequest within 15 s, the stream ends, or the request is refused
   for its token or its schema: nothing was registered.                    *)
HelloFails(c) ==
    /\ phase[c] = "hello"
    /\ Moves(c, "closed")
    /\ UNCHANGED <<wants, isFirst, connections, mode, prepared, taskVars, awaited,
                   loopVars, overlap, forgotten>>

Full == Cardinality(connections) >= MaxConnections

(* The first client of an engine in mode "live" chooses the mode; any other
   client must ask for the mode the engine is in.                          *)
ModeAccepted(c) == (mode = "live" /\ connections = {}) \/ wants[c] = mode

RefuseFull(c) ==
    /\ phase[c] = "hello" /\ Full
    /\ Moves(c, "closed")
    /\ UNCHANGED <<wants, isFirst, connections, mode, prepared, taskVars, awaited,
                   loopVars, overlap, forgotten>>

RefuseMode(c) ==
    /\ phase[c] = "hello" /\ ~Full /\ ~ModeAccepted(c)
    /\ Moves(c, "closed")
    /\ UNCHANGED <<wants, isFirst, connections, mode, prepared, taskVars, awaited,
                   loopVars, overlap, forgotten>>

(* Faulty variant: the client is registered only by the end of prepare(). *)
RegistersLate(c) ==
    /\ phase[c] = "hello" /\ ~Full /\ ModeAccepted(c)
    /\ mode' = wants[c]
    /\ isFirst' = [isFirst EXCEPT ![c] = ~prepared]
    /\ connections' = IF connections = {} THEN connections ELSE connections \cup {c}
    /\ Moves(c, IF connections = {} THEN "prepare" ELSE "ready")
    /\ overlap' = (overlap \/ \E d \in Sessions : phase[d] \in Closing)
    /\ UNCHANGED <<wants, prepared, taskVars, awaited, loopVars, forgotten>>

(* The body of `async with _handshake_lock`: it has no await on this path.
   Only the first client prepares the workers.                             *)
Register(c) ==
    /\ phase[c] = "hello" /\ ~Full /\ ModeAccepted(c)
    /\ mode' = wants[c]
    /\ isFirst' = [isFirst EXCEPT ![c] = connections = {}]
    /\ connections' = connections \cup {c}
    /\ Moves(c, IF connections = {} THEN "prepare" ELSE "ready")
    /\ overlap' = (overlap \/ \E d \in Sessions : phase[d] \in Closing)
    /\ UNCHANGED <<wants, prepared, taskVars, awaited, loopVars, forgotten>>

(* prepare() of every worker returned, failed or timed out after 20 s. *)
Prepare(c) ==
    /\ phase[c] = "prepare"
    /\ Moves(c, "ready")
    /\ prepared' = TRUE
    /\ UNCHANGED <<wants, isFirst, connections, mode, taskVars, awaited, loopVars,
                   overlap, forgotten>>

(* asyncio.create_task of a login and the assignment of its venue's handle;
   the task the handle named before is not cancelled.                      *)
CreateLogin(t) ==
    LET old == handle[VenueOf(t)] IN
    /\ logins' = logins \cup {t}
    /\ handle' = [handle EXCEPT ![VenueOf(t)] = t]
    /\ forgotten' = forgotten \cup ({old} \cap logins)

NoNewLogin == UNCHANGED <<logins, handle, forgotten>>

(* The consumer took Ready.  The login is decided here, from the mode of now. *)
StartsLogin(c) == mode # "replay" /\ isFirst[c]

Serve(c) ==
    /\ phase[c] = "ready"
    /\ Moves(c, "serve")
    /\ IF StartsLogin(c) THEN CreateLogin(c) ELSE NoNewLogin
    /\ UNCHANGED <<wants, isFirst, connections, mode, prepared, asked, lock, cancelled,
                   awaited, loopVars, overlap>>

(* The client goes away before the try: the coroutine is cancelled in the
   await of prepare() or closed in the yield, and nothing unregisters it.  *)
Lose(c) ==
    /\ phase[c] \in Handshaking
    /\ Moves(c, "lost")
    /\ UNCHANGED <<wants, isFirst, connections, mode, prepared, taskVars, awaited,
                   loopVars, overlap, forgotten>>

-----------------------------------------------------------------------------
(* While clients are served: RequestVenueLogin and RequestVenueLogout.  A
   request that is refused, or answered with the login under way, changes
   nothing and uses up no member of Requests.                              *)

Locked(v) == lock[v] # NoLogin

(* Faulty variant: a login may be asked for in replay mode. *)
RequestInAnyMode(c, r) ==
    /\ phase[c] = "serve" /\ r \notin asked
    /\ live # "CONNECTING"
    /\ loops' = IF live = "CONNECTED" THEN loops \ {eventTask} ELSE loops
    /\ IF Locked("tachibana")
       THEN live' = "DISCONNECTED" /\ NoNewLogin /\ UNCHANGED asked
       ELSE live' = "CONNECTING" /\ CreateLogin(r) /\ asked' = asked \cup {r}
    /\ UNCHANGED <<sessionVars, mode, prepared, lock, cancelled, awaited, eventTask,
                   venue, overlap>>

(* When connected, to either venue, the EVENT loop is cancelled and a login
   begins anew, unless one holds the lock.                                 *)
RequestTachibana(c, r) ==
    /\ phase[c] = "serve" /\ r \notin asked
    /\ mode # "replay" /\ live # "CONNECTING"
    /\ loops' = IF live = "CONNECTED" THEN loops \ {eventTask} ELSE loops
    /\ IF Locked("tachibana")
       THEN live' = "DISCONNECTED" /\ NoNewLogin /\ UNCHANGED asked
       ELSE live' = "CONNECTING" /\ CreateLogin(r) /\ asked' = asked \cup {r}
    /\ UNCHANGED <<sessionVars, mode, prepared, lock, cancelled, awaited, eventTask,
                   venue, overlap>>

(* A login of kabu STATION also starts while one of Tachibana connects. *)
RequestKabu(c, r) ==
    /\ phase[c] = "serve" /\ r \notin asked
    /\ mode # "replay" /\ ~(live = "CONNECTING" /\ Locked("kabu"))
    /\ loops' = IF live = "CONNECTED" /\ venue = "tachibana"
                THEN loops \ {eventTask} ELSE loops
    /\ venue' = IF live = "CONNECTED" THEN "none" ELSE venue
    /\ IF Locked("kabu")
       THEN live' = "DISCONNECTED" /\ NoNewLogin /\ UNCHANGED asked
       ELSE live' = "CONNECTING" /\ CreateLogin(r) /\ asked' = asked \cup {r}
    /\ UNCHANGED <<sessionVars, mode, prepared, lock, cancelled, awaited, eventTask, overlap>>

(* Only Tachibana has a logout; it stops no login that is under way. *)
Logout(c) ==
    /\ phase[c] = "serve"
    /\ loops' = loops \ {eventTask} /\ eventTask' = NoLogin
    /\ live' = "DISCONNECTED" /\ venue' = "none"
    /\ UNCHANGED <<sessionVars, mode, prepared, taskVars, awaited, overlap, forgotten>>

-----------------------------------------------------------------------------
(* The login tasks. *)

(* async with _tachibana_login_inflight, or _kabu_login_inflight.  A task that
   was created and has not run yet holds nothing.                          *)
TakeLoginLock(t) ==
    /\ t \in logins \ cancelled /\ ~Locked(VenueOf(t))
    /\ lock' = [lock EXCEPT ![VenueOf(t)] = t]
    /\ UNCHANGED <<sessionVars, mode, prepared, asked, logins, cancelled, handle, awaited,
                   loopVars, overlap, forgotten>>

(* The `finally` of a login of kabu STATION clears the handle of its venue,
   whichever login that names by now; that of Tachibana has none.          *)
ClearsHandle(t) ==
    IF VenueOf(t) = "kabu"
    THEN /\ handle' = [handle EXCEPT !["kabu"] = NoLogin]
         /\ forgotten' = forgotten \cup (({handle["kabu"]} \ {t}) \cap logins)
    ELSE UNCHANGED <<handle, forgotten>>

LoginEnds(t) ==
    /\ t = lock[VenueOf(t)] /\ t \in logins \ cancelled
    /\ logins' = logins \ {t}
    /\ lock' = [lock EXCEPT ![VenueOf(t)] = NoLogin]
    /\ ClearsHandle(t)

(* The login succeeds: the live state becomes CONNECTED, and at Tachibana a
   new EVENT loop replaces the one of _event_task.                         *)
LoginSucceeds(t) ==
    /\ LoginEnds(t)
    /\ live' = "CONNECTED" /\ venue' = VenueOf(t)
    /\ IF VenueOf(t) = "tachibana"
       THEN loops' = (loops \ {eventTask}) \cup {t} /\ eventTask' = t
       ELSE UNCHANGED <<loops, eventTask>>
    /\ UNCHANGED <<sessionVars, mode, prepared, asked, cancelled, awaited, overlap>>

(* Login refused, failed or dismissed by the user. *)
LoginFails(t) ==
    /\ LoginEnds(t)
    /\ live' = "DISCONNECTED"
    /\ UNCHANGED <<sessionVars, mode, prepared, asked, cancelled, awaited, loops,
                   eventTask, venue, overlap>>

(* A cancelled login ends at its await, whether it holds the lock or waits
   for it, and sets no state; one that was cancelled before its first step
   does not come to its `finally`.                                         *)
LoginCancelled(t) ==
    /\ t \in cancelled
    /\ logins' = logins \ {t}
    /\ lock' = [v \in Venues |-> IF lock[v] = t THEN NoLogin ELSE lock[v]]
    /\ cancelled' = cancelled \ {t}
    /\ \/ ClearsHandle(t)
       \/ t # lock[VenueOf(t)] /\ UNCHANGED <<handle, forgotten>>
    /\ UNCHANGED <<sessionVars, mode, prepared, asked, awaited, loopVars, overlap>>

(* The EVENT loop gives up: its receive loop returned or raised. *)
LoopEnds(t) ==
    /\ t \in loops
    /\ loops' = loops \ {t}
    /\ UNCHANGED <<sessionVars, mode, prepared, taskVars, awaited, eventTask, live, venue,
                   overlap, forgotten>>

-----------------------------------------------------------------------------
(* The finally of a session. *)

Pending(v) == handle[v] \in logins
LoopRuns == eventTask \in loops

(* The finally suspends only where there is something to wait for; the next
   place it suspends when it has passed the ones in done.  busy: some stream
   or some task of _fetch_tasks is to be waited for.                       *)
Suspends(done, busy) ==
    IF "closeLogin" \notin done /\ Pending("tachibana") THEN "closeLogin"
    ELSE IF "closeKabu" \notin done /\ Pending("kabu") THEN "closeKabu"
    ELSE IF "closeLoop" \notin done /\ LoopRuns THEN "closeLoop"
    ELSE IF "closeTasks" \notin done /\ busy THEN "closeTasks"
    ELSE "closed"

(* What the cleanup waits for in a login's place. *)
Waited(next) ==
    CASE next = "closeLogin" -> handle["tachibana"]
      [] next = "closeKabu"  -> handle["kabu"]
      [] OTHER               -> NoLogin

ModeReset == "live"

(* From one suspension to the next: the handles passed on the way are set to
   None whatever they hold by now, the EVENT loop waited for is cancelled,
   and the end resets the state of the engine.                             *)
PassesTo(c, done, next) ==
    /\ Moves(c, next)
    /\ awaited' = [awaited EXCEPT ![c] = Waited(next)]
    /\ handle' = [handle EXCEPT
          !["tachibana"] = IF "closeKabu" \in done \/ next = "closeLogin" THEN @ ELSE NoLogin,
          !["kabu"] = IF "closeLoop" \in done \/ next \in {"closeLogin", "closeKabu"}
                      THEN @ ELSE NoLogin]
    /\ loops' = IF next = "closeLoop" THEN loops \ {eventTask} ELSE loops
    /\ eventTask' = IF "closeTasks" \in done \/ next \in {"closeLogin", "closeKabu", "closeLoop"}
                    THEN eventTask ELSE NoLogin
    /\ IF next = "closed"
       THEN live' = "DISCONNECTED" /\ venue' = "none" /\ mode' = ModeReset
       ELSE UNCHANGED <<live, venue, mode>>

(* Faulty variant: awaits a login without cancelling it. *)
CleanupAwaitsOnly(c, done, busy) ==
    /\ PassesTo(c, done, Suspends(done, busy))
    /\ UNCHANGED cancelled

(* A login waited for is cancelled first. *)
Cleanup(c, done, busy) ==
    LET next == Suspends(done, busy) IN
    /\ PassesTo(c, done, next)
    /\ cancelled' = cancelled \cup ({Waited(next)} \ {NoLogin})

(* The recv or the send loop ended.  The client is unregistered; the last
   one starts the cleanup.                                                 *)
Leave(c) ==
    /\ phase[c] = "serve"
    /\ connections' = connections \ {c}
    /\ IF connections = {c}
       THEN \E busy \in BOOLEAN : Cleanup(c, {}, busy)
       ELSE /\ Moves(c, "closed")
            /\ UNCHANGED <<mode, cancelled, handle, awaited, loopVars>>
    /\ UNCHANGED <<wants, isFirst, prepared, asked, logins, lock, overlap, forgotten>>

Resumes(c, done) ==
    /\ \E busy \in BOOLEAN : Cleanup(c, done, busy)
    /\ UNCHANGED <<wants, isFirst, connections, prepared, asked, logins, lock, overlap, forgotten>>

CloseLogin(c) ==
    phase[c] = "closeLogin" /\ awaited[c] \notin logins /\ Resumes(c, {"closeLogin"})

CloseKabu(c) ==
    phase[c] = "closeKabu" /\ awaited[c] \notin logins /\ Resumes(c, {"closeLogin", "closeKabu"})

CloseLoop(c) ==
    phase[c] = "closeLoop" /\ Resumes(c, {"closeLogin", "closeKabu", "closeLoop"})

CloseTasks(c) == phase[c] = "closeTasks" /\ Resumes(c, Closing)

Handshake(c) ==
    \/ Connect(c) \/ HelloFails(c) \/ RefuseFull(c) \/ RefuseMode(c)
    \/ Register(c) \/ Prepare(c) \/ Serve(c) \/ Lose(c)

Command(c) ==
    \/ \E r \in TachibanaRequests : RequestTachibana(c, r)
    \/ \E r \in KabuRequests : RequestKabu(c, r)
    \/ Logout(c)

Login(t) ==
    \/ TakeLoginLock(t) \/ LoginSucceeds(t) \/ LoginFails(t) \/ LoginCancelled(t)
    \/ LoopEnds(t)

Close(c) == CloseLogin(c) \/ CloseKabu(c) \/ CloseLoop(c) \/ CloseTasks(c)

Next ==
    \/ \E c \in Sessions : Handshake(c) \/ Command(c) \/ Leave(c) \/ Close(c)
    \/ \E t \in Logins : Login(t)

Spec == Init /\ [][Next]_vars

(* A cancelled task runs to its end, and a coroutine whose awaited task has
   ended is resumed.  Nothing is assumed of clients, users or the brokers. *)
Fairness ==
    /\ \A t \in Logins : WF_vars(LoginCancelled(t))
    /\ \A c \in Sessions : WF_vars(Close(c))

FairSpec == Spec /\ Fairness

-----------------------------------------------------------------------------
(* Properties. *)

Closes == \E c \in Sessions : phase[c] \in Closing

(* Concurrent handshakes never register more clients than the limit: the
   count is read and the client added under one lock (server_grpc.py:320). *)
WithinCapacity == Cardinality(connections) <= MaxConnections

(* A client that has begun a session is registered until its finally: none
   is served, or awaits its Ready, while the engine thinks it gone, and a
   cleanup that runs was started by the last one.                          *)
ServedRegistered ==
    \A c \in Sessions :
        /\ phase[c] \in Handshaking \cup {"serve", "lost"} => c \in connections
        /\ phase[c] \in {"new", "hello", "closed"} \cup Closing => c \notin connections

(* At most one registered client is the first: the workers are prepared once
   and one login is started for all of them.                               *)
OneFirst ==
    \A c, d \in connections : isFirst[c] /\ isFirst[d] => c = d

(* The set of clients is exact at every await of every handler: within the
   limit, with each client that is served, with one first.                 *)
RegistryExact == WithinCapacity /\ ServedRegistered /\ OneFirst

(* Unless a client was registered while the last one's cleanup still ran,
   all registered clients asked for the mode the engine is in
   (docs/testing/invariants.md:36).                                        *)
OneModeApart == ~overlap => \A c \in connections : wants[c] = mode

(* ... no broker login and no EVENT loop runs while the engine is in replay
   mode, and the engine is not connected, but for the logins of an earlier
   lifecycle that are forgotten: those whose handle another login of their
   venue took or cleared while they ran ...                                *)
NoReplayLoginApart ==
    ~overlap /\ mode = "replay" =>
        /\ logins \cup loops \subseteq forgotten
        /\ live # "DISCONNECTED" => forgotten # {}

(* ... every other login and EVENT loop is the one its handle names, so the
   last client cancels it ...                                              *)
HandledApart ==
    ~overlap =>
        /\ logins \subseteq {handle[v] : v \in Venues} \cup forgotten
        /\ loops \subseteq {eventTask} \cup forgotten

(* ... and when no client is left and no cleanup runs, the engine is as at
   its start but for what was forgotten: no other login or EVENT loop is
   left behind, the live state is DISCONNECTED and any client may choose
   the mode.                                                               *)
PristineApart ==
    ~overlap /\ connections = {} /\ ~Closes =>
        /\ mode = "live" /\ \A v \in Venues : handle[v] = NoLogin
        /\ logins \cup loops \subseteq forgotten
        /\ live # "DISCONNECTED" => forgotten # {}

(* What one lifecycle of clients leaves to the next, as long as none begins
   while the cleanup of the last still runs: one mode for all clients, no
   login in replay mode, none nobody can cancel, and an engine as at its
   start.                                                                  *)
LifecyclesApart == OneModeApart /\ NoReplayLoginApart /\ HandledApart /\ PristineApart

(* Every cleanup ends: nothing it waits for needs a user or the broker. *)
CleanupEnds ==
    \A c \in Sessions : phase[c] \in Closing ~> phase[c] = "closed"

-----------------------------------------------------------------------------
(* The inductive invariant behind the properties above. *)

ClosingAlone ==
    ~overlap /\ Closes =>
        /\ connections = {}
        /\ \A c, d \in Sessions : phase[c] \in Closing /\ phase[d] \in Closing => c = d

(* What a cleanup has passed is gone, but for what was forgotten. *)
PassedApart ==
    ~overlap =>
        \A c \in Sessions :
          /\ phase[c] = "closeLogin" => awaited[c] = handle["tachibana"]
          /\ phase[c] \in {"closeKabu", "closeLoop", "closeTasks"} =>
               /\ handle["tachibana"] = NoLogin
               /\ phase[c] = "closeKabu" => handle["kabu"] \in {awaited[c], NoLogin}
          /\ phase[c] \in {"closeLoop", "closeTasks"} =>
               handle["kabu"] = NoLogin /\ loops \subseteq forgotten

IInv ==
    /\ TypeOK /\ ServedRegistered /\ OneFirst
    /\ OneModeApart /\ NoReplayLoginApart /\ HandledApart /\ PristineApart
    /\ ClosingAlone /\ PassedApart

-----------------------------------------------------------------------------
(* Statements of the documentation that the code does not keep. *)

(* "There is no path on which the Tachibana login flow starts during a
   replay session" (docs/specs/replay.md:30).  A replay client registered
   during the cleanup of the last live client is still in prepare() when the
   cleanup resets the mode to "live".                                      *)
NoLoginForReplay ==
    [][\A c \in Sessions : c \in logins' \ logins => wants[c] # "replay"]_vars

(* "The attach of a live client to an engine that runs in replay mode is
   refused, and the converse" (docs/specs/replay.md:23).                   *)
OneMode == \A c, d \in connections : wants[c] = wants[d]

(* "The task is stored so the _handle finally block can cancel it on
   disconnect" (server.py:4431): no login outlives the last client.  A
   login asked for before the first client is served loses its handle to
   the one that client starts, and goes on when all have left.             *)
NoOrphanLogin == ~overlap /\ connections = {} /\ ~Closes => logins = {}

(* "Before it sends Ready the engine must have completed the initialisation
   of all workers" (docs/specs/data-engine.md:193).  Only the first client
   awaits it; the next one gets its Ready at once.                         *)
ReadyWhenPrepared == \A c \in Sessions : phase[c] = "ready" => prepared

(* "Up to MAX_CONNECTIONS=4 clients can be connected at the same time"
   (docs/specs/data-engine.md:96).  A client lost in its handshake keeps its
   place for ever.                                                         *)
FullMeansFull ==
    \A c \in Sessions :
        phase[c] = "hello" /\ Full
        => Cardinality({d \in Sessions : phase[d] \in Handshaking \cup {"serve"}})
               >= MaxConnections
====
