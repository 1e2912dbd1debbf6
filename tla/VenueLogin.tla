----------------------------- MODULE VenueLogin -----------------------------
(***************************************************************************)
(* The logins of the two Japanese brokers, Tachibana and kabu STATION      *)
(* (python/engine/server.py with tachibana_login_flow.py, tachibana_auth.py, *)
(* kabusapi_login_flow.py and kabusapi.py).                                *)
(*                                                                         *)
(* A login is an asyncio task under the lock of its venue: it shows a      *)
(* dialog, asks the broker, and on its way out writes the state both       *)
(* venues share, _live_state and _connected_venue.  Meanwhile the client   *)
(* may ask for another login, of the same venue or of the other, or log    *)
(* out, an order may find that the kabu STATION token has expired, and the *)
(* last client may leave.                                                  *)
(*                                                                         *)
(* One action is what the event loop runs between two awaits.  The cleanup *)
(* of the last client is one action here; its awaits are the subject of    *)
(* EngineConnections.  TRADING is left out, as no live strategy gets that  *)
(* far, and so are the credentials a developer puts into the environment   *)
(* instead of a dialog.                                                    *)
(***************************************************************************)
EXTENDS Naturals

CONSTANTS
    MaxLogins,    \* bound: login tasks of one behaviour
    MaxTries,     \* attempts of one login: 3 for either venue
    NoLogin, NoVenue, Tachibana, Kabu

ASSUME LoginAssumption ==
    /\ MaxLogins \in Nat /\ MaxTries \in Nat \ {0}
    /\ NoLogin \notin 1 .. MaxLogins
    /\ Tachibana # Kabu /\ NoVenue \notin {Tachibana, Kabu}

Logins == 1 .. MaxLogins
Venues == {Tachibana, Kabu}

(* created: waits for the lock; validate: asks whether the cached session is
   still good; dialog, call: waits for the user, for the broker.           *)
Holding == {"validate", "dialog", "call"}
Steps == {"none", "created", "ended"} \cup Holding

VARIABLES
    mode,         \* _mode
    served,       \* some client is connected
    live,         \* _live_state
    connected,    \* _connected_venue
    session,      \* _tachibana_session is not None
    cache,        \* tachibana_session.json holds a session of this day
    latched,      \* _done of _tachibana_startup_latch
    killed,       \* os._exit(2) was called
    made,         \* login tasks made so far
    venue,        \* the venue of each login task
    step,         \* where it is
    tries,        \* its attempts so far
    startupTask,  \* _tachibana_startup_task
    kabuTask,     \* _kabu_startup_task
    loops,        \* EVENT loops that run, named by their login
    eventTask,    \* _event_task
    kabuVenue,    \* _kabu_venue: the object, named by the login that made it
    object,       \* the object each login of kabu STATION logs in with
    tokens,       \* objects that hold a token
    push,         \* _kabu_push_task
    order,        \* an order of kabu STATION awaits its answer
    cleared,      \* history: logins under way when _clear_kabu_session ran
    astray        \* history: the last login of kabu STATION to succeed is one

clientVars == <<mode, served>>
stateVars == <<live, connected>>
taskVars == <<made, venue, step, tries, startupTask, kabuTask>>
tachibanaVars == <<session, cache, latched, killed, loops, eventTask>>
historyVars == <<cleared, astray>>
kabuVars == <<kabuVenue, object, tokens, push, order, historyVars>>
vars == <<clientVars, stateVars, taskVars, tachibanaVars, kabuVars>>

LoginOrNone == Logins \cup {NoLogin}

TypeOK ==
    /\ mode \in {"live", "replay"}
    /\ served \in BOOLEAN
    /\ live \in {"DISCONNECTED", "CONNECTING", "CONNECTED"}
    /\ connected \in {NoVenue, Tachibana, Kabu}
    /\ session \in BOOLEAN /\ cache \in BOOLEAN
    /\ latched \in BOOLEAN /\ killed \in BOOLEAN
    /\ made \in 0 .. MaxLogins
    /\ venue \in [Logins -> Venues]
    /\ step \in [Logins -> Steps]
    /\ tries \in [Logins -> 0 .. MaxTries]
    /\ startupTask \in LoginOrNone /\ kabuTask \in LoginOrNone
    /\ loops \in SUBSET Logins
    /\ eventTask \in LoginOrNone
    /\ kabuVenue \in LoginOrNone
    /\ object \in [Logins -> LoginOrNone]
    /\ tokens \in SUBSET Logins
    /\ push \in {"none", "running", "dead"}
    /\ order \in BOOLEAN
    /\ cleared \in SUBSET Logins /\ astray \in BOOLEAN

(* The engine starts without a client; a session of an earlier run of this
   day may be in its file.                                                 *)
Init ==
    /\ mode = "live" /\ served = FALSE
    /\ live = "DISCONNECTED" /\ connected = NoVenue
    /\ session = FALSE /\ cache \in BOOLEAN /\ latched = FALSE /\ killed = FALSE
    /\ made = 0
    /\ venue = [t \in Logins |-> Tachibana]
    /\ step = [t \in Logins |-> "none"]
    /\ tries = [t \in Logins |-> 0]
    /\ startupTask = NoLogin /\ kabuTask = NoLogin
    /\ loops = {} /\ eventTask = NoLogin
    /\ kabuVenue = NoLogin /\ object = [t \in Logins |-> NoLogin] /\ tokens = {}
    /\ push = "none" /\ order = FALSE
    /\ cleared = {} /\ astray = FALSE

(* _tachibana_login_inflight or _kabu_login_inflight is held.  A task that
   was created and has not run yet holds nothing.                          *)
Locked(v) == \E t \in Logins : venue[t] = v /\ step[t] \in Holding

(* asyncio.create_task of a login of v. *)
Create(v) ==
    /\ made < MaxLogins
    /\ made' = made + 1
    /\ venue' = [venue EXCEPT ![made + 1] = v]
    /\ step' = [step EXCEPT ![made + 1] = "created"]
    /\ tries' = [tries EXCEPT ![made + 1] = 0]

NoNewTask == UNCHANGED <<made, venue, step, tries, startupTask, kabuTask>>

-----------------------------------------------------------------------------
(* Clients. *)

(* The first client fixes the mode; in live mode it starts the login of
   Tachibana, which leaves _live_state as it is.                           *)
FirstLiveClient ==
    /\ ~killed /\ ~served
    /\ served' = TRUE /\ mode' = "live"
    /\ Create(Tachibana)
    /\ startupTask' = made + 1
    /\ UNCHANGED <<kabuTask, stateVars, tachibanaVars, kabuVars>>

FirstReplayClient ==
    /\ ~killed /\ ~served
    /\ served' = TRUE /\ mode' = "replay"
    /\ UNCHANGED <<stateVars, taskVars, tachibanaVars, kabuVars>>

(* The tasks the cleanup finds in its handles are cancelled, every other
   task goes on; the session, the venue object and the push task stay.     *)
LastClientLeaves ==
    /\ ~killed /\ served
    /\ served' = FALSE /\ mode' = "live"
    /\ step' = [t \in Logins |-> IF t \in {startupTask, kabuTask} THEN "ended" ELSE step[t]]
    /\ startupTask' = NoLogin /\ kabuTask' = NoLogin
    /\ loops' = loops \ {eventTask} /\ eventTask' = NoLogin
    /\ latched' = FALSE
    /\ live' = "DISCONNECTED" /\ connected' = NoVenue
    /\ order' = FALSE
    /\ UNCHANGED <<made, venue, tries, session, cache, killed,
                   kabuVenue, object, tokens, push, historyVars>>

-----------------------------------------------------------------------------
(* RequestVenueLogin and RequestVenueLogout. *)

(* Faulty variant: the EVENT loop of the old session is left running. *)
LoopLeftRunning ==
    /\ ~killed /\ served /\ mode = "live"
    /\ live = "CONNECTED"
    /\ IF Locked(Tachibana)
       THEN /\ live' = "DISCONNECTED"
            /\ NoNewTask
            /\ UNCHANGED <<session, cache>>
       ELSE /\ session' = FALSE /\ cache' = FALSE
            /\ live' = "CONNECTING"
            /\ Create(Tachibana)
            /\ startupTask' = made + 1
            /\ UNCHANGED kabuTask
    /\ eventTask' = NoLogin
    /\ UNCHANGED <<clientVars, connected, latched, killed, loops, kabuVars>>

(* A login while connected drops the session and cancels the EVENT loop; if
   a login of Tachibana is under way already, it is not started twice.     *)
TachibanaAgain ==
    /\ ~killed /\ served /\ mode = "live"
    /\ live = "CONNECTED"
    /\ loops' = loops \ {eventTask}
    /\ IF Locked(Tachibana)
       THEN /\ live' = "DISCONNECTED"
            /\ NoNewTask
            /\ UNCHANGED <<session, cache>>
       ELSE /\ session' = FALSE /\ cache' = FALSE
            /\ live' = "CONNECTING"
            /\ Create(Tachibana)
            /\ startupTask' = made + 1
            /\ UNCHANGED kabuTask
    /\ UNCHANGED <<clientVars, connected, latched, killed, eventTask, kabuVars>>

TachibanaFresh ==
    /\ ~killed /\ served /\ mode = "live"
    /\ live = "DISCONNECTED" /\ ~Locked(Tachibana)
    /\ session' = FALSE /\ cache' = FALSE
    /\ live' = "CONNECTING"
    /\ Create(Tachibana)
    /\ startupTask' = made + 1
    /\ UNCHANGED <<clientVars, connected, latched, killed, kabuTask, loops, eventTask, kabuVars>>

(* A login of kabu STATION while connected drops the session of Tachibana
   only if that is the venue the engine is connected to.                   *)
KabuAgain ==
    /\ ~killed /\ served /\ mode = "live"
    /\ live = "CONNECTED"
    /\ loops' = IF connected = Tachibana THEN loops \ {eventTask} ELSE loops
    /\ session' = (session /\ connected # Tachibana)
    /\ cache' = (cache /\ connected # Tachibana)
    /\ tokens' = tokens \ {kabuVenue}
    /\ connected' = NoVenue
    /\ IF Locked(Kabu)
       THEN live' = "DISCONNECTED" /\ NoNewTask
       ELSE /\ live' = "CONNECTING"
            /\ Create(Kabu)
            /\ kabuTask' = made + 1
            /\ UNCHANGED startupTask
    /\ UNCHANGED <<clientVars, latched, killed, eventTask, kabuVenue, object, push, order,
                   historyVars>>

(* A login of Tachibana under way does not keep one of kabu STATION from
   starting.                                                               *)
KabuFresh ==
    /\ ~killed /\ served /\ mode = "live"
    /\ live # "CONNECTED" /\ ~Locked(Kabu)
    /\ live' = "CONNECTING"
    /\ Create(Kabu)
    /\ kabuTask' = made + 1
    /\ UNCHANGED <<clientVars, connected, startupTask, tachibanaVars, kabuVars>>

(* Only Tachibana has a logout; a login under way is not cancelled. *)
Logout ==
    /\ ~killed /\ served
    /\ session' = FALSE /\ cache' = FALSE
    /\ loops' = loops \ {eventTask} /\ eventTask' = NoLogin
    /\ connected' = NoVenue /\ live' = "DISCONNECTED"
    /\ UNCHANGED <<clientVars, taskVars, latched, killed, kabuVars>>

-----------------------------------------------------------------------------
(* A login of Tachibana: _startup_tachibana with startup_login. *)

At(t, v, s) == ~killed /\ venue[t] = v /\ step[t] = s
Goes(t, s) == step' = [step EXCEPT ![t] = s]
SameTasks == UNCHANGED <<made, venue, startupTask, kabuTask>>

(* Faulty variant: the state is left to the login's caller. *)
FailsUntold(t) ==
    /\ Goes(t, "ended")
    /\ SameTasks
    /\ UNCHANGED <<clientVars, stateVars, tries>>

(* Each failure is written to the state both venues share. *)
Fails(t) ==
    /\ Goes(t, "ended")
    /\ live' = "DISCONNECTED"
    /\ SameTasks
    /\ UNCHANGED <<clientVars, connected, tries>>

(* The lock is free, and the cached session is looked at: the latch lets one
   login of a connection validate it, and a second one ends the process.   *)
TakeTachibanaLock(t) ==
    /\ At(t, Tachibana, "created") /\ ~Locked(Tachibana)
    /\ \/ ~cache /\ Goes(t, "dialog") /\ UNCHANGED <<latched, killed, cache>>
       \/ cache /\ ~latched /\ Goes(t, "validate")
          /\ latched' = TRUE /\ UNCHANGED <<killed, cache>>
       \/ cache /\ latched /\ Goes(t, "ended")
          /\ killed' = TRUE /\ cache' = FALSE /\ UNCHANGED latched
    /\ SameTasks
    /\ UNCHANGED <<clientVars, stateVars, tries, session, loops, eventTask, kabuVars>>

(* The session is applied, and its EVENT loop replaces the one before. *)
Succeeds(t) ==
    /\ Goes(t, "ended")
    /\ session' = TRUE
    /\ live' = "CONNECTED" /\ connected' = Tachibana
    /\ loops' = (loops \ {eventTask}) \cup {t}
    /\ eventTask' = t
    /\ SameTasks
    /\ UNCHANGED <<clientVars, tries, latched, killed, kabuVars>>

Validated(t) == At(t, Tachibana, "validate") /\ Succeeds(t) /\ UNCHANGED cache

(* The broker no longer knows the cached session: the user is asked. *)
CacheRejected(t) ==
    /\ At(t, Tachibana, "validate")
    /\ cache' = FALSE
    /\ Goes(t, "dialog")
    /\ SameTasks
    /\ UNCHANGED <<clientVars, stateVars, tries, session, latched, killed, loops, eventTask, kabuVars>>

(* Any other failure, as no network, ends the login. *)
ValidateFails(t) ==
    /\ At(t, Tachibana, "validate") /\ Fails(t)
    /\ UNCHANGED <<tachibanaVars, kabuVars>>

(* The helper process of the dialog answers with the credentials; after ten
   minutes it is killed.                                                   *)
DialogAnswered(t) ==
    /\ At(t, Tachibana, "dialog") /\ Goes(t, "call")
    /\ SameTasks
    /\ UNCHANGED <<clientVars, stateVars, tries, tachibanaVars, kabuVars>>

DialogEnds(t) ==
    /\ At(t, Tachibana, "dialog") /\ Fails(t)
    /\ UNCHANGED <<tachibanaVars, kabuVars>>

LoggedIn(t) == At(t, Tachibana, "call") /\ cache' = TRUE /\ Succeeds(t)

(* A refused password asks again, MaxTries times in all. *)
PasswordRefused(t) ==
    /\ At(t, Tachibana, "call")
    /\ tries[t] + 1 < MaxTries
    /\ tries' = [tries EXCEPT ![t] = @ + 1]
    /\ Goes(t, "dialog")
    /\ SameTasks
    /\ UNCHANGED <<clientVars, stateVars, tachibanaVars, kabuVars>>

(* The last attempt is refused, or notices must be read first. *)
LoginFails(t) ==
    /\ At(t, Tachibana, "call") /\ Fails(t)
    /\ UNCHANGED <<tachibanaVars, kabuVars>>

(* An EVENT loop gives up reconnecting, or its task ends otherwise. *)
LoopEnds(t) ==
    /\ ~killed /\ t \in loops
    /\ loops' = loops \ {t}
    /\ UNCHANGED <<clientVars, stateVars, taskVars, session, cache, latched, killed, eventTask, kabuVars>>

(* The Japanese day ends, after which the cached session is not fresh. *)
CacheStale ==
    /\ ~killed /\ cache
    /\ cache' = FALSE
    /\ UNCHANGED <<clientVars, stateVars, taskVars, session, latched, killed, loops, eventTask, kabuVars>>

-----------------------------------------------------------------------------
(* A login of kabu STATION: _startup_kabu_station. *)

(* The object is made if there is none, and is the one this login uses,
   whatever _kabu_venue is by then.                                        *)
TakeKabuLock(t) ==
    /\ At(t, Kabu, "created") /\ ~Locked(Kabu)
    /\ kabuVenue' = IF kabuVenue = NoLogin THEN t ELSE kabuVenue
    /\ object' = [object EXCEPT ![t] = kabuVenue']
    /\ Goes(t, "dialog")
    /\ SameTasks
    /\ UNCHANGED <<clientVars, stateVars, tries, tachibanaVars, tokens, push, order,
                   historyVars>>

KabuAnswered(t) ==
    /\ At(t, Kabu, "dialog") /\ Goes(t, "call")
    /\ SameTasks
    /\ UNCHANGED <<clientVars, stateVars, tries, tachibanaVars, kabuVars>>

(* The `finally` clears the handle, whichever task it names. *)
KabuLoginFails(t) ==
    /\ At(t, Kabu, "dialog") \/ At(t, Kabu, "call")
    /\ Goes(t, "ended")
    /\ live' = "DISCONNECTED"
    /\ kabuTask' = NoLogin
    /\ UNCHANGED <<clientVars, connected, made, venue, tries, startupTask, tachibanaVars, kabuVars>>

(* The station refuses the connection: another attempt in five seconds. *)
KabuDown(t) ==
    /\ At(t, Kabu, "call")
    /\ tries[t] + 1 < MaxTries
    /\ tries' = [tries EXCEPT ![t] = @ + 1]
    /\ UNCHANGED <<clientVars, stateVars, made, venue, step, startupTask, kabuTask,
                   tachibanaVars, kabuVars>>

KabuLoggedIn(t) ==
    /\ At(t, Kabu, "call")
    /\ Goes(t, "ended")
    /\ tokens' = tokens \cup {object[t]}
    /\ live' = "CONNECTED" /\ connected' = Kabu
    /\ push' = "running"
    /\ kabuTask' = NoLogin
    /\ astray' = (t \in cleared)
    /\ UNCHANGED <<clientVars, made, venue, tries, startupTask, tachibanaVars,
                   kabuVenue, object, order, cleared>>

(* An order is sent while connected to either venue; all that is asked of
   kabu STATION is that its object is there, with a token.                 *)
KabuOrder ==
    /\ ~killed /\ served /\ mode = "live"
    /\ live = "CONNECTED" /\ kabuVenue \in tokens
    /\ order' = TRUE
    /\ UNCHANGED <<clientVars, stateVars, taskVars, tachibanaVars, kabuVenue, object, tokens, push,
                   historyVars>>

KabuOrderAnswered ==
    /\ ~killed /\ order
    /\ order' = FALSE
    /\ UNCHANGED <<clientVars, stateVars, taskVars, tachibanaVars, kabuVenue, object, tokens, push,
                   historyVars>>

(* Faulty variant: the engine goes on saying that it is connected. *)
ClearLeavesLive ==
    /\ ~killed /\ order
    /\ order' = FALSE
    /\ tokens' = tokens \ {kabuVenue}
    /\ kabuVenue' = NoLogin
    /\ push' = "none"
    /\ cleared' = cleared \cup {t \in Logins : venue[t] = Kabu /\ step[t] \in Holding}
    /\ UNCHANGED <<clientVars, stateVars, taskVars, tachibanaVars, object, astray>>

(* Its token has expired or the station is gone: _clear_kabu_session, also
   when the engine is connected to Tachibana or logs in again.             *)
ClearKabuSession ==
    /\ ~killed /\ order
    /\ order' = FALSE
    /\ tokens' = tokens \ {kabuVenue}
    /\ kabuVenue' = NoLogin
    /\ push' = "none"
    /\ connected' = NoVenue /\ live' = "DISCONNECTED"
    /\ cleared' = cleared \cup {t \in Logins : venue[t] = Kabu /\ step[t] \in Holding}
    /\ UNCHANGED <<clientVars, taskVars, tachibanaVars, object, astray>>

(* The push task gives up after MAX_RECONNECT_ATTEMPTS failures in a row. *)
PushDies ==
    /\ ~killed /\ push = "running"
    /\ push' = "dead"
    /\ UNCHANGED <<clientVars, stateVars, taskVars, tachibanaVars, kabuVenue, object, tokens, order,
                   historyVars>>

-----------------------------------------------------------------------------
TachibanaStep(t) ==
    \/ TakeTachibanaLock(t) \/ Validated(t) \/ CacheRejected(t) \/ ValidateFails(t)
    \/ DialogAnswered(t) \/ DialogEnds(t)
    \/ LoggedIn(t) \/ PasswordRefused(t) \/ LoginFails(t)

KabuStep(t) ==
    \/ TakeKabuLock(t) \/ KabuAnswered(t) \/ KabuLoginFails(t)
    \/ KabuDown(t) \/ KabuLoggedIn(t)

Commands ==
    \/ FirstLiveClient \/ FirstReplayClient \/ LastClientLeaves
    \/ TachibanaAgain \/ TachibanaFresh \/ KabuAgain \/ KabuFresh \/ Logout
    \/ KabuOrder

Next ==
    \/ Commands
    \/ CacheStale \/ KabuOrderAnswered \/ ClearKabuSession \/ PushDies
    \/ \E t \in Logins : TachibanaStep(t) \/ KabuStep(t) \/ LoopEnds(t)

Spec == Init /\ [][Next]_vars

(* The loop runs what is ready, the broker answers or times out, and the
   dialogs are answered, dismissed or, that of Tachibana, killed after ten
   minutes.                                                                *)
FairSpec == Spec /\ \A t \in Logins : WF_vars(TachibanaStep(t)) /\ WF_vars(KabuStep(t))

-----------------------------------------------------------------------------
(* Properties. *)

(* While the engine says it is connected, the venue it names has what its
   commands need (server.py:1432, 2026): Tachibana a session, kabu STATION
   its object with a token, and a push task, which is gone only if it gave up
   by itself; whatever logins of both venues, a logout and an expired token
   did before.  Only a login of kabu STATION under way while an order cleared
   its session ends connected without one (KabuHasVenue).                  *)
ConnectedIsUsable ==
    live = "CONNECTED" =>
        \/ connected = Tachibana /\ session
        \/ connected = Kabu /\ push # "none" /\ (kabuVenue \in tokens \/ astray)

(* The one EVENT loop that runs is the one a logout, a new login or the last
   client can cancel: no order event arrives through a second connection.  *)
OneEventLoop == loops \subseteq {eventTask}

(* The client's "connecting" ends: however logins, logouts and failures of
   both venues overlap, the engine does not refuse logins for ever.        *)
ConnectingEnds == live = "CONNECTING" ~> (live # "CONNECTING" \/ killed)

-----------------------------------------------------------------------------
(* Refuted. *)

(* server.py says that a login cancels the old EVENT loop lest it goes on
   receiving order events of the old session if the new login fails: an
   EVENT loop only runs for the session the engine has.                    *)
NoGhostLoop == loops # {} => session

(* A venue the engine is connected to is not given up because a login of
   the other venue failed.                                                 *)
OtherVenueKeeps ==
    [][\A t \in Logins : served' /\ step[t] \in Holding /\ step'[t] = "ended" /\ live' = "DISCONNECTED"
            => ~(live = "CONNECTED" /\ connected # venue[t])]_vars

(* Connected to kabu STATION, its object is there for orders. *)
KabuHasVenue == live = "CONNECTED" /\ connected = Kabu => kabuVenue # NoLogin

(* The latch never ends the process. *)
NeverKilled == ~killed

(* Without a client no login is under way. *)
NoOrphanLogin == ~served => \A t \in Logins : step[t] \notin Holding \cup {"created"}
=============================================================================
