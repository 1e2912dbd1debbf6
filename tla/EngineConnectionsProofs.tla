---------------------- MODULE EngineConnectionsProofs ----------------------
(* Proofs about EngineConnections, for every set of sessions and requests and
   every limit.  IInv is inductive: one lemma per kind of step, the cleanup
   split by the place where it suspends next.                               *)
EXTENDS EngineConnections, FiniteSetTheorems, TLAPS

USE DEF Phases, Modes, Handshaking, Closing, Venues, Requests, Logins, LoginOrNone

(* The conjuncts that speak only of behaviours without overlap. *)
Apart ==
    /\ OneModeApart /\ NoReplayLoginApart /\ HandledApart /\ PristineApart
    /\ ClosingAlone /\ PassedApart

LEMMA ApartDef == IInv <=> TypeOK /\ ServedRegistered /\ OneFirst /\ Apart
BY DEF IInv, Apart

LEMMA OverlapApart == overlap => Apart
BY DEF Apart, OneModeApart, NoReplayLoginApart, HandledApart, PristineApart,
    ClosingAlone, PassedApart

LEMMA InitIInv == Init => IInv
BY ConnectionsAssumption
DEF Init, IInv, TypeOK, ServedRegistered, OneFirst, OneModeApart, NoReplayLoginApart,
    HandledApart, PristineApart, ClosingAlone, PassedApart, Closes

(* A login belongs to one venue, and a task that runs is no empty handle. *)
LEMMA VenueType == ASSUME NEW t PROVE VenueOf(t) \in Venues
BY DEF VenueOf

LEMMA NoLoginIsNone == NoLogin \notin Logins
BY ConnectionsAssumption

(* What a step leaves of the parts that depend on the phases only. *)
LEMMA ClosesSame ==
    ASSUME phase' = phase
    PROVE  Closes' = Closes
BY DEF Closes

(* A step of a session that is not registered disturbs nothing. *)
LEMMA OutsideIInv ==
    ASSUME NEW c \in Sessions, IInv, Connect(c) \/ HelloFails(c) \/ RefuseFull(c) \/ RefuseMode(c)
    PROVE  IInv'
<1>1. /\ phase[c] \in {"new", "hello"} /\ phase'[c] \in {"hello", "closed"}
      /\ phase' \in [Sessions -> Phases]
      /\ \A d \in Sessions : d # c => phase'[d] = phase[d]
      /\ UNCHANGED <<isFirst, connections, mode, prepared, taskVars, awaited, loopVars,
                     overlap, forgotten>>
  BY DEF Connect, HelloFails, RefuseFull, RefuseMode, Moves, IInv, TypeOK
<1>2. /\ wants' \in [Sessions -> Modes]
      /\ \A d \in Sessions : d # c => wants'[d] = wants[d]
  BY DEF Connect, HelloFails, RefuseFull, RefuseMode, IInv, TypeOK
<1>3. c \notin connections
  BY <1>1 DEF IInv, ServedRegistered
<1>4. Closes' = Closes
  BY <1>1 DEF Closes
<1>5. TypeOK' /\ ServedRegistered' /\ OneFirst'
  BY <1>1, <1>2, <1>3 DEF IInv, TypeOK, ServedRegistered, OneFirst, taskVars, loopVars
<1>6. OneModeApart'
  BY <1>1, <1>2, <1>3 DEF IInv, TypeOK, OneModeApart
<1>7. NoReplayLoginApart' /\ HandledApart' /\ PristineApart'
  BY <1>1, <1>4 DEF IInv, NoReplayLoginApart, HandledApart, PristineApart, taskVars, loopVars
<1>8. ClosingAlone' /\ PassedApart'
  BY <1>1, <1>4 DEF IInv, ClosingAlone, PassedApart, taskVars, loopVars
<1> QED
  BY <1>5, <1>6, <1>7, <1>8 DEF IInv

(* A first client finds the engine pristine, or overlap is set. *)
LEMMA RegisterIInv == ASSUME NEW c \in Sessions, IInv, Register(c) PROVE IInv'
<1>1. /\ c \notin connections /\ phase' \in [Sessions -> Phases]
      /\ \A d \in Sessions : d # c => phase'[d] = phase[d]
      /\ phase'[c] = IF connections = {} THEN "prepare" ELSE "ready"
  BY DEF IInv, TypeOK, ServedRegistered, Register, Moves
<1>2. /\ isFirst' \in [Sessions -> BOOLEAN]
      /\ isFirst'[c] = (connections = {})
      /\ \A d \in Sessions : d # c => isFirst'[d] = isFirst[d]
  BY DEF IInv, TypeOK, Register
<1>3. TypeOK'
  BY <1>1, <1>2 DEF IInv, TypeOK, Register, taskVars, loopVars
<1>4. ServedRegistered'
  BY <1>1 DEF IInv, TypeOK, ServedRegistered, Register
<1>5. OneFirst'
  <2> SUFFICES ASSUME NEW d \in connections', NEW e \in connections', isFirst'[d], isFirst'[e]
               PROVE  d = e
    BY DEF OneFirst
  <2>1. connections' = connections \cup {c} /\ connections \subseteq Sessions
    BY DEF Register, IInv, TypeOK
  <2>2. CASE connections = {}
    BY <2>1, <2>2
  <2>3. CASE connections # {}
    <3>1. ~isFirst'[c]
      BY <1>2, <2>3
    <3>2. d # c /\ e # c
      BY <3>1
    <3> QED
      BY <1>2, <2>1, <3>2 DEF IInv, OneFirst
  <2> QED
    BY <2>2, <2>3
<1>6. CASE overlap'
  BY <1>3, <1>4, <1>5, <1>6, ApartDef, OverlapApart, PTL
<1>7. CASE ~overlap'
  <2>1. ~overlap /\ ~Closes
    BY <1>7 DEF Register, IInv, TypeOK, Closes
  <2>2. ~Closes'
    BY <1>1, <2>1 DEF Closes
  <2>3. connections = {} => /\ mode = "live" /\ logins \cup loops \subseteq forgotten
                            /\ live # "DISCONNECTED" => forgotten # {}
    BY <2>1 DEF IInv, PristineApart
  <2>4. mode' = wants[c] /\ wants' = wants /\ (connections # {} => mode' = mode)
    BY <2>3 DEF Register, ModeAccepted
  <2>5. /\ UNCHANGED <<taskVars, awaited, loopVars, forgotten>>
        /\ connections' = connections \cup {c}
    BY DEF Register
  <2>6. OneModeApart' /\ NoReplayLoginApart' /\ HandledApart'
    BY <2>1, <2>3, <2>4, <2>5
    DEF IInv, OneModeApart, NoReplayLoginApart, HandledApart, taskVars, loopVars
  <2>7. PristineApart' /\ ClosingAlone'
    BY <2>2, <2>5 DEF PristineApart, ClosingAlone
  <2>8. PassedApart'
    BY <2>2 DEF PassedApart, Closes
  <2> QED
    BY <1>3, <1>4, <1>5, <2>6, <2>7, <2>8 DEF IInv
<1> QED
  BY <1>6, <1>7

LEMMA ReadyIInv ==
    ASSUME NEW c \in Sessions, IInv, Prepare(c) \/ Lose(c)
    PROVE  IInv'
<1>1. /\ phase[c] \in Handshaking /\ phase'[c] \in {"ready", "lost"}
      /\ phase' \in [Sessions -> Phases]
      /\ \A d \in Sessions : d # c => phase'[d] = phase[d]
      /\ prepared' \in BOOLEAN
      /\ UNCHANGED <<wants, isFirst, connections, mode, taskVars, awaited, loopVars,
                     overlap, forgotten>>
  BY DEF Prepare, Lose, Moves, IInv, TypeOK
<1>2. Closes' = Closes
  BY <1>1 DEF Closes
<1>3. TypeOK' /\ ServedRegistered' /\ OneFirst'
  BY <1>1 DEF IInv, TypeOK, ServedRegistered, OneFirst, taskVars, loopVars
<1>4. OneModeApart' /\ NoReplayLoginApart' /\ HandledApart' /\ PristineApart'
  BY <1>1, <1>2 DEF IInv, OneModeApart, NoReplayLoginApart, HandledApart, PristineApart,
     taskVars, loopVars
<1>5. ClosingAlone' /\ PassedApart'
  BY <1>1, <1>2 DEF IInv, ClosingAlone, PassedApart, taskVars, loopVars
<1> QED
  BY <1>3, <1>4, <1>5 DEF IInv

(* A login that is created is named by its handle; the one that was named
   before is forgotten if it runs.                                          *)
LEMMA CreateHandled ==
    ASSUME IInv, NEW t \in Logins, CreateLogin(t), ~overlap
    PROVE  /\ logins' \in SUBSET Logins /\ handle' \in [Venues -> LoginOrNone]
           /\ forgotten' \in SUBSET Logins /\ forgotten \subseteq forgotten'
           /\ logins' \subseteq {handle'[v] : v \in Venues} \cup forgotten'
<1>1. VenueOf(t) \in Venues
  BY VenueType
<1>2. TypeOK /\ logins \subseteq {handle[v] : v \in Venues} \cup forgotten
  BY DEF IInv, HandledApart
<1>3. /\ logins' = logins \cup {t} /\ handle' = [handle EXCEPT ![VenueOf(t)] = t]
      /\ forgotten' = forgotten \cup ({handle[VenueOf(t)]} \cap logins)
  BY DEF CreateLogin
<1>4. handle'[VenueOf(t)] = t /\ \A v \in Venues : v # VenueOf(t) => handle'[v] = handle[v]
  BY <1>1, <1>2, <1>3 DEF TypeOK
<1>5. ASSUME NEW l \in logins' PROVE l \in {handle'[v] : v \in Venues} \cup forgotten'
  <2>1. CASE l = t
    BY <1>1, <1>4, <2>1
  <2>2. CASE l \in forgotten
    BY <1>3, <2>2
  <2>3. CASE l \in logins /\ l \notin forgotten
    <3>1. PICK v \in Venues : l = handle[v]
      BY <1>2, <2>3
    <3> QED
      BY <1>3, <1>4, <2>3, <3>1
  <2> QED
    BY <1>3, <2>1, <2>2, <2>3
<1> QED
  BY <1>2, <1>3, <1>5 DEF TypeOK

LEMMA CreateType ==
    ASSUME TypeOK, NEW t \in Logins, CreateLogin(t)
    PROVE  /\ logins' \in SUBSET Logins /\ handle' \in [Venues -> LoginOrNone]
           /\ forgotten' \in SUBSET Logins
BY VenueType DEF CreateLogin, TypeOK

LEMMA ServeIInv == ASSUME NEW c \in Sessions, IInv, Serve(c) PROVE IInv'
<1>1. /\ phase[c] = "ready" /\ phase'[c] = "serve" /\ phase' \in [Sessions -> Phases]
      /\ \A d \in Sessions : d # c => phase'[d] = phase[d]
      /\ UNCHANGED <<wants, isFirst, connections, mode, prepared, asked, lock, cancelled,
                     awaited, loopVars, overlap>>
  BY DEF Serve, Moves, IInv, TypeOK
<1>2. Closes' = Closes /\ c \in connections
  BY <1>1 DEF Closes, IInv, ServedRegistered
<1>3. \/ CreateLogin(c) /\ mode # "replay"
      \/ NoNewLogin
  BY DEF Serve, StartsLogin
<1>4. TypeOK'
  BY <1>1, <1>3, CreateType DEF IInv, TypeOK, NoNewLogin, loopVars
<1>5. ServedRegistered' /\ OneFirst'
  BY <1>1 DEF IInv, ServedRegistered, OneFirst
<1>6. CASE overlap'
  BY <1>4, <1>5, <1>6, ApartDef, OverlapApart, PTL
<1>7. CASE ~overlap'
  <2>1. ~overlap /\ ~Closes /\ connections # {}
    BY <1>1, <1>2, <1>7 DEF IInv, ClosingAlone
  <2>2. HandledApart' /\ NoReplayLoginApart'
    <3>1. CASE NoNewLogin
      BY <1>1, <3>1 DEF IInv, HandledApart, NoReplayLoginApart, NoNewLogin, loopVars
    <3>2. CASE CreateLogin(c) /\ mode # "replay"
      BY <1>1, <2>1, <3>2, CreateHandled DEF IInv, HandledApart, NoReplayLoginApart, loopVars
    <3> QED
      BY <1>3, <3>1, <3>2
  <2>3. OneModeApart' /\ PristineApart' /\ ClosingAlone' /\ PassedApart'
    BY <1>1, <1>2, <2>1 DEF IInv, OneModeApart, PristineApart, ClosingAlone, PassedApart, Closes
  <2> QED
    BY <1>4, <1>5, <2>2, <2>3 DEF IInv
<1> QED
  BY <1>6, <1>7

(* A command is served while its client is registered, so no cleanup runs. *)
LEMMA CommandIInv == ASSUME NEW c \in Sessions, IInv, Command(c) PROVE IInv'
<1>1. /\ phase[c] = "serve" /\ c \in connections
      /\ UNCHANGED <<phase, wants, isFirst, connections, mode, prepared, lock, cancelled,
                     awaited, overlap>>
  BY DEF Command, RequestTachibana, RequestKabu, Logout, sessionVars, taskVars, IInv,
     ServedRegistered
<1>2. /\ loops' \subseteq loops
      /\ \/ eventTask' = eventTask
         \/ eventTask' = NoLogin /\ loops' = loops \ {eventTask}
  BY DEF Command, RequestTachibana, RequestKabu, Logout
<1>3. \/ \E t \in Logins : CreateLogin(t) /\ mode # "replay"
      \/ NoNewLogin
  BY DEF Command, RequestTachibana, RequestKabu, Logout, NoNewLogin, taskVars
<1>4. mode = "replay" => live' = "DISCONNECTED"
  BY DEF Command, RequestTachibana, RequestKabu, Logout
<1>5. TypeOK'
  <2>1. /\ logins' \in SUBSET Logins /\ handle' \in [Venues -> LoginOrNone]
        /\ forgotten' \in SUBSET Logins
    BY <1>3, CreateType DEF IInv, TypeOK, NoNewLogin
  <2>2. /\ asked' \in SUBSET Requests
        /\ live' \in {"DISCONNECTED", "CONNECTING", "CONNECTED"}
        /\ venue' \in Venues \cup {"none"}
    BY DEF Command, RequestTachibana, RequestKabu, Logout, IInv, TypeOK, taskVars
  <2> QED
    BY <1>1, <1>2, <2>1, <2>2 DEF IInv, TypeOK
<1>6. ServedRegistered' /\ OneFirst'
  BY <1>1 DEF IInv, ServedRegistered, OneFirst
<1>7. CASE overlap'
  BY <1>5, <1>6, <1>7, ApartDef, OverlapApart, PTL
<1>8. CASE ~overlap'
  <2>1. ~overlap /\ ~Closes /\ connections # {} /\ ~Closes'
    BY <1>1, <1>8, ClosesSame DEF IInv, ClosingAlone
  <2>2. forgotten \subseteq forgotten' /\ logins' \subseteq {handle'[v] : v \in Venues} \cup forgotten'
    <3>1. CASE NoNewLogin
      BY <2>1, <3>1 DEF IInv, HandledApart, NoNewLogin
    <3>2. CASE \E t \in Logins : CreateLogin(t) /\ mode # "replay"
      BY <2>1, <3>2, CreateHandled
    <3> QED
      BY <1>3, <3>1, <3>2
  <2>3. loops' \subseteq {eventTask'} \cup forgotten'
    BY <1>2, <2>1, <2>2 DEF IInv, HandledApart
  <2>4. HandledApart'
    BY <2>2, <2>3 DEF HandledApart
  <2>5. NoReplayLoginApart'
    <3> SUFFICES ASSUME mode = "replay"
                 PROVE  logins' \cup loops' \subseteq forgotten' /\ live' = "DISCONNECTED"
      BY <1>1 DEF NoReplayLoginApart
    <3>1. NoNewLogin
      BY <1>3
    <3> QED
      BY <1>2, <1>4, <2>1, <3>1 DEF IInv, NoReplayLoginApart, NoNewLogin
  <2>6. OneModeApart' /\ PristineApart' /\ ClosingAlone' /\ PassedApart'
    BY <1>1, <2>1 DEF IInv, OneModeApart, PristineApart, ClosingAlone, PassedApart, Closes
  <2> QED
    BY <1>5, <1>6, <2>4, <2>5, <2>6 DEF IInv
<1> QED
  BY <1>7, <1>8

(* A login that ends takes no other from its handle but into forgotten, and
   its EVENT loop replaces the one that is held.                            *)
LEMMA LoginIInv == ASSUME NEW t \in Logins, IInv, Login(t) PROVE IInv'
<1> USE DEF Login, TakeLoginLock, LoginSucceeds, LoginFails, LoginEnds, LoginCancelled, LoopEnds
<1>1. /\ UNCHANGED <<phase, wants, isFirst, connections, mode, prepared, asked, awaited, overlap>>
      /\ logins' \subseteq logins /\ Closes' = Closes
  BY ClosesSame DEF sessionVars, taskVars
<1>2. /\ handle' \in [Venues -> LoginOrNone] /\ handle'["tachibana"] = handle["tachibana"]
      /\ handle'["kabu"] \in {handle["kabu"], NoLogin}
  BY DEF ClearsHandle, taskVars, IInv, TypeOK
<1>3. /\ forgotten \subseteq forgotten' /\ forgotten' \in SUBSET Logins
      /\ handle["kabu"] \in logins' => handle'["kabu"] = handle["kabu"] \/ handle["kabu"] \in forgotten'
  BY DEF ClearsHandle, taskVars, IInv, TypeOK
<1>4. \/ loops' \subseteq loops /\ eventTask' = eventTask
      \/ t \in logins /\ eventTask' = t /\ loops' = (loops \ {eventTask}) \cup {t}
  BY DEF taskVars, loopVars
<1>5. live' # "DISCONNECTED" => live # "DISCONNECTED" \/ logins # {}
  BY DEF taskVars, loopVars
<1>6. TypeOK'
  <2>1. /\ lock' \in [Venues -> LoginOrNone] /\ cancelled' \in SUBSET LoginOrNone
        /\ live' \in {"DISCONNECTED", "CONNECTING", "CONNECTED"}
        /\ venue' \in Venues \cup {"none"}
    BY VenueType DEF taskVars, loopVars, IInv, TypeOK
  <2> QED
    BY <1>1, <1>2, <1>3, <1>4, <2>1 DEF IInv, TypeOK
<1>7. ServedRegistered' /\ OneFirst' /\ OneModeApart' /\ ClosingAlone'
  BY <1>1 DEF IInv, ServedRegistered, OneFirst, OneModeApart, ClosingAlone
<1>8. CASE overlap'
  BY <1>6, <1>7, <1>8, ApartDef, OverlapApart, PTL
<1>9. CASE ~overlap'
  <2>1. ~overlap
    BY <1>1, <1>9
  <2>2. /\ logins \subseteq {handle["tachibana"], handle["kabu"]} \cup forgotten
        /\ loops \subseteq {eventTask} \cup forgotten
    BY <2>1 DEF IInv, HandledApart
  <2>3. logins' \subseteq {handle'["tachibana"], handle'["kabu"]} \cup forgotten'
    BY <1>1, <1>2, <1>3, <2>2
  <2>4. HandledApart'
    BY <1>3, <1>4, <2>2, <2>3 DEF HandledApart
  <2>5. NoReplayLoginApart'
    BY <1>1, <1>3, <1>4, <1>5, <2>1 DEF IInv, NoReplayLoginApart
  <2>6. PristineApart'
    BY <1>1, <1>2, <1>3, <1>4, <1>5, <2>1 DEF IInv, PristineApart
  <2>7. PassedApart'
    <3> SUFFICES ASSUME NEW c \in Sessions, phase[c] \in Closing
                 PROVE  /\ phase[c] = "closeLogin" => awaited[c] = handle'["tachibana"]
                        /\ phase[c] \in {"closeKabu", "closeLoop", "closeTasks"} =>
                             /\ handle'["tachibana"] = NoLogin
                             /\ phase[c] = "closeKabu" => handle'["kabu"] \in {awaited[c], NoLogin}
                        /\ phase[c] \in {"closeLoop", "closeTasks"} =>
                             handle'["kabu"] = NoLogin /\ loops' \subseteq forgotten'
      BY <1>1 DEF PassedApart
    <3>1. /\ phase[c] = "closeLogin" => awaited[c] = handle["tachibana"]
          /\ phase[c] \in {"closeKabu", "closeLoop", "closeTasks"} =>
               /\ handle["tachibana"] = NoLogin
               /\ phase[c] = "closeKabu" => handle["kabu"] \in {awaited[c], NoLogin}
          /\ phase[c] \in {"closeLoop", "closeTasks"} =>
               handle["kabu"] = NoLogin /\ loops \subseteq forgotten
      BY <2>1 DEF IInv, PassedApart
    <3>2. phase[c] \in {"closeLoop", "closeTasks"} => logins \subseteq forgotten
      BY <2>2, <3>1, NoLoginIsNone DEF IInv, TypeOK
    <3> QED
      BY <1>2, <1>3, <1>4, <3>1, <3>2
  <2> QED
    BY <1>6, <1>7, <2>4, <2>5, <2>6, <2>7 DEF IInv
<1> QED
  BY <1>8, <1>9

(* A session that is not the last one to leave. *)
LEMMA LeaveOthersIInv ==
    ASSUME NEW c \in Sessions, IInv, Leave(c), connections # {c}
    PROVE  IInv'
<1>1. /\ phase[c] = "serve" /\ phase'[c] = "closed" /\ phase' \in [Sessions -> Phases]
      /\ \A d \in Sessions : d # c => phase'[d] = phase[d]
      /\ connections' = connections \ {c} /\ c \in connections
      /\ UNCHANGED <<wants, isFirst, mode, prepared, taskVars, awaited, loopVars,
                     overlap, forgotten>>
  BY DEF Leave, Moves, IInv, TypeOK, ServedRegistered, taskVars, loopVars
<1>2. Closes' = Closes
  BY <1>1 DEF Closes
<1>3. TypeOK' /\ ServedRegistered' /\ OneFirst'
  BY <1>1 DEF IInv, TypeOK, ServedRegistered, OneFirst, taskVars, loopVars
<1>4. OneModeApart' /\ NoReplayLoginApart' /\ HandledApart' /\ PristineApart'
  BY <1>1, <1>2 DEF IInv, OneModeApart, NoReplayLoginApart, HandledApart, PristineApart,
     taskVars, loopVars
<1>5. ClosingAlone' /\ PassedApart'
  BY <1>1, <1>2 DEF IInv, ClosingAlone, PassedApart, taskVars, loopVars
<1> QED
  BY <1>3, <1>4, <1>5 DEF IInv

(* A stretch of the cleanup.  What it has passed is gone but for what was
   forgotten: it waits for a login unless that has ended, and for the loop
   unless that is cancelled.                                                *)
LEMMA CleanupIInv ==
    ASSUME NEW c \in Sessions, NEW done \in SUBSET Closing, NEW busy \in BOOLEAN, IInv,
           Cleanup(c, done, busy),
           connections' = connections \ {c}, phase[c] \in Closing \cup {"serve"},
           UNCHANGED <<wants, isFirst, prepared, asked, logins, lock, overlap, forgotten>>,
           ~overlap => /\ connections' = {}
                       /\ \A d \in Sessions : d # c => phase[d] \notin Closing
                       /\ "closeLogin" \in done => handle["tachibana"] \notin logins
                       /\ "closeKabu" \in done => /\ handle["tachibana"] = NoLogin
                                                  /\ handle["kabu"] \notin logins
                                                  /\ "closeLogin" \in done
                       /\ "closeLoop" \in done => /\ handle["kabu"] = NoLogin
                                                  /\ loops \subseteq forgotten
                                                  /\ "closeKabu" \in done
                       /\ "closeTasks" \in done => "closeLoop" \in done
    PROVE  IInv'
<1> DEFINE next == Suspends(done, busy)
<1>1. /\ next \in Closing \cup {"closed"} /\ phase'[c] = next /\ phase' \in [Sessions -> Phases]
      /\ \A d \in Sessions : d # c => phase'[d] = phase[d]
  BY DEF Cleanup, PassesTo, Moves, Suspends, IInv, TypeOK
<1>2. /\ awaited' = [awaited EXCEPT ![c] = Waited(next)]
      /\ awaited' \in [Sessions -> LoginOrNone] /\ Waited(next) \in LoginOrNone
  BY DEF Cleanup, PassesTo, Waited, IInv, TypeOK
<1>3. /\ handle' \in [Venues -> LoginOrNone]
      /\ handle'["tachibana"] = IF "closeKabu" \in done \/ next = "closeLogin"
                               THEN handle["tachibana"] ELSE NoLogin
      /\ handle'["kabu"] = IF "closeLoop" \in done \/ next \in {"closeLogin", "closeKabu"}
                          THEN handle["kabu"] ELSE NoLogin
  BY DEF Cleanup, PassesTo, IInv, TypeOK
<1>4. /\ loops' = IF next = "closeLoop" THEN loops \ {eventTask} ELSE loops
      /\ eventTask' = IF "closeTasks" \in done \/ next \in {"closeLogin", "closeKabu", "closeLoop"}
                      THEN eventTask ELSE NoLogin
      /\ next = "closed" => live' = "DISCONNECTED" /\ venue' = "none" /\ mode' = "live"
      /\ next # "closed" => live' = live /\ venue' = venue /\ mode' = mode
  BY DEF Cleanup, PassesTo, ModeReset
<1>5. TypeOK'
  <2>1. cancelled' \in SUBSET LoginOrNone
    BY <1>2 DEF Cleanup, IInv, TypeOK
  <2>2. /\ mode' \in Modes /\ live' \in {"DISCONNECTED", "CONNECTING", "CONNECTED"}
        /\ venue' \in Venues \cup {"none"} /\ eventTask' \in LoginOrNone
    BY <1>1, <1>4 DEF IInv, TypeOK
  <2> QED
    BY <1>1, <1>2, <1>3, <1>4, <2>1, <2>2 DEF IInv, TypeOK
<1>6. ServedRegistered' /\ OneFirst'
  BY <1>1 DEF IInv, TypeOK, ServedRegistered, OneFirst
<1>7. CASE overlap'
  BY <1>5, <1>6, <1>7, ApartDef, OverlapApart, PTL
<1>8. CASE ~overlap'
  <2>1. /\ ~overlap /\ connections' = {}
        /\ \A d \in Sessions : d # c => phase'[d] \notin Closing
        /\ Closes' <=> next # "closed"
    BY <1>1, <1>8 DEF Closes
  <2>2. /\ next # "closeLogin" => handle["tachibana"] \notin logins
        /\ next \notin {"closeLogin", "closeKabu"} => handle["kabu"] \notin logins
        /\ next \notin {"closeLogin", "closeKabu", "closeLoop"} =>
             "closeLoop" \in done \/ eventTask \notin loops
    BY <2>1 DEF Suspends, Pending, LoopRuns
  <2>3. /\ next # "closeLogin" => handle'["tachibana"] = NoLogin
        /\ next \notin {"closeLogin", "closeKabu"} => handle'["kabu"] = NoLogin
    BY <1>3, <2>1
  <2>4. /\ logins \subseteq {handle["tachibana"], handle["kabu"]} \cup forgotten
        /\ loops \subseteq {eventTask} \cup forgotten
    BY <2>1 DEF IInv, HandledApart
  <2>5. logins \subseteq {handle'["tachibana"], handle'["kabu"]} \cup forgotten
    <3>1. CASE next = "closeLogin"
      BY <1>3, <2>4, <3>1
    <3>2. CASE next = "closeKabu"
      BY <1>3, <2>2, <2>4, <3>2
    <3>3. CASE next \notin {"closeLogin", "closeKabu"}
      BY <2>2, <2>4, <3>3
    <3> QED
      BY <3>1, <3>2, <3>3
  <2>6. next \notin {"closeLogin", "closeKabu"} => loops' \subseteq forgotten
    BY <1>4, <2>1, <2>2, <2>4
  <2>7. loops' \subseteq {eventTask'} \cup forgotten
    BY <1>4, <2>4, <2>6
  <2>8. HandledApart'
    BY <2>5, <2>7 DEF HandledApart
  <2>9. OneModeApart' /\ ClosingAlone'
    BY <1>1, <2>1 DEF OneModeApart, ClosingAlone
  <2>10. PristineApart'
    BY <1>4, <2>1, <2>3, <2>5, <2>6, NoLoginIsNone DEF PristineApart, IInv, TypeOK
  <2>11. NoReplayLoginApart'
    <3>1. loops' \subseteq loops
      BY <1>4
    <3> QED
      BY <1>1, <1>4, <2>1, <3>1 DEF IInv, NoReplayLoginApart
  <2>12. PassedApart'
    <3>1. next = "closeLogin" => awaited'[c] = handle'["tachibana"]
      BY <1>2, <1>3 DEF Waited, IInv, TypeOK
    <3>2. next = "closeKabu" => handle'["kabu"] = awaited'[c]
      BY <1>2, <1>3 DEF Waited, IInv, TypeOK
    <3> QED
      BY <1>1, <2>1, <2>3, <2>6, <3>1, <3>2 DEF PassedApart
  <2> QED
    BY <1>5, <1>6, <2>8, <2>9, <2>10, <2>11, <2>12 DEF IInv
<1> QED
  BY <1>7, <1>8

LEMMA LeaveIInv == ASSUME NEW c \in Sessions, IInv, Leave(c) PROVE IInv'
<1>1. CASE connections # {c}
  BY <1>1, LeaveOthersIInv
<1>2. CASE connections = {c}
  <2>1. ~overlap => \A d \in Sessions : phase[d] \notin Closing
    BY <1>2 DEF IInv, ClosingAlone, Closes
  <2>2. PICK busy \in BOOLEAN : Cleanup(c, {}, busy)
    BY <1>2 DEF Leave
  <2>3. /\ phase[c] = "serve" /\ connections' = {} /\ connections' = connections \ {c}
        /\ UNCHANGED <<wants, isFirst, prepared, asked, logins, lock, overlap, forgotten>>
    BY <1>2 DEF Leave
  <2> QED
    BY <2>1, <2>2, <2>3, CleanupIInv
<1> QED
  BY <1>1, <1>2

LEMMA CloseIInv == ASSUME NEW c \in Sessions, IInv, Close(c) PROVE IInv'
<1>1. /\ phase[c] \in Closing /\ c \notin connections
      /\ UNCHANGED <<wants, isFirst, connections, prepared, asked, logins, lock, overlap, forgotten>>
  BY DEF Close, CloseLogin, CloseKabu, CloseLoop, CloseTasks, Resumes, IInv, ServedRegistered
<1>2. connections' = connections \ {c} /\ phase[c] \in Closing \cup {"serve"}
  BY <1>1
<1>3. ~overlap => /\ connections' = {}
                  /\ \A d \in Sessions : d # c => phase[d] \notin Closing
  BY <1>1 DEF IInv, ClosingAlone, Closes
<1>4. NoLogin \notin logins
  BY NoLoginIsNone DEF IInv, TypeOK
<1>5. CASE CloseLogin(c)
  <2>1. PICK busy \in BOOLEAN : Cleanup(c, {"closeLogin"}, busy)
    BY <1>5 DEF CloseLogin, Resumes
  <2>2. ~overlap => handle["tachibana"] \notin logins
    BY <1>5 DEF CloseLogin, IInv, PassedApart
  <2> QED
    BY <1>1, <1>2, <1>3, <2>1, <2>2, CleanupIInv
<1>6. CASE CloseKabu(c)
  <2>1. PICK busy \in BOOLEAN : Cleanup(c, {"closeLogin", "closeKabu"}, busy)
    BY <1>6 DEF CloseKabu, Resumes
  <2>2. ~overlap => handle["tachibana"] = NoLogin /\ handle["kabu"] \notin logins
    BY <1>4, <1>6 DEF CloseKabu, IInv, PassedApart
  <2> QED
    BY <1>1, <1>2, <1>3, <1>4, <2>1, <2>2, CleanupIInv
<1>7. CASE CloseLoop(c)
  <2>1. PICK busy \in BOOLEAN : Cleanup(c, {"closeLogin", "closeKabu", "closeLoop"}, busy)
    BY <1>7 DEF CloseLoop, Resumes
  <2>2. ~overlap => /\ handle["tachibana"] = NoLogin /\ handle["kabu"] = NoLogin
                    /\ loops \subseteq forgotten
    BY <1>7 DEF CloseLoop, IInv, PassedApart
  <2> QED
    BY <1>1, <1>2, <1>3, <1>4, <2>1, <2>2, CleanupIInv
<1>8. CASE CloseTasks(c)
  <2>1. PICK busy \in BOOLEAN : Cleanup(c, Closing, busy)
    BY <1>8 DEF CloseTasks, Resumes
  <2>2. ~overlap => /\ handle["tachibana"] = NoLogin /\ handle["kabu"] = NoLogin
                    /\ loops \subseteq forgotten
    BY <1>8 DEF CloseTasks, IInv, PassedApart
  <2> QED
    BY <1>1, <1>2, <1>3, <1>4, <2>1, <2>2, CleanupIInv
<1> QED
  BY <1>5, <1>6, <1>7, <1>8 DEF Close

LEMMA NextIInv == IInv /\ [Next]_vars => IInv'
<1> SUFFICES ASSUME IInv, [Next]_vars PROVE IInv'
  OBVIOUS
<1>1. CASE UNCHANGED vars
  BY <1>1 DEF vars, sessionVars, taskVars, loopVars, IInv, TypeOK, ServedRegistered, OneFirst,
     OneModeApart, NoReplayLoginApart, HandledApart, PristineApart, ClosingAlone, PassedApart,
     Closes
<1>2. ASSUME NEW c \in Sessions, Handshake(c) PROVE IInv'
  BY <1>2, OutsideIInv, RegisterIInv, ReadyIInv, ServeIInv DEF Handshake
<1>3. CASE Next
  BY <1>2, <1>3, CommandIInv, LeaveIInv, CloseIInv, LoginIInv DEF Next
<1> QED
  BY <1>1, <1>3

(* The invariant of the connections: types, the registration of every client
   served, one first client, and, apart from overlap and forgotten logins,
   one mode, no broker login in replay mode, every login named by its handle
   and a pristine engine when the last client is gone.                       *)
THEOREM ConnectionsInvariant == Spec => []IInv
<1> QED
  BY InitIInv, NextIInv, PTL DEF Spec

(* Every reachable state is well typed. *)
THEOREM ConnectionsTypeOK == Spec => []TypeOK
<1>1. IInv => TypeOK
  BY DEF IInv
<1> QED
  BY <1>1, ConnectionsInvariant, PTL

(* No client is served, or awaits its Ready, while the engine thinks it gone. *)
THEOREM ConnectionsServedRegistered == Spec => []ServedRegistered
<1>1. IInv => ServedRegistered
  BY DEF IInv
<1> QED
  BY <1>1, ConnectionsInvariant, PTL

(* At most one registered client is the first, whatever overlaps. *)
THEOREM ConnectionsOneFirst == Spec => []OneFirst
<1>1. IInv => OneFirst
  BY DEF IInv
<1> QED
  BY <1>1, ConnectionsInvariant, PTL

(* Without overlap every registered client is in the mode it asked for. *)
THEOREM ConnectionsOneMode == Spec => []OneModeApart
<1>1. IInv => OneModeApart
  BY DEF IInv
<1> QED
  BY <1>1, ConnectionsInvariant, PTL

(* Without overlap only a forgotten login runs, or connects, in replay mode. *)
THEOREM ConnectionsNoReplayLogin == Spec => []NoReplayLoginApart
<1>1. IInv => NoReplayLoginApart
  BY DEF IInv
<1> QED
  BY <1>1, ConnectionsInvariant, PTL

(* Without overlap every login and EVENT loop that runs is named by its
   handle, or was forgotten when another login took or cleared the handle.   *)
THEOREM ConnectionsHandled == Spec => []HandledApart
<1>1. IInv => HandledApart
  BY DEF IInv
<1> QED
  BY <1>1, ConnectionsInvariant, PTL

(* Without overlap the last client leaves a pristine engine behind, but for
   forgotten logins.                                                         *)
THEOREM ConnectionsPristine == Spec => []PristineApart
<1>1. IInv => PristineApart
  BY DEF IInv
<1> QED
  BY <1>1, ConnectionsInvariant, PTL

(* Without overlap a lifecycle of clients leaves nothing to the next. *)
THEOREM ConnectionsLifecyclesApart == Spec => []LifecyclesApart
<1>1. IInv => LifecyclesApart
  BY DEF IInv, LifecyclesApart
<1> QED
  BY <1>1, ConnectionsInvariant, PTL

(* A client is added only below the limit, and only one at a time. *)
LEMMA CapacityStep ==
    ASSUME IsFiniteSet(connections), WithinCapacity, [Next]_vars
    PROVE  IsFiniteSet(connections)' /\ WithinCapacity'
<1>1. CASE UNCHANGED connections
  BY <1>1 DEF WithinCapacity
<1>2. ASSUME NEW c \in Sessions, Register(c)
      PROVE  IsFiniteSet(connections)' /\ WithinCapacity'
  <2>1. connections' = connections \cup {c} /\ ~(Cardinality(connections) >= MaxConnections)
    BY <1>2 DEF Register, Full
  <2>2. /\ IsFiniteSet(connections \cup {c})
        /\ Cardinality(connections \cup {c})
             = IF c \in connections THEN Cardinality(connections) ELSE Cardinality(connections) + 1
    BY FS_AddElement
  <2>3. Cardinality(connections) \in Nat
    BY FS_CardinalityType
  <2> QED
    BY <2>1, <2>2, <2>3, ConnectionsAssumption DEF WithinCapacity
<1>3. ASSUME NEW c \in Sessions, Leave(c)
      PROVE  IsFiniteSet(connections)' /\ WithinCapacity'
  <2>1. connections' = connections \ {c}
    BY <1>3 DEF Leave
  <2>2. /\ IsFiniteSet(connections \ {c})
        /\ Cardinality(connections \ {c}) <= Cardinality(connections)
        /\ Cardinality(connections) \in Nat /\ Cardinality(connections \ {c}) \in Nat
    BY FS_Subset, FS_CardinalityType
  <2> QED
    BY <2>1, <2>2, ConnectionsAssumption DEF WithinCapacity
<1>4. CASE Next
  BY <1>1, <1>2, <1>3, <1>4 DEF Next, Handshake, Connect, HelloFails, RefuseFull, RefuseMode,
     Prepare, Serve, Lose, Close, CloseLogin, CloseKabu, CloseLoop, CloseTasks, Resumes,
     Command, RequestTachibana, RequestKabu, Logout,
     Login, TakeLoginLock, LoginSucceeds, LoginFails, LoginCancelled, LoopEnds, sessionVars
<1> QED
  BY <1>1, <1>4 DEF vars, sessionVars

(* However handshakes, losses and cleanups interleave, the limit holds. *)
THEOREM ConnectionsWithinCapacity == Spec => []WithinCapacity
<1>1. Init => IsFiniteSet(connections) /\ WithinCapacity
  BY FS_EmptySet, ConnectionsAssumption DEF Init, WithinCapacity
<1> QED
  BY <1>1, CapacityStep, PTL DEF Spec

(* The registry counts exactly the clients being served, within its limit and
   with one first, for any number of sessions.                              *)
THEOREM ConnectionsRegistryExact == Spec => []RegistryExact
<1>1. WithinCapacity /\ ServedRegistered /\ OneFirst => RegistryExact
  BY DEF RegistryExact
<1> QED
  BY <1>1, ConnectionsWithinCapacity, ConnectionsServedRegistered, ConnectionsOneFirst, PTL
============================================================================
