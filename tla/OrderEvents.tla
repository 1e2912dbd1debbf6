----------------------------- MODULE OrderEvents -----------------------------
(***************************************************************************)
(* Execution notices of Tachibana: TachibanaEventClient.receive_loop       *)
(* (python/engine/exchanges/tachibana_event.py), and _run_event_loop and   *)
(* _on_ec_event of python/engine/server.py.                                *)
(*                                                                         *)
(* The broker numbers the notices (EC frames) of an order and sends them   *)
(* over one WebSocket; a new connection starts with all of the day.  The   *)
(* engine drops what it has seen and reports the rest under the client's   *)
(* order id, which it learns from the answer to the order.                 *)
(***************************************************************************)
EXTENDS Naturals, Sequences, FiniteSets

CONSTANTS
    Orders,
    Quantity,     \* of each order; every execution is of one
    MaxFrames,    \* bound: notices of the day
    MaxRetries,   \* max_retries, 10
    MaxLogins,    \* bound: logins and restarts of the engine
    MaxCloses     \* bound: orderly closes by the broker

ASSUME EventsAssumption ==
    /\ Quantity \in Nat \ {0} /\ MaxFrames \in Nat
    /\ MaxRetries \in Nat \ {0} /\ MaxLogins \in Nat /\ MaxCloses \in Nat

FrameKinds == {"accepted", "filled", "canceled", "expired"}
Frames == [order : Orders, kind : FrameKinds]
Places == 1 .. MaxFrames    \* a frame's place stands for its (venue_order_id, trade_id)

VARIABLES
    day,          \* the broker's notices of the day, in their order
    request,      \* the SubmitOrder of each order
    cancel,       \* its CancelOrder
    known,        \* orders in _venue_to_client
    seen,         \* _seen
    cumulative,   \* _fill_cumulative
    loop,         \* the task of _run_event_loop
    sent,         \* frames the broker has sent on this connection
    retries,      \* retry_count
    logins,       \* bound: counts logins and restarts
    reports,      \* history: places of the notices that became events
    closes        \* bound and history: orderly closes, which empty seen

brokerVars == <<day, request, cancel>>
loopVars == <<loop, sent, retries>>
eventsVars == <<brokerVars, known, seen, cumulative, loopVars, logins, reports, closes>>

EventsTypeOK ==
    /\ day \in Seq(Frames) /\ Len(day) <= MaxFrames
    /\ request \in [Orders -> {"none", "sent", "placed", "answered", "lost"}]
    /\ cancel \in [Orders -> {"none", "sent", "over"}]
    /\ known \in SUBSET Orders
    /\ seen \in SUBSET (1 .. Len(day))
    /\ cumulative \in [Orders -> Nat]
    /\ loop \in {"off", "starting", "open", "waiting", "over"}
    /\ sent \in 0 .. Len(day)
    /\ retries \in 0 .. MaxRetries + 1
    /\ logins \in 0 .. MaxLogins
    /\ reports \in Seq(1 .. Len(day))
    /\ closes \in 0 .. MaxCloses

EventsInit ==
    /\ day = <<>>
    /\ request = [o \in Orders |-> "none"]
    /\ cancel = [o \in Orders |-> "none"]
    /\ known = {} /\ seen = {}
    /\ cumulative = [o \in Orders |-> 0]
    /\ loop = "off" /\ sent = 0 /\ retries = 0
    /\ logins = 0 /\ reports = <<>> /\ closes = 0

-----------------------------------------------------------------------------
(* The broker. *)

Noticed(o, kind) == {i \in 1 .. Len(day) : day[i] = [order |-> o, kind |-> kind]}
Executed(o) == Cardinality(Noticed(o, "filled"))
Live(o) == /\ Noticed(o, "accepted") # {}
           /\ Noticed(o, "canceled") \cup Noticed(o, "expired") = {}
           /\ Executed(o) < Quantity

Notices(o, kind) ==
    /\ Len(day) < MaxFrames
    /\ day' = Append(day, [order |-> o, kind |-> kind])

Fills(o) ==
    /\ Live(o)
    /\ Notices(o, "filled")
    /\ UNCHANGED <<request, cancel, known, seen, cumulative, loopVars, logins, reports, closes>>

Expires(o) ==
    /\ Live(o)
    /\ Notices(o, "expired")
    /\ UNCHANGED <<request, cancel, known, seen, cumulative, loopVars, logins, reports, closes>>

-----------------------------------------------------------------------------
(* SubmitOrder and CancelOrder. *)

Submit(o) ==
    /\ loop # "off"
    /\ request[o] = "none"
    /\ request' = [request EXCEPT ![o] = "sent"]
    /\ UNCHANGED <<day, cancel, known, seen, cumulative, loopVars, logins, reports, closes>>

BrokerPlaces(o) ==
    /\ request[o] = "sent"
    /\ Notices(o, "accepted")
    /\ request' = [request EXCEPT ![o] = "placed"]
    /\ UNCHANGED <<cancel, known, seen, cumulative, loopVars, logins, reports, closes>>

(* Faulty variant: the order is known as soon as it is at the broker. *)
KnownAtOnce(o) ==
    /\ request[o] = "placed"
    /\ known' = known \cup {o}
    /\ UNCHANGED <<day, request, cancel, seen, cumulative, loopVars, logins, reports, closes>>

(* OrderAccepted, and from here the notices of the order are its client's. *)
Accepted(o) ==
    /\ request[o] = "placed"
    /\ request' = [request EXCEPT ![o] = "answered"]
    /\ known' = known \cup {o}
    /\ UNCHANGED <<day, cancel, seen, cumulative, loopVars, logins, reports, closes>>

(* No answer, or none that parses: OrderRejected, placed or not. *)
AnswerLost(o) ==
    /\ request[o] \in {"sent", "placed"}
    /\ request' = [request EXCEPT ![o] = "lost"]
    /\ UNCHANGED <<day, cancel, known, seen, cumulative, loopVars, logins, reports, closes>>

Cancel(o) ==
    /\ loop # "off"
    /\ request[o] = "answered" /\ cancel[o] = "none"
    /\ cancel' = [cancel EXCEPT ![o] = "sent"]
    /\ UNCHANGED <<day, request, known, seen, cumulative, loopVars, logins, reports, closes>>

(* A cancel taken is told by the notice alone; one refused is told at once. *)
BrokerCancels(o) ==
    /\ cancel[o] = "sent"
    /\ cancel' = [cancel EXCEPT ![o] = "over"]
    /\ \/ Live(o) /\ Notices(o, "canceled")
       \/ ~Live(o) /\ UNCHANGED day
    /\ UNCHANGED <<request, known, seen, cumulative, loopVars, logins, reports, closes>>

-----------------------------------------------------------------------------
(* A frame arrives. *)

(* _is_duplicate marks the frame, whatever becomes of it. *)
Sees(i) == seen' = seen \cup {i}

Duplicate(i) == i \in seen

Counts(o) == cumulative' = [cumulative EXCEPT ![o] = @ + 1]

(* _on_ec_event: frames of unknown orders are dropped, and acceptances, which
   OrderAccepted has told.                                                  *)
Reports(i) ==
    IF day[i].order \in known /\ day[i].kind # "accepted"
    THEN /\ reports' = Append(reports, i)
         /\ IF day[i].kind = "filled" THEN Counts(day[i].order) ELSE UNCHANGED cumulative
    ELSE UNCHANGED <<reports, cumulative>>

Receive ==
    /\ loop = "open" /\ sent < Len(day)
    /\ sent' = sent + 1
    /\ IF Duplicate(sent')
       THEN UNCHANGED <<seen, reports, cumulative>>
       ELSE Sees(sent') /\ Reports(sent')
    /\ UNCHANGED <<brokerVars, known, loop, retries, logins, closes>>

-----------------------------------------------------------------------------
(* The connection. *)

(* A login; the loop of an earlier one is cancelled. *)
Login ==
    /\ logins < MaxLogins
    /\ logins' = logins + 1
    /\ loop' = "starting" /\ sent' = 0 /\ retries' = 0
    /\ UNCHANGED <<brokerVars, known, seen, cumulative, reports, closes>>

(* Logout, or the last client leaves. *)
Cancelled ==
    /\ loop # "off"
    /\ loop' = "off" /\ sent' = 0 /\ retries' = 0
    /\ UNCHANGED <<brokerVars, known, seen, cumulative, logins, reports, closes>>

(* The first connection is tried once. *)
FirstConnection ==
    /\ loop = "starting"
    /\ loop' \in {"open", "over"}
    /\ UNCHANGED <<brokerVars, known, seen, cumulative, sent, retries, logins, reports, closes>>

(* The loop goes on to reconnect, or gives up. *)
Lost(count) ==
    /\ retries' = count + 1
    /\ loop' = IF retries' > MaxRetries THEN "over" ELSE "waiting"
    /\ sent' = 0

(* Closed by the broker in order: the frames seen are forgotten; after more
   than 30 seconds the count starts again.                                 *)
ClosesOk ==
    /\ loop = "open" /\ closes < MaxCloses
    /\ \E count \in {0, retries} : Lost(count)
    /\ seen' = {}
    /\ closes' = closes + 1
    /\ UNCHANGED <<brokerVars, known, cumulative, logins, reports>>

(* Faulty variant: the frames seen are forgotten at every reconnection. *)
ForgetsAtBreak ==
    /\ loop = "open"
    /\ Lost(retries)
    /\ seen' = {}
    /\ UNCHANGED <<brokerVars, known, cumulative, logins, reports, closes>>

ConnectionBreaks ==
    /\ loop = "open"
    /\ Lost(retries)
    /\ UNCHANGED <<brokerVars, known, seen, cumulative, logins, reports, closes>>

Reconnects ==
    /\ loop = "waiting"
    /\ loop' = "open"
    /\ UNCHANGED <<brokerVars, known, seen, cumulative, sent, retries, logins, reports, closes>>

(* Faulty variant: a failed attempt is not counted. *)
TriesForEver ==
    /\ loop = "waiting"
    /\ loop' = "waiting"
    /\ retries' = IF retries = MaxRetries THEN 1 ELSE retries + 1
    /\ UNCHANGED <<brokerVars, known, seen, cumulative, sent, logins, reports, closes>>

ReconnectFails ==
    /\ loop = "waiting"
    /\ IF retries >= MaxRetries
       THEN loop' = "over" /\ UNCHANGED retries
       ELSE loop' = "waiting" /\ retries' = retries + 1
    /\ UNCHANGED <<brokerVars, known, seen, cumulative, sent, logins, reports, closes>>

(* The engine is restarted: what it knew of orders is gone. *)
EngineRestarts ==
    /\ logins < MaxLogins
    /\ logins' = logins + 1
    /\ known' = {} /\ seen' = {}
    /\ cumulative' = [o \in Orders |-> 0]
    /\ loop' = "off" /\ sent' = 0 /\ retries' = 0
    /\ request' = [o \in Orders |-> IF request[o] \in {"sent", "placed"} THEN "lost" ELSE request[o]]
    /\ UNCHANGED <<day, cancel, reports, closes>>

EventsNext ==
    \/ \E o \in Orders :
          \/ Fills(o) \/ Expires(o)
          \/ Submit(o) \/ BrokerPlaces(o) \/ Accepted(o) \/ AnswerLost(o)
          \/ Cancel(o) \/ BrokerCancels(o)
    \/ Receive
    \/ Login \/ Cancelled \/ FirstConnection
    \/ ClosesOk \/ ConnectionBreaks \/ Reconnects \/ ReconnectFails
    \/ EngineRestarts

EventsSpec == EventsInit /\ [][EventsNext]_eventsVars

(* The event loop runs; a connection attempt succeeds or fails. *)
EventsFairSpec ==
    /\ EventsSpec
    /\ WF_eventsVars(Receive) /\ WF_eventsVars(FirstConnection)
    /\ WF_eventsVars(Reconnects \/ ReconnectFails)

-----------------------------------------------------------------------------
(* Properties. *)

(* Up to an orderly close of the connection, what is told of an order is told
   in the broker's order and once, through reconnections, logins and restarts
   of the engine, each of which has the whole day sent again.               *)
ToldInOrder ==
    closes = 0 => \A m, n \in 1 .. Len(reports) :
        m < n /\ day[reports[m]].order = day[reports[n]].order => reports[m] < reports[n]

(* The quantity told as executed (_fill_cumulative, which is not keyed by
   trade_id) is never more than was executed, but that each orderly close may
   have every execution counted once more; nothing else does, however often the
   day is sent again over broken connections, logins and restarts.          *)
NotOvercounted == \A o \in Orders : cumulative[o] <= (closes + 1) * Executed(o)

(* What is told of executions and ends belongs to an order its client was told
   is accepted.                                                             *)
ToldAfterAccepted ==
    \A n \in 1 .. Len(reports) : request[day[reports[n]].order] = "answered"

(* Reports and acceptances come from two tasks; what a client hears in all is
   a history of its order that could have been.                             *)
ToldRightly == ToldInOrder /\ ToldAfterAccepted

(* A frame on an open connection is read, whatever it is about. *)
FramesAreRead ==
    \A i \in Places : (loop = "open" /\ i <= Len(day)) ~> (i \in seen \/ loop # "open")

(* A connection lost is had again, or the loop is over. *)
LoopGoesOn == loop = "waiting" ~> loop # "waiting"

-----------------------------------------------------------------------------
(* Refuted. *)

(* "Frames sent again after a reconnection are dropped here"
   (docs/specs/order.md:969): not after an orderly close, which empties the
   set of those seen.                                                       *)
ResentIsDropped ==
    \A m, n \in 1 .. Len(reports) : m # n => reports[m] # reports[n]

(* "After max_retries consecutive failures the loop gives up"
   (exchanges/tachibana_event.py, receive_loop): a connection that was had
   and broke counts too, and only an orderly close starts the count again.  *)
GivesUpFailing == [][loop = "open" => loop' # "over"]_eventsVars

(* A notice that overtakes the answer to its order is lost for good: it counts
   as seen.                                                                 *)
AnsweredIsTold ==
    loop = "open" /\ sent = Len(day) =>
        \A o \in known : \A i \in Noticed(o, "filled") : \E n \in 1 .. Len(reports) : reports[n] = i
=============================================================================
