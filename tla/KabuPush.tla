------------------------------ MODULE KabuPush ------------------------------
(***************************************************************************)
(* Market data of kabu STATION (_handle_subscribe_kabu_station and what    *)
(* follows in python/engine/server.py, kabusapi_register.py and            *)
(* kabusapi_ws.py).                                                        *)
(*                                                                         *)
(* kabu STATION pushes, over one WebSocket, the symbols of a list of at    *)
(* most 50 that PUT /register replaces as a whole.  The engine keeps its   *)
(* own list, register_set, next to the streams its clients have asked for. *)
(* A Subscribe adds the symbol, awaits the PUT and then stores the stream; *)
(* the WebSocket loop sends the list again whenever it has connected.  The *)
(* PUTs are requests of their own: kabu STATION may take them up in        *)
(* another order than they were made in.                                   *)
(***************************************************************************)
EXTENDS Naturals, FiniteSets

CONSTANTS
    Clients,       \* connections
    Symbols,
    Kinds,         \* the streams of a symbol: depth, trade
    MaxSymbols,    \* RegisterSet.MAX, 50
    MaxAttempts,   \* _MAX_RECONNECT_ATTEMPTS, 5
    MaxSeq,        \* bound: messages numbered in a login
    NoKey, Loop    \* Loop: the WebSocket loop

ASSUME PushAssumption ==
    /\ MaxSymbols \in Nat \ {0} /\ MaxAttempts \in Nat \ {0} /\ MaxSeq \in Nat
    /\ Loop \notin Clients
    /\ NoKey \notin Symbols \X Kinds
    /\ IsFiniteSet(Symbols)

Keys == Symbols \X Kinds
Putters == Clients \cup {Loop}

VARIABLES
    online,       \* _kabu_venue holds a token
    registered,   \* _kabu_register_set
    streams,      \* kabu_station keys of _streams
    pc,           \* what the handler of each client awaits
    key,          \* the stream it is about
    put,          \* each PUT /register: none, under way, taken or failed
    list,         \* the symbols it carries
    atBroker,     \* the list of kabu STATION
    push,         \* the WebSocket loop
    failures,     \* consecutive_failures
    okCloses,     \* consecutive_ok_close_count
    seq,          \* _kabu_push_seq
    lost,         \* history: connections lost or refused since one was had
    abandoned     \* history: the symbols of clients that left

handlerVars == <<pc, key>>
putVars == <<put, list>>
pushVars == <<push, failures, okCloses, lost>>
vars == <<online, registered, streams, handlerVars, putVars, atBroker, pushVars, seq, abandoned>>

TypeOK ==
    /\ online \in BOOLEAN
    /\ registered \in SUBSET Symbols
    /\ streams \in SUBSET Keys
    /\ pc \in [Clients -> {"idle", "subscribing", "unsubscribing"}]
    /\ key \in [Clients -> Keys \cup {NoKey}]
    /\ put \in [Putters -> {"none", "sent", "taken", "failed"}]
    /\ list \in [Putters -> SUBSET Symbols]
    /\ atBroker \in SUBSET Symbols
    /\ push \in {"none", "connecting", "registering", "open", "sleeping", "dead"}
    /\ failures \in 0 .. MaxAttempts
    /\ okCloses \in 0 .. MaxAttempts + 1
    /\ seq \in 0 .. MaxSeq
    /\ lost \in 0 .. MaxAttempts
    /\ abandoned \in SUBSET Symbols
    /\ \A c \in Clients : (pc[c] = "idle") <=> (key[c] = NoKey)
    /\ \A c \in Clients : pc[c] = "idle" => put[c] = "none"

Init ==
    /\ online = FALSE
    /\ registered = {} /\ streams = {} /\ atBroker = {}
    /\ pc = [c \in Clients |-> "idle"]
    /\ key = [c \in Clients |-> NoKey]
    /\ put = [p \in Putters |-> "none"]
    /\ list = [p \in Putters |-> {}]
    /\ push = "none" /\ failures = 0 /\ okCloses = 0 /\ lost = 0
    /\ seq = 0 /\ abandoned = {}

Symbol(k) == k[1]

-----------------------------------------------------------------------------
(* PUT /register. *)

(* _kabu_put_register: no request without a session or without symbols,
   which counts as a success.                                              *)
Put(p, symbols) ==
    /\ put' = [put EXCEPT ![p] = IF online /\ symbols # {} THEN "sent" ELSE "taken"]
    /\ list' = [list EXCEPT ![p] = symbols]

(* kabu STATION replaces its list, or the request fails, before or after. *)
BrokerTakes(p) ==
    /\ put[p] = "sent"
    /\ atBroker' = list[p]
    /\ \E answer \in {"taken", "failed"} : put' = [put EXCEPT ![p] = answer]
    /\ UNCHANGED <<online, registered, streams, handlerVars, list, pushVars, seq, abandoned>>

PutFails(p) ==
    /\ put[p] = "sent"
    /\ put' = [put EXCEPT ![p] = "failed"]
    /\ UNCHANGED <<online, registered, streams, handlerVars, list, atBroker, pushVars, seq, abandoned>>

-----------------------------------------------------------------------------
(* Subscribe and Unsubscribe. *)

(* Faulty variant: a full register set makes room. *)
RegisterEvicting(s) ==
    registered' = (IF Cardinality(registered) < MaxSymbols THEN registered ELSE {}) \cup {s}

(* RegisterSet.register: refused when full, never evicting. *)
Register(s) ==
    /\ s \in registered \/ Cardinality(registered) < MaxSymbols
    /\ registered' = registered \cup {s}

(* The key is looked for before the await of the PUT. *)
Subscribe(c, k) ==
    /\ pc[c] = "idle"
    /\ online
    /\ k \notin streams
    /\ Register(Symbol(k))
    /\ pc' = [pc EXCEPT ![c] = "subscribing"]
    /\ key' = [key EXCEPT ![c] = k]
    /\ Put(c, registered')
    /\ UNCHANGED <<online, streams, atBroker, pushVars, seq, abandoned>>

Returns(c) ==
    /\ pc' = [pc EXCEPT ![c] = "idle"]
    /\ key' = [key EXCEPT ![c] = NoKey]
    /\ put' = [put EXCEPT ![c] = "none"]
    /\ list' = [list EXCEPT ![c] = {}]

Subscribed(c) ==
    /\ pc[c] = "subscribing" /\ put[c] = "taken"
    /\ streams' = streams \cup {key[c]}
    /\ Returns(c)
    /\ UNCHANGED <<online, registered, atBroker, pushVars, seq, abandoned>>

(* Faulty variant: the symbol stays registered when the PUT has failed. *)
KeepsSymbol(c) ==
    /\ pc[c] = "subscribing" /\ put[c] = "failed"
    /\ Returns(c)
    /\ UNCHANGED <<online, registered, streams, atBroker, pushVars, seq, abandoned>>

(* Faulty variant: the PUT is repeated for as long as it fails. *)
PutsAgain(c) ==
    /\ pc[c] = "subscribing" /\ put[c] = "failed"
    /\ Put(c, registered)
    /\ UNCHANGED <<online, registered, streams, handlerVars, atBroker, pushVars, seq, abandoned>>

SubscribeFails(c) ==
    /\ pc[c] = "subscribing" /\ put[c] = "failed"
    /\ registered' = registered \ {Symbol(key[c])}
    /\ Returns(c)
    /\ UNCHANGED <<online, streams, atBroker, pushVars, seq, abandoned>>

(* The stream goes at once, then the symbol, whoever else uses it. *)
Unsubscribe(c, k) ==
    /\ pc[c] = "idle"
    /\ k \in streams
    /\ streams' = streams \ {k}
    /\ registered' = registered \ {Symbol(k)}
    /\ pc' = [pc EXCEPT ![c] = "unsubscribing"]
    /\ key' = [key EXCEPT ![c] = k]
    /\ Put(c, registered')
    /\ UNCHANGED <<online, atBroker, pushVars, seq, abandoned>>

(* A failed PUT is logged. *)
Unsubscribed(c) ==
    /\ pc[c] = "unsubscribing" /\ put[c] \in {"taken", "failed"}
    /\ Returns(c)
    /\ UNCHANGED <<online, registered, streams, atBroker, pushVars, seq, abandoned>>

(* The client leaves and its handler is cancelled, the symbol registered;
   with the last client go the streams.                                    *)
ClientLeaves(c) ==
    /\ Returns(c)
    /\ \/ /\ UNCHANGED streams
          /\ abandoned' = abandoned \cup {Symbol(k) : k \in {key[c]} \ {NoKey}}
       \/ /\ \A d \in Clients \ {c} : pc[d] = "idle"
          /\ streams' = {}
          /\ abandoned' = abandoned \cup {Symbol(k) : k \in streams \cup ({key[c]} \ {NoKey})}
    /\ UNCHANGED <<online, registered, atBroker, pushVars, seq>>

-----------------------------------------------------------------------------
(* The session and the WebSocket loop. *)

(* A login starts the loop unless it runs, and numbers from one again. *)
Login ==
    /\ ~online
    /\ online' = TRUE
    /\ seq' = 0
    /\ IF push \in {"none", "dead"}
       THEN /\ push' = "connecting" /\ failures' = 0 /\ okCloses' = 0 /\ lost' = 0
       ELSE UNCHANGED pushVars
    /\ UNCHANGED <<registered, streams, handlerVars, putVars, atBroker, abandoned>>

(* _clear_kabu_session cancels the loop. *)
SessionCleared ==
    /\ online
    /\ online' = FALSE
    /\ push' = "none" /\ failures' = 0 /\ okCloses' = 0 /\ lost' = 0
    /\ put' = [put EXCEPT ![Loop] = "none"]
    /\ list' = [list EXCEPT ![Loop] = {}]
    /\ UNCHANGED <<registered, streams, handlerVars, atBroker, seq, abandoned>>

(* consecutive_failures once a connection is had. *)
FailuresOnOpen == 0

(* Connected: everything registered is sent again. *)
Opens ==
    /\ push = "connecting"
    /\ push' = "registering"
    /\ failures' = FailuresOnOpen /\ lost' = 0
    /\ Put(Loop, registered)
    /\ UNCHANGED <<online, registered, streams, handlerVars, atBroker, okCloses, seq, abandoned>>

(* A failed PUT is logged, and the loop listens all the same. *)
Registered ==
    /\ push = "registering" /\ put[Loop] \in {"taken", "failed"}
    /\ push' = "open"
    /\ put' = [put EXCEPT ![Loop] = "none"]
    /\ list' = [list EXCEPT ![Loop] = {}]
    /\ UNCHANGED <<online, registered, streams, handlerVars, atBroker, failures, okCloses, lost, seq, abandoned>>

Message ==
    /\ push = "open" /\ atBroker # {}
    /\ okCloses' = 0
    /\ seq' = IF seq < MaxSeq THEN seq + 1 ELSE seq
    /\ UNCHANGED <<online, registered, streams, handlerVars, putVars, atBroker,
                   push, failures, lost, abandoned>>

(* An hour without a message: the connection is given up. *)
Silent ==
    /\ push = "open"
    /\ push' = "sleeping"
    /\ UNCHANGED <<online, registered, streams, handlerVars, putVars, atBroker,
                   failures, okCloses, lost, seq, abandoned>>

(* Refused, broken, or a message that does not parse. *)
Breaks ==
    /\ push \in {"connecting", "open"}
    /\ failures' = failures + 1
    /\ lost' = lost + 1
    /\ push' = IF failures' >= MaxAttempts THEN "dead" ELSE "sleeping"
    /\ UNCHANGED <<online, registered, streams, handlerVars, putVars, atBroker, okCloses, seq, abandoned>>

(* Closed in order by kabu STATION: counted apart, and one more allowed. *)
ClosesOk ==
    /\ push = "open"
    /\ okCloses' = okCloses + 1
    /\ push' = IF okCloses' > MaxAttempts THEN "dead" ELSE "sleeping"
    /\ UNCHANGED <<online, registered, streams, handlerVars, putVars, atBroker,
                   failures, lost, seq, abandoned>>

(* Five seconds later. *)
Retries ==
    /\ push = "sleeping"
    /\ push' = "connecting"
    /\ UNCHANGED <<online, registered, streams, handlerVars, putVars, atBroker,
                   failures, okCloses, lost, seq, abandoned>>

Next ==
    \/ \E p \in Putters : BrokerTakes(p) \/ PutFails(p)
    \/ \E c \in Clients :
          \/ \E k \in Keys : Subscribe(c, k) \/ Unsubscribe(c, k)
          \/ Subscribed(c) \/ SubscribeFails(c) \/ Unsubscribed(c) \/ ClientLeaves(c)
    \/ Login \/ SessionCleared
    \/ Opens \/ Registered \/ Message \/ Silent \/ Breaks \/ ClosesOk \/ Retries

Spec == Init /\ [][Next]_vars

(* A PUT is answered or times out after 30 seconds, the event loop runs what
   is ready, and a connection attempt succeeds or fails.                   *)
FairSpec ==
    /\ Spec
    /\ \A p \in Putters : WF_vars(BrokerTakes(p) \/ PutFails(p))
    /\ \A c \in Clients : WF_vars(Subscribed(c) \/ SubscribeFails(c) \/ Unsubscribed(c))
    /\ WF_vars(Opens \/ (push = "connecting" /\ Breaks))
    /\ WF_vars(Registered) /\ WF_vars(Retries)

-----------------------------------------------------------------------------
(* Properties. *)

(* Every stream's symbol is in register_set, so the next connection brings it
   back; so is that of a Subscribe under way.                               *)
StreamsRegistered == \A k \in streams : Symbol(k) \in registered
NewStreams == \A c \in Clients : pc[c] = "subscribing" => key[c] \notin streams
                                                          /\ Symbol(key[c]) \in registered

(* A symbol has one stream, and one Subscribe under way, at most. *)
OnePerSymbol ==
    /\ \A k, l \in streams \cup {key[c] : c \in {d \in Clients : pc[d] = "subscribing"}} :
          Symbol(k) = Symbol(l) => k = l
    /\ \A c, d \in Clients :
          pc[c] = "subscribing" /\ pc[d] = "subscribing" /\ key[c] = key[d] => c = d

(* As long as no symbol has two of them, no step takes away what one needs: not
   an Unsubscribe or a failed PUT of another client, not a reconnection, a
   login or a logout, nor PUTs that overtake one another.                   *)
KeepsSymbols ==
    [][OnePerSymbol /\ StreamsRegistered /\ NewStreams => StreamsRegistered' /\ NewStreams']_vars

(* kabu STATION is never sent more symbols than it takes. *)
WithinLimit ==
    /\ Cardinality(registered) <= MaxSymbols
    /\ Cardinality(atBroker) <= MaxSymbols
    /\ \A p \in Putters : Cardinality(list[p]) <= MaxSymbols

(* A symbol is registered for a stream, for a Subscribe under way, or was
   left by a client that went: no failed PUT leaves one behind.            *)
LeftByLeaversOnly ==
    registered \subseteq {Symbol(k) : k \in streams}
                          \cup {Symbol(key[c]) : c \in {d \in Clients : pc[d] = "subscribing"}}
                          \cup abandoned

(* The loop gives up only after MaxAttempts connections in a row that were
   refused or broken, or more orderly closings than that without a message
   in between.                                                             *)
GivesUpLate == push = "dead" => lost >= MaxAttempts \/ okCloses > MaxAttempts

(* A lost connection is tried again until it is had or given up. *)
LoopGoesOn == push \in {"sleeping", "connecting", "registering"} ~> push \in {"open", "dead", "none"}

(* Every handler of a client ends. *)
HandlersEnd == \A c \in Clients : pc[c] # "idle" ~> pc[c] = "idle"

(* Refuted, with depth and trades of one symbol subscribed: unsubscribing
   the one takes the symbol, and with it the pushes, from the other.
   "depth / trade ストリームのキーを _streams に登録して Unsubscribe まで保持"
   is StreamsRegistered for Kinds of two members.                          *)

(* Refuted: at rest, kabu STATION pushes what register_set holds.  PUTs that
   overtake one another leave the older list in force, and an empty list is
   never sent.                                                             *)
AtRestServed ==
    /\ online /\ push = "open"
    /\ \A p \in Putters : put[p] = "none"
    => \A k \in streams : Symbol(k) \in atBroker

(* Refuted: only symbols of streams stay registered.  A client that leaves
   takes its streams, not their symbols; fifty of them refuse the rest.    *)
NoneLeft == (\A c \in Clients : pc[c] = "idle") => \A s \in registered : \E k \in streams : Symbol(k) = s

(* Refuted: a login numbers from one again under the same stream session
   id ("ログイン成功時に採番（seq リセット）").                           *)
NumbersGrow == [][seq' >= seq]_seq
=============================================================================
