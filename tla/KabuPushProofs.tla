--------------------------- MODULE KabuPushProofs ---------------------------
(* Proofs about KabuPush, for every set of clients, symbols and kinds and every
   limit.                                                                    *)
EXTENDS KabuPush, FiniteSetTheorems, TLAPS

(* The loop counts what was lost, and stops in the step that reaches the
   bound: whoever is not dead has an attempt left.                         *)
AttemptsLeft ==
    /\ failures = lost
    /\ push # "dead" => failures < MaxAttempts /\ okCloses <= MaxAttempts

IInv == TypeOK /\ AttemptsLeft /\ GivesUpLate /\ WithinLimit /\ LeftByLeaversOnly

(* The parts of the invariant by the variables they are about. *)
PushTypes ==
    /\ push \in {"none", "connecting", "registering", "open", "sleeping", "dead"}
    /\ failures \in 0 .. MaxAttempts
    /\ okCloses \in 0 .. MaxAttempts + 1
    /\ lost \in 0 .. MaxAttempts
ClientTypes ==
    /\ pc \in [Clients -> {"idle", "subscribing", "unsubscribing"}]
    /\ key \in [Clients -> Keys \cup {NoKey}]
    /\ put \in [Putters -> {"none", "sent", "taken", "failed"}]
    /\ list \in [Putters -> SUBSET Symbols]
    /\ \A c \in Clients : (pc[c] = "idle") <=> (key[c] = NoKey)
    /\ \A c \in Clients : pc[c] = "idle" => put[c] = "none"
SetTypes ==
    /\ registered \in SUBSET Symbols
    /\ streams \in SUBSET Keys
    /\ atBroker \in SUBSET Symbols
    /\ abandoned \in SUBSET Symbols

LEMMA Parts ==
    TypeOK <=> PushTypes /\ ClientTypes /\ SetTypes /\ online \in BOOLEAN /\ seq \in 0 .. MaxSeq
BY DEF TypeOK, PushTypes, ClientTypes, SetTypes

PushInv == PushTypes /\ AttemptsLeft /\ GivesUpLate

LEMMA SymbolsOfKeys == \A k \in Keys : Symbol(k) \in Symbols
BY DEF Keys, Symbol

-----------------------------------------------------------------------------
(* Each client and the loop keep the bound on attempts. *)

PushStep == Login \/ SessionCleared \/ Opens \/ Registered \/ Message \/ Silent
            \/ Breaks \/ ClosesOk \/ Retries

LEMMA PushKept == ASSUME PushInv, UNCHANGED pushVars PROVE PushInv'
BY DEF PushInv, PushTypes, AttemptsLeft, GivesUpLate, pushVars

LEMMA PushSteps == ASSUME PushInv, PushStep PROVE PushInv'
<1> USE PushAssumption DEF PushInv, PushTypes, AttemptsLeft, GivesUpLate
<1>1. CASE Login
  <2>1. CASE push \in {"none", "dead"}
    BY <1>1, <2>1 DEF Login
  <2>2. CASE push \notin {"none", "dead"}
    BY <1>1, <2>2, PushKept DEF Login
  <2> QED
    BY <2>1, <2>2
<1>2. CASE SessionCleared
  BY <1>2 DEF SessionCleared
<1>3. CASE Opens
  BY <1>3 DEF Opens, FailuresOnOpen
<1>4. CASE Registered
  BY <1>4 DEF Registered
<1>5. CASE Message
  BY <1>5 DEF Message
<1>6. CASE Silent
  BY <1>6 DEF Silent
<1>7. CASE Breaks
  BY <1>7 DEF Breaks
<1>8. CASE ClosesOk
  BY <1>8 DEF ClosesOk
<1>9. CASE Retries
  BY <1>9 DEF Retries
<1> QED
  BY <1>1, <1>2, <1>3, <1>4, <1>5, <1>6, <1>7, <1>8, <1>9 DEF PushStep

-----------------------------------------------------------------------------
(* PUT /register. *)

LEMMA PutTypes ==
    ASSUME NEW p \in Putters, NEW symbols \in SUBSET Symbols, Put(p, symbols),
           put \in [Putters -> {"none", "sent", "taken", "failed"}],
           list \in [Putters -> SUBSET Symbols]
    PROVE  /\ put' \in [Putters -> {"none", "sent", "taken", "failed"}]
           /\ list' \in [Putters -> SUBSET Symbols]
           /\ list'[p] = symbols
           /\ \A q \in Putters : q # p => list'[q] = list[q] /\ put'[q] = put[q]
BY DEF Put

LEMMA ReturnTypes ==
    ASSUME ClientTypes, NEW c \in Clients, Returns(c)
    PROVE  ClientTypes' /\ \A p \in Putters : list'[p] \in {{}, list[p]}
<1>1. c \in Putters
  BY DEF Putters
<1> QED
  BY <1>1 DEF ClientTypes, Returns

(* A part of a finite set of symbols is no larger than the set. *)
LEMMA Fewer ==
    ASSUME NEW S \in SUBSET Symbols, NEW T \in SUBSET S
    PROVE  Cardinality(S) \in Nat /\ Cardinality(T) \in Nat /\ Cardinality(T) <= Cardinality(S)
<1>1. IsFiniteSet(S)
  BY PushAssumption, FS_Subset
<1> QED
  BY <1>1, FS_Subset, FS_CardinalityType

LEMMA OneMore ==
    ASSUME NEW S \in SUBSET Symbols, NEW s \in Symbols, Cardinality(S) < MaxSymbols
    PROVE  Cardinality(S \cup {s}) <= MaxSymbols
<1>1. IsFiniteSet(S)
  BY PushAssumption, FS_Subset
<1>2. Cardinality(S) \in Nat
  BY <1>1, FS_CardinalityType
<1>3. Cardinality(S \cup {s}) = IF s \in S THEN Cardinality(S) ELSE Cardinality(S) + 1
  BY <1>1, FS_AddElement
<1> QED
  BY <1>2, <1>3, PushAssumption

-----------------------------------------------------------------------------
(* The limit, and what is left registered. *)

ListInv == ClientTypes /\ SetTypes /\ WithinLimit /\ LeftByLeaversOnly

(* A step keeps the limit that registers nothing but by Register, and puts
   only what was registered.                                               *)
LEMMA LimitKept ==
    ASSUME SetTypes, SetTypes', ClientTypes, ClientTypes', WithinLimit,
           \/ registered' \subseteq registered
           \/ \E s \in Symbols : Register(s),
           \/ atBroker' = atBroker
           \/ \E q \in Putters : atBroker' = list[q],
           \A p \in Putters : list'[p] \in {{}, list[p], registered', registered}
    PROVE  WithinLimit'
<1>1. Cardinality(registered') <= MaxSymbols
  <2>1. CASE registered' \subseteq registered
    BY <2>1, Fewer, PushAssumption DEF SetTypes, WithinLimit
  <2>2. ASSUME NEW s \in Symbols, Register(s) PROVE Cardinality(registered') <= MaxSymbols
    <3>1. CASE s \in registered
      <4>1. registered' = registered
        BY <2>2, <3>1 DEF Register
      <4> QED
        BY <4>1 DEF WithinLimit
    <3>2. CASE s \notin registered
      BY <2>2, <3>2, OneMore DEF SetTypes, Register
    <3> QED
      BY <3>1, <3>2
  <2> QED
    BY <2>1, <2>2
<1>2. Cardinality(atBroker') <= MaxSymbols
  BY DEF WithinLimit
<1>3. Cardinality({}) <= MaxSymbols
  BY FS_EmptySet, PushAssumption
<1>4. \A p \in Putters : Cardinality(list'[p]) <= MaxSymbols
  BY <1>1, <1>3 DEF WithinLimit
<1> QED
  BY <1>1, <1>2, <1>4 DEF WithinLimit

(* The symbols a client's Subscribe is about. *)
Subscribing == {Symbol(key[c]) : c \in {d \in Clients : pc[d] = "subscribing"}}

LEMMA AnswerSteps ==
    ASSUME ListInv, NEW p \in Putters, BrokerTakes(p) \/ PutFails(p)
    PROVE  ListInv'
<1>1. put[p] = "sent" /\ \E answer \in {"taken", "failed"} : put' = [put EXCEPT ![p] = answer]
      /\ UNCHANGED <<registered, streams, pc, key, list, abandoned>>
      /\ (atBroker' = atBroker \/ atBroker' = list[p])
  BY DEF BrokerTakes, PutFails, handlerVars
<1>2. ClientTypes' /\ SetTypes'
  BY <1>1 DEF ListInv, ClientTypes, SetTypes
<1>3. WithinLimit'
  <2>1. registered' \subseteq registered
        /\ (atBroker' = atBroker \/ \E q \in Putters : atBroker' = list[q])
        /\ \A q \in Putters : list'[q] \in {{}, list[q], registered', registered}
    BY <1>1
  <2> QED
    BY <1>2, <2>1, LimitKept DEF ListInv
<1>4. LeftByLeaversOnly'
  BY <1>1 DEF ListInv, LeftByLeaversOnly
<1> QED
  BY <1>2, <1>3, <1>4 DEF ListInv

LEMMA SubscribeStep ==
    ASSUME ListInv, NEW c \in Clients, NEW k \in Keys, Subscribe(c, k)
    PROVE  ListInv'
<1>1. /\ pc[c] = "idle" /\ Register(Symbol(k)) /\ Put(c, registered')
      /\ pc' = [pc EXCEPT ![c] = "subscribing"] /\ key' = [key EXCEPT ![c] = k]
      /\ UNCHANGED <<streams, atBroker, abandoned>>
  BY DEF Subscribe
<1>2. c \in Putters /\ Symbol(k) \in Symbols /\ k # NoKey
  BY SymbolsOfKeys, PushAssumption DEF Putters, Keys
<1>3. SetTypes'
  BY <1>1, <1>2 DEF ListInv, SetTypes, Register
<1>4. /\ put' \in [Putters -> {"none", "sent", "taken", "failed"}]
      /\ list' \in [Putters -> SUBSET Symbols] /\ list'[c] = registered'
      /\ \A q \in Putters : q # c => list'[q] = list[q] /\ put'[q] = put[q]
  BY <1>1, <1>2, <1>3, PutTypes DEF ListInv, ClientTypes, SetTypes
<1>5. ClientTypes'
  <2>1. pc' \in [Clients -> {"idle", "subscribing", "unsubscribing"}] /\ key' \in [Clients -> Keys \cup {NoKey}]
    BY <1>1 DEF ListInv, ClientTypes
  <2>2. \A d \in Clients : /\ (pc'[d] = "idle") <=> (key'[d] = NoKey)
                           /\ pc'[d] = "idle" => put'[d] = "none"
    BY <1>1, <1>2, <1>4 DEF ListInv, ClientTypes, Putters
  <2> QED
    BY <1>4, <2>1, <2>2 DEF ClientTypes
<1>6. WithinLimit'
  <2>1. (\E s \in Symbols : Register(s)) /\ atBroker' = atBroker
        /\ \A q \in Putters : list'[q] \in {{}, list[q], registered', registered}
    BY <1>1, <1>2, <1>4
  <2> QED
    BY <1>3, <1>5, <2>1, LimitKept DEF ListInv
<1>7. LeftByLeaversOnly'
  <2>1. Subscribing' = Subscribing \cup {Symbol(k)}
    BY <1>1 DEF Subscribing, ListInv, ClientTypes
  <2>2. registered' = registered \cup {Symbol(k)}
    BY <1>1 DEF Register
  <2> QED
    BY <1>1, <2>1, <2>2 DEF ListInv, LeftByLeaversOnly, Subscribing
<1> QED
  BY <1>3, <1>5, <1>6, <1>7 DEF ListInv

LEMMA UnsubscribeStep ==
    ASSUME ListInv, NEW c \in Clients, NEW k \in Keys, Unsubscribe(c, k)
    PROVE  ListInv'
<1>1. /\ pc[c] = "idle" /\ Put(c, registered')
      /\ streams' = streams \ {k} /\ registered' = registered \ {Symbol(k)}
      /\ pc' = [pc EXCEPT ![c] = "unsubscribing"] /\ key' = [key EXCEPT ![c] = k]
      /\ UNCHANGED <<atBroker, abandoned>>
  BY DEF Unsubscribe
<1>2. c \in Putters /\ k # NoKey
  BY PushAssumption DEF Putters, Keys
<1>3. SetTypes'
  BY <1>1 DEF ListInv, SetTypes
<1>4. /\ put' \in [Putters -> {"none", "sent", "taken", "failed"}]
      /\ list' \in [Putters -> SUBSET Symbols] /\ list'[c] = registered'
      /\ \A q \in Putters : q # c => list'[q] = list[q] /\ put'[q] = put[q]
  BY <1>1, <1>2, <1>3, PutTypes DEF ListInv, ClientTypes, SetTypes
<1>5. ClientTypes'
  <2>1. pc' \in [Clients -> {"idle", "subscribing", "unsubscribing"}] /\ key' \in [Clients -> Keys \cup {NoKey}]
    BY <1>1 DEF ListInv, ClientTypes
  <2>2. \A d \in Clients : /\ (pc'[d] = "idle") <=> (key'[d] = NoKey)
                           /\ pc'[d] = "idle" => put'[d] = "none"
    BY <1>1, <1>2, <1>4 DEF ListInv, ClientTypes, Putters
  <2> QED
    BY <1>4, <2>1, <2>2 DEF ClientTypes
<1>6. WithinLimit'
  <2>1. registered' \subseteq registered /\ atBroker' = atBroker
        /\ \A q \in Putters : list'[q] \in {{}, list[q], registered', registered}
    BY <1>1, <1>4
  <2> QED
    BY <1>3, <1>5, <2>1, LimitKept DEF ListInv
<1>7. LeftByLeaversOnly'
  <2>1. Subscribing' = Subscribing
    BY <1>1 DEF Subscribing, ListInv, ClientTypes
  <2> QED
    BY <1>1, <2>1 DEF ListInv, LeftByLeaversOnly, Subscribing
<1> QED
  BY <1>3, <1>5, <1>6, <1>7 DEF ListInv

LEMMA ReturnSteps ==
    ASSUME ListInv, NEW c \in Clients,
           Subscribed(c) \/ SubscribeFails(c) \/ Unsubscribed(c) \/ ClientLeaves(c)
    PROVE  ListInv'
<1>1. Returns(c) /\ atBroker' = atBroker /\ registered' \subseteq registered
  BY DEF Subscribed, SubscribeFails, Unsubscribed, ClientLeaves
<1>2. ClientTypes' /\ \A p \in Putters : list'[p] \in {{}, list[p]}
  BY <1>1, ReturnTypes DEF ListInv
<1>3. key[c] \in Keys \cup {NoKey} /\ (pc[c] # "idle" => key[c] \in Keys) /\ streams \subseteq Keys
  BY DEF ListInv, ClientTypes, SetTypes
<1>4. SetTypes'
  BY <1>3, SymbolsOfKeys
     DEF ListInv, SetTypes, Subscribed, SubscribeFails, Unsubscribed, ClientLeaves
<1>5. WithinLimit'
  BY <1>1, <1>2, <1>4, LimitKept DEF ListInv
<1>6. \A s \in Subscribing : s \in Subscribing' \/ (pc[c] = "subscribing" /\ s = Symbol(key[c]))
  BY <1>1 DEF Returns, Subscribing, ListInv, ClientTypes
<1>7. registered \subseteq {Symbol(k) : k \in streams} \cup Subscribing \cup abandoned
  BY DEF ListInv, LeftByLeaversOnly, Subscribing
<1>8. registered' \subseteq {Symbol(k) : k \in streams'} \cup Subscribing' \cup abandoned'
  <2>1. CASE Subscribed(c)
    BY <1>6, <1>7, <2>1 DEF Subscribed
  <2>2. CASE SubscribeFails(c)
    BY <1>6, <1>7, <2>2 DEF SubscribeFails
  <2>3. CASE Unsubscribed(c)
    BY <1>6, <1>7, <2>3 DEF Unsubscribed
  <2>4. CASE ClientLeaves(c)
    <3>1. pc[c] = "subscribing" => Symbol(key[c]) \in abandoned'
      BY <1>3, <2>4, PushAssumption DEF ClientLeaves, Keys
    <3>2. registered' = registered /\ abandoned \subseteq abandoned'
      BY <2>4 DEF ClientLeaves
    <3>3. \/ streams' = streams
          \/ {Symbol(k) : k \in streams} \subseteq abandoned'
      BY <2>4 DEF ClientLeaves
    <3> QED
      BY <1>6, <1>7, <3>1, <3>2, <3>3
  <2> QED
    BY <2>1, <2>2, <2>3, <2>4
<1>9. LeftByLeaversOnly'
  BY <1>8 DEF LeftByLeaversOnly, Subscribing
<1> QED
  BY <1>2, <1>4, <1>5, <1>9 DEF ListInv

(* The steps of the loop and of the session, for what the clients see. *)
LEMMA LoopSteps ==
    ASSUME ListInv, PushStep
    PROVE  ListInv'
<1> USE PushAssumption
<1>1. Loop \in Putters /\ Loop \notin Clients /\ Clients \subseteq Putters
  BY DEF Putters
<1>2. /\ UNCHANGED <<registered, streams, pc, key, atBroker, abandoned>>
      /\ \/ UNCHANGED putVars
         \/ Put(Loop, registered)
         \/ put' = [put EXCEPT ![Loop] = "none"] /\ list' = [list EXCEPT ![Loop] = {}]
  BY DEF PushStep, Login, SessionCleared, Opens, Registered, Message, Silent, Breaks, ClosesOk,
         Retries, handlerVars, putVars
<1>3. /\ put' \in [Putters -> {"none", "sent", "taken", "failed"}]
      /\ list' \in [Putters -> SUBSET Symbols]
      /\ list'[Loop] \in {{}, list[Loop], registered}
      /\ \A q \in Putters : q # Loop => list'[q] = list[q] /\ put'[q] = put[q]
  <2>1. registered \in SUBSET Symbols /\ put \in [Putters -> {"none", "sent", "taken", "failed"}]
        /\ list \in [Putters -> SUBSET Symbols]
    BY DEF ListInv, SetTypes, ClientTypes
  <2>2. CASE UNCHANGED putVars
    BY <1>1, <2>1, <2>2 DEF putVars
  <2>3. CASE Put(Loop, registered)
    BY <1>1, <2>1, <2>3, PutTypes
  <2>4. CASE put' = [put EXCEPT ![Loop] = "none"] /\ list' = [list EXCEPT ![Loop] = {}]
    BY <1>1, <2>1, <2>4
  <2> QED
    BY <1>2, <2>2, <2>3, <2>4
<1>4. ClientTypes'
  <2>1. \A d \in Clients : put'[d] = put[d]
    BY <1>1, <1>3
  <2> QED
    BY <1>2, <1>3, <2>1 DEF ListInv, ClientTypes
<1>5. SetTypes'
  BY <1>2 DEF ListInv, SetTypes
<1>6. WithinLimit'
  <2>1. registered' \subseteq registered /\ atBroker' = atBroker
        /\ \A q \in Putters : list'[q] \in {{}, list[q], registered', registered}
    BY <1>2, <1>3
  <2> QED
    BY <1>4, <1>5, <2>1, LimitKept DEF ListInv
<1>7. LeftByLeaversOnly'
  BY <1>2 DEF ListInv, LeftByLeaversOnly
<1> QED
  BY <1>4, <1>5, <1>6, <1>7 DEF ListInv

-----------------------------------------------------------------------------
(* The invariant. *)

LEMMA Split == IInv <=> PushInv /\ ListInv /\ online \in BOOLEAN /\ seq \in 0 .. MaxSeq
BY Parts DEF IInv, PushInv, ListInv

LEMMA SplitNext ==
    ASSUME PushInv', ListInv', online' \in BOOLEAN, seq' \in 0 .. MaxSeq
    PROVE  IInv'
BY DEF IInv, TypeOK, PushInv, ListInv, PushTypes, ClientTypes, SetTypes

LEMMA InitInv == Init => IInv
<1> SUFFICES ASSUME Init PROVE IInv
  OBVIOUS
<1>1. Cardinality({}) = 0
  BY FS_EmptySet
<1>2. WithinLimit
  BY <1>1, PushAssumption DEF Init, WithinLimit
<1>3. PushInv
  BY PushAssumption DEF Init, PushInv, PushTypes, AttemptsLeft, GivesUpLate
<1>4. ClientTypes
  BY DEF Init, ClientTypes, Putters
<1>5. SetTypes /\ LeftByLeaversOnly /\ online \in BOOLEAN
  BY DEF Init, SetTypes, LeftByLeaversOnly
<1>6. seq \in 0 .. MaxSeq
  BY PushAssumption DEF Init
<1> QED
  BY <1>2, <1>3, <1>4, <1>5, <1>6, Split DEF ListInv

LEMMA NextInv == IInv /\ [Next]_vars => IInv'
<1> SUFFICES ASSUME IInv, [Next]_vars PROVE IInv'
  OBVIOUS
<1>1. PushInv /\ ListInv /\ online \in BOOLEAN /\ seq \in 0 .. MaxSeq
  BY Split
<1>2. ASSUME NEW p \in Putters, BrokerTakes(p) \/ PutFails(p) PROVE IInv'
  <2>1. UNCHANGED pushVars /\ online' = online /\ seq' = seq
    BY <1>2 DEF BrokerTakes, PutFails
  <2>2. PushInv' /\ ListInv'
    BY <1>1, <1>2, <2>1, PushKept, AnswerSteps
  <2> QED
    BY <1>1, <2>1, <2>2, SplitNext
<1>3. ASSUME NEW c \in Clients, NEW k \in Keys, Subscribe(c, k) PROVE IInv'
  <2>1. UNCHANGED pushVars /\ online' = online /\ seq' = seq
    BY <1>3 DEF Subscribe
  <2>2. PushInv' /\ ListInv'
    BY <1>1, <1>3, <2>1, PushKept, SubscribeStep
  <2> QED
    BY <1>1, <2>1, <2>2, SplitNext
<1>4. ASSUME NEW c \in Clients, NEW k \in Keys, Unsubscribe(c, k) PROVE IInv'
  <2>1. UNCHANGED pushVars /\ online' = online /\ seq' = seq
    BY <1>4 DEF Unsubscribe
  <2>2. PushInv' /\ ListInv'
    BY <1>1, <1>4, <2>1, PushKept, UnsubscribeStep
  <2> QED
    BY <1>1, <2>1, <2>2, SplitNext
<1>5. ASSUME NEW c \in Clients,
             Subscribed(c) \/ SubscribeFails(c) \/ Unsubscribed(c) \/ ClientLeaves(c)
      PROVE  IInv'
  <2>1. UNCHANGED pushVars /\ online' = online /\ seq' = seq
    BY <1>5 DEF Subscribed, SubscribeFails, Unsubscribed, ClientLeaves
  <2>2. PushInv' /\ ListInv'
    BY <1>1, <1>5, <2>1, PushKept, ReturnSteps
  <2> QED
    BY <1>1, <2>1, <2>2, SplitNext
<1>6. CASE PushStep
  <2>1. online' \in {online, TRUE, FALSE} /\ seq' \in {seq, 0, IF seq < MaxSeq THEN seq + 1 ELSE seq}
    <3>1. CASE Login
      BY <3>1 DEF Login
    <3>2. CASE SessionCleared
      BY <3>2 DEF SessionCleared
    <3>3. CASE Message
      BY <3>3 DEF Message
    <3>4. CASE Opens \/ Registered
      BY <3>4 DEF Opens, Registered
    <3>5. CASE Silent \/ Breaks \/ ClosesOk \/ Retries
      BY <3>5 DEF Silent, Breaks, ClosesOk, Retries
    <3> QED
      BY <1>6, <3>1, <3>2, <3>3, <3>4, <3>5 DEF PushStep
  <2>3. seq' \in 0 .. MaxSeq
    BY <1>1, <2>1, PushAssumption
  <2>2. PushInv' /\ ListInv'
    BY <1>1, <1>6, PushSteps, LoopSteps
  <2> QED
    BY <1>1, <2>1, <2>2, <2>3, SplitNext
<1>7. CASE UNCHANGED vars
  <2>1. UNCHANGED <<online, registered, streams, pc, key, put, list, atBroker,
                    push, failures, okCloses, lost, seq, abandoned>>
    BY <1>7 DEF vars, handlerVars, putVars, pushVars
  <2>2. PushInv'
    BY <1>1, <2>1, PushKept DEF pushVars
  <2>3. ListInv'
    BY <1>1, <2>1 DEF ListInv, ClientTypes, SetTypes, WithinLimit, LeftByLeaversOnly
  <2> QED
    BY <1>1, <2>1, <2>2, <2>3, SplitNext
<1> QED
  BY <1>2, <1>3, <1>4, <1>5, <1>6, <1>7 DEF Next, PushStep

LEMMA Inductive == Spec => []IInv
BY InitInv, NextInv, PTL DEF Spec

(* Every value is of its kind, and an idle client awaits no PUT. *)
THEOREM KabuTypeOK == Spec => []TypeOK
<1>1. IInv => TypeOK
  BY DEF IInv
<1> QED
  BY <1>1, Inductive, PTL

(* Neither the register set, nor a list on its way, nor what kabu STATION
   holds is ever longer than the limit, however the PUTs overtake one another. *)
THEOREM KabuWithinLimit == Spec => []WithinLimit
<1>1. IInv => WithinLimit
  BY DEF IInv
<1> QED
  BY <1>1, Inductive, PTL

(* The loop is dead only after MaxAttempts failures in a row, or more orderly
   closings than that.                                                      *)
THEOREM KabuGivesUpLate == Spec => []GivesUpLate
<1>1. IInv => GivesUpLate
  BY DEF IInv
<1> QED
  BY <1>1, Inductive, PTL

(* A registered symbol belongs to a stream, to a Subscribe under way, or to a
   client that left: a failed PUT leaves none behind.                       *)
THEOREM KabuLeftByLeaversOnly == Spec => []LeftByLeaversOnly
<1>1. IInv => LeftByLeaversOnly
  BY DEF IInv
<1> QED
  BY <1>1, Inductive, PTL

-----------------------------------------------------------------------------
(* Streams whose symbol nobody else is about (OnePerSymbol).                *)

LEMMA RegisteredStep ==
    ASSUME TypeOK, OnePerSymbol, StreamsRegistered, NewStreams, [Next]_vars
    PROVE  StreamsRegistered' /\ NewStreams'
<1> USE DEF StreamsRegistered, NewStreams
<1>1. ASSUME UNCHANGED <<registered, streams, pc, key>> PROVE StreamsRegistered' /\ NewStreams'
  BY <1>1
<1>2. ASSUME NEW p \in Putters, BrokerTakes(p) \/ PutFails(p) PROVE UNCHANGED <<registered, streams, pc, key>>
  BY <1>2 DEF BrokerTakes, PutFails, handlerVars
<1>3. ASSUME NEW c \in Clients, NEW k \in Keys, Subscribe(c, k) PROVE StreamsRegistered' /\ NewStreams'
  <2>1. /\ streams' = streams /\ registered' = registered \cup {Symbol(k)} /\ k \notin streams
        /\ pc' = [pc EXCEPT ![c] = "subscribing"] /\ key' = [key EXCEPT ![c] = k]
    BY <1>3 DEF Subscribe, Register
  <2>2. pc \in [Clients -> {"idle", "subscribing", "unsubscribing"}] /\ key \in [Clients -> Keys \cup {NoKey}]
    BY DEF TypeOK
  <2> QED
    BY <2>1, <2>2
<1>4. ASSUME NEW c \in Clients, NEW k \in Keys, Unsubscribe(c, k) PROVE StreamsRegistered' /\ NewStreams'
  <2>1. /\ streams' = streams \ {k} /\ registered' = registered \ {Symbol(k)} /\ k \in streams
        /\ pc' = [pc EXCEPT ![c] = "unsubscribing"] /\ key' = [key EXCEPT ![c] = k]
    BY <1>4 DEF Unsubscribe
  <2>2. pc \in [Clients -> {"idle", "subscribing", "unsubscribing"}] /\ key \in [Clients -> Keys \cup {NoKey}]
    BY DEF TypeOK
  <2>3. StreamsRegistered'
    BY <2>1 DEF OnePerSymbol
  <2>4. ASSUME NEW d \in Clients, pc'[d] = "subscribing"
        PROVE  key'[d] \notin streams' /\ Symbol(key'[d]) \in registered'
    <3>1. d # c /\ pc[d] = "subscribing" /\ key'[d] = key[d]
      BY <2>1, <2>2, <2>4
    <3>2. key[d] \notin streams /\ Symbol(key[d]) \in registered
      BY <3>1
    <3>3. Symbol(key[d]) # Symbol(k)
      BY <2>1, <3>1, <3>2 DEF OnePerSymbol
    <3> QED
      BY <2>1, <3>1, <3>2, <3>3
  <2> QED
    BY <2>3, <2>4
<1>5. ASSUME NEW c \in Clients,
             Subscribed(c) \/ SubscribeFails(c) \/ Unsubscribed(c) \/ ClientLeaves(c)
      PROVE  StreamsRegistered' /\ NewStreams'
  <2>1. /\ pc' = [pc EXCEPT ![c] = "idle"] /\ key' = [key EXCEPT ![c] = NoKey]
    BY <1>5 DEF Subscribed, SubscribeFails, Unsubscribed, ClientLeaves, Returns
  <2>2. pc \in [Clients -> {"idle", "subscribing", "unsubscribing"}] /\ key \in [Clients -> Keys \cup {NoKey}]
    BY DEF TypeOK
  <2>3. \A d \in Clients : pc'[d] = "subscribing" => d # c /\ pc[d] = "subscribing" /\ key'[d] = key[d]
    BY <2>1, <2>2
  <2>4. CASE Subscribed(c)
    <3>1. pc[c] = "subscribing" /\ streams' = streams \cup {key[c]} /\ registered' = registered
      BY <2>4 DEF Subscribed
    <3>2. \A d \in Clients : pc'[d] = "subscribing" => key[d] # key[c]
      BY <2>3, <3>1 DEF OnePerSymbol
    <3> QED
      BY <2>3, <3>1, <3>2
  <2>5. CASE SubscribeFails(c)
    <3>1. pc[c] = "subscribing" /\ streams' = streams /\ registered' = registered \ {Symbol(key[c])}
      BY <2>5 DEF SubscribeFails
    <3>2. \A k \in streams : Symbol(k) # Symbol(key[c])
      BY <3>1 DEF OnePerSymbol
    <3>3. \A d \in Clients : pc'[d] = "subscribing" => Symbol(key[d]) # Symbol(key[c])
      BY <2>3, <3>1 DEF OnePerSymbol
    <3> QED
      BY <2>3, <3>1, <3>2, <3>3
  <2>6. CASE Unsubscribed(c) \/ ClientLeaves(c)
    <3>1. streams' \subseteq streams /\ registered' = registered
      BY <2>6 DEF Unsubscribed, ClientLeaves
    <3> QED
      BY <2>3, <3>1
  <2> QED
    BY <1>5, <2>4, <2>5, <2>6
<1>6. ASSUME PushStep PROVE UNCHANGED <<registered, streams, pc, key>>
  BY <1>6 DEF PushStep, Login, SessionCleared, Opens, Registered, Message, Silent, Breaks, ClosesOk,
       Retries, handlerVars
<1>7. ASSUME UNCHANGED vars PROVE UNCHANGED <<registered, streams, pc, key>>
  BY <1>7 DEF vars, handlerVars
<1> QED
  BY <1>1, <1>2, <1>3, <1>4, <1>5, <1>6, <1>7 DEF Next, PushStep

(* Whatever the clients do, and however PUTs fail or overtake one another: no
   step takes the symbol of a stream from register_set while no symbol has two
   streams or two Subscribes under way (_handle_subscribe_kabu_station).    *)
THEOREM KabuKeepsSymbols == Spec => KeepsSymbols
<1>1. IInv => TypeOK
  BY DEF IInv
<1>2. TypeOK /\ [Next]_vars
      => [OnePerSymbol /\ StreamsRegistered /\ NewStreams => StreamsRegistered' /\ NewStreams']_vars
  BY RegisteredStep
<1> QED
  BY <1>1, <1>2, Inductive, PTL DEF Spec, KeepsSymbols

(* Hence, for as long as that is so, every stream's symbol is in register_set. *)
THEOREM KabuRegisteredOnePerSymbol == Spec /\ []OnePerSymbol => []StreamsRegistered
<1>1. Init => StreamsRegistered /\ NewStreams
  BY DEF Init, StreamsRegistered, NewStreams
<1>2. IInv => TypeOK
  BY DEF IInv
<1>3. TypeOK /\ OnePerSymbol /\ StreamsRegistered /\ NewStreams /\ [Next]_vars
      => StreamsRegistered' /\ NewStreams'
  BY RegisteredStep
<1> QED
  BY <1>1, <1>2, <1>3, Inductive, PTL DEF Spec
=============================================================================
