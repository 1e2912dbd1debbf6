---------------------------- MODULE StreamProofs ----------------------------
(* Proofs about the streams of market data: the registry of streams of the
   engine (StreamRegistry), for every set of clients and of keys and every
   number of tasks, and the order book on its way from a venue to the screen
   (DepthSync), for every book, venue, queue and number of failures.        *)
EXTENDS StreamRegistry, DepthSync, FiniteSetTheorems, WellFoundedInduction, SequenceTheorems, TLAPS

(* Tasks are named in the order of creation, and the bound leaves a task for
   every stream that a proxy change is still to reopen: without the second,
   the last await of a proxy change could create a task beyond the bound.   *)
Started == \A t \in Tasks : task[t] # "none" => t <= created
RoomKept == created + Cardinality(Pending) <= MaxTasks
IInv == TypeOK /\ Started /\ EntryNamesItsStream /\ RoomKept

(* What _cancel_all_streams writes: no entry is awaited by its key alone. *)
cancelVars == <<created, task, keyOf, registry, handlerVars>>

(* The part of the invariant that is about those variables. *)
CancelTypes ==
    /\ created \in 0 .. MaxTasks
    /\ task \in [Tasks -> TaskStates]
    /\ keyOf \in [Tasks -> Keys]
    /\ registry \in [Keys -> Tasks \cup {NoTask}]
    /\ handler \in [Clients -> HandlerStates]
    /\ awaited \in [Clients -> Tasks \cup {NoTask}]
    /\ todo \in [Clients -> SUBSET Tasks]
    /\ reopen \in [Clients -> SUBSET Keys]
CancelInv == CancelTypes /\ Started /\ EntryNamesItsStream /\ RoomKept

-----------------------------------------------------------------------------
(* The streams to reopen are finitely many. *)

LEMMA PendingFinite ==
    ASSUME NEW S \in SUBSET (Clients \X Keys)
    PROVE  IsFiniteSet(S) /\ Cardinality(S) \in Nat
<1>1. IsFiniteSet(Clients \X Keys)
  BY FS_Product, StreamsAssumption
<1>2. IsFiniteSet(S)
  BY <1>1, FS_Subset
<1> QED
  BY <1>2, FS_CardinalityType

LEMMA SmallerPending ==
    ASSUME NEW S \in SUBSET (Clients \X Keys), NEW T \in SUBSET S
    PROVE  Cardinality(T) <= Cardinality(S)
BY PendingFinite, FS_Subset

(* One client has as many pairs as keys. *)
LEMMA ClientPairs ==
    ASSUME NEW c \in Clients, NEW keys \in SUBSET Keys
    PROVE  IsFiniteSet(keys) /\ Cardinality(keys) \in Nat
           /\ Cardinality({c} \X keys) = Cardinality(keys)
<1>1. IsFiniteSet(keys)
  BY StreamsAssumption, FS_Subset
<1>2. IsFiniteSet({c}) /\ Cardinality({c}) = 1
  BY FS_Singleton
<1>3. Cardinality({c} \X keys) = Cardinality({c}) * Cardinality(keys)
  BY <1>1, <1>2, FS_Product
<1>4. Cardinality(keys) \in Nat
  BY <1>1, FS_CardinalityType
<1> QED
  BY <1>1, <1>2, <1>3, <1>4

(* Room after a handler has replaced the keys of its client. *)
LEMMA PendingOf ==
    ASSUME NEW c \in Clients, NEW keys \in SUBSET Keys,
           reopen \in [Clients -> SUBSET Keys],
           reopen' = [reopen EXCEPT ![c] = keys]
    PROVE  Cardinality(Pending') + Cardinality(reopen[c]) = Cardinality(Pending) + Cardinality(keys)
<1> DEFINE others == {p \in Pending : p[1] # c}
<1>1. Pending \in SUBSET (Clients \X Keys) /\ Pending' \in SUBSET (Clients \X Keys)
  BY DEF Pending
<1>2. Pending = others \cup ({c} \X reopen[c]) /\ others \cap ({c} \X reopen[c]) = {}
  BY DEF Pending
<1>3. Pending' = others \cup ({c} \X keys) /\ others \cap ({c} \X keys) = {}
  BY DEF Pending
<1>4. others \in SUBSET (Clients \X Keys)
  BY <1>1
<1>5. IsFiniteSet(others) /\ Cardinality(others) \in Nat
  BY <1>4, PendingFinite
<1> HIDE DEF others
<1>6. reopen[c] \in SUBSET Keys
  OBVIOUS
<1>7. \A ks \in SUBSET Keys : ({c} \X ks) \in SUBSET (Clients \X Keys)
  OBVIOUS
<1>8. \A ks \in SUBSET Keys : IsFiniteSet({c} \X ks)
  BY <1>7, PendingFinite
<1>9. \A ks \in SUBSET Keys : others \cap ({c} \X ks) = {} =>
          Cardinality(others \cup ({c} \X ks)) = Cardinality(others) + Cardinality(ks)
  <2> SUFFICES ASSUME NEW ks \in SUBSET Keys, others \cap ({c} \X ks) = {}
               PROVE  Cardinality(others \cup ({c} \X ks)) = Cardinality(others) + Cardinality(ks)
    OBVIOUS
  <2>1. Cardinality(others \cup ({c} \X ks))
          = Cardinality(others) + Cardinality({c} \X ks) - Cardinality({})
    BY <1>5, <1>8, FS_Union
  <2>2. Cardinality({}) = 0
    BY FS_EmptySet
  <2>3. Cardinality(ks) \in Nat /\ Cardinality({c} \X ks) = Cardinality(ks)
    BY ClientPairs
  <2>4. Cardinality(others) \in Nat
    BY <1>5
  <2> HIDE DEF others
  <2>5. Cardinality(others \cup ({c} \X ks)) = Cardinality(others) + Cardinality(ks) - 0
    BY <2>1, <2>2, <2>3
  <2> QED
    BY <2>3, <2>4, <2>5
<1>10. Cardinality(Pending) = Cardinality(others) + Cardinality(reopen[c])
  BY <1>2, <1>6, <1>9
<1>11. Cardinality(Pending') = Cardinality(others) + Cardinality(keys)
  BY <1>3, <1>9
<1>12. Cardinality(keys) \in Nat /\ Cardinality(reopen[c]) \in Nat
  BY <1>6, ClientPairs
<1> QED
  BY <1>5, <1>10, <1>11, <1>12

-----------------------------------------------------------------------------
(* _cancel_all_streams, with the reopening of a proxy change. *)

LEMMA Suspends ==
    ASSUME CancelInv, NEW c \in Clients, NEW rest \in SUBSET Tasks, NEW t \in rest,
           NEW keys \in SUBSET Keys, SuspendAt(c, t, Live(rest) \ {t}, keys),
           created + Cardinality(Pending) - Cardinality(reopen[c]) + Cardinality(keys) <= MaxTasks
    PROVE  CancelInv'
<1>1. CancelTypes'
  <2>1. Live(rest) \ {t} \in SUBSET Tasks
    BY DEF Live
  <2> QED
    BY <2>1 DEF CancelInv, CancelTypes, SuspendAt, CancelTask, TaskStates, HandlerStates
<1>2. Started'
  BY DEF CancelInv, CancelTypes, SuspendAt, CancelTask, Started
<1>3. EntryNamesItsStream'
  BY DEF CancelInv, CancelTypes, SuspendAt, CancelTask, EntryNamesItsStream, Registered, NoTask, Tasks
<1>4. RoomKept'
  <2>1. reopen \in [Clients -> SUBSET Keys] /\ reopen' = [reopen EXCEPT ![c] = keys]
    BY DEF CancelInv, CancelTypes, SuspendAt
  <2>2. Cardinality(Pending') + Cardinality(reopen[c]) = Cardinality(Pending) + Cardinality(keys)
    BY <2>1, PendingOf
  <2>3. created' = created /\ created \in Nat
    BY DEF CancelInv, CancelTypes, SuspendAt
  <2>4. Pending \in SUBSET (Clients \X Keys) /\ Pending' \in SUBSET (Clients \X Keys)
    BY DEF Pending
  <2>5. Cardinality(Pending) \in Nat /\ Cardinality(Pending') \in Nat
    BY <2>4, PendingFinite
  <2>6. Cardinality(reopen[c]) \in Nat /\ Cardinality(keys) \in Nat
    BY <2>1, ClientPairs
  <2> QED
    BY <2>2, <2>3, <2>5, <2>6, StreamsAssumption DEF RoomKept
<1> QED
  BY <1>1, <1>2, <1>3, <1>4 DEF CancelInv

LEMMA Clears ==
    ASSUME CancelInv, NEW c \in Clients, NEW keys \in SUBSET Keys, ClearAll(c, keys),
           created + Cardinality(Pending) - Cardinality(reopen[c]) + Cardinality(keys) <= MaxTasks
    PROVE  CancelInv'
<1>1. CancelTypes'
  BY DEF CancelInv, CancelTypes, ClearAll, HandlerStates
<1>2. Started' /\ EntryNamesItsStream'
  BY DEF CancelInv, CancelTypes, ClearAll, Started, EntryNamesItsStream, Registered
<1>3. reopen \in [Clients -> SUBSET Keys] /\ reopen' = [reopen EXCEPT ![c] = keys]
      /\ created' = created /\ created \in Nat
  BY DEF CancelInv, CancelTypes, ClearAll
<1>4. Cardinality(Pending') + Cardinality(reopen[c]) = Cardinality(Pending) + Cardinality(keys)
  BY <1>3, PendingOf
<1>5. Pending \in SUBSET (Clients \X Keys) /\ Pending' \in SUBSET (Clients \X Keys)
  BY DEF Pending
<1>6. Cardinality(Pending) \in Nat /\ Cardinality(Pending') \in Nat
  BY <1>5, PendingFinite
<1>7. Cardinality(reopen[c]) \in Nat /\ Cardinality(keys) \in Nat
  BY <1>3, ClientPairs
<1>8. RoomKept'
  BY <1>3, <1>4, <1>6, <1>7, StreamsAssumption DEF RoomKept
<1> QED
  BY <1>1, <1>2, <1>8 DEF CancelInv

(* What a proxy change subscribes anew is within the room kept for it. *)
LEMMA Reopens ==
    ASSUME CancelInv, NEW c \in Clients, Reopen(c)
    PROVE  CancelInv'
<1> DEFINE keys == reopen[c] \ Registered
           n == Cardinality(keys)
<1>0. reopen[c] \in SUBSET Keys /\ keys \in SUBSET reopen[c] /\ keys \in SUBSET Keys
  BY DEF CancelInv, CancelTypes
<1>1. n \in Nat /\ Cardinality(reopen[c]) \in Nat /\ n <= Cardinality(reopen[c])
  BY <1>0, ClientPairs, FS_Subset
<1>2. Cardinality(Pending') + Cardinality(reopen[c]) = Cardinality(Pending)
  <2>1. Cardinality(Pending') + Cardinality(reopen[c]) = Cardinality(Pending) + Cardinality({})
    BY PendingOf DEF CancelInv, CancelTypes, Reopen
  <2>2. Pending \in SUBSET (Clients \X Keys)
    BY DEF Pending
  <2>3. Cardinality(Pending) \in Nat
    BY <2>2, PendingFinite
  <2> QED
    BY <2>1, <2>3, FS_EmptySet
<1>3. Cardinality(Pending) \in Nat /\ Cardinality(Pending') \in Nat
  <2>1. Pending \in SUBSET (Clients \X Keys) /\ Pending' \in SUBSET (Clients \X Keys)
    BY DEF Pending
  <2> QED
    BY <2>1, PendingFinite
<1>4. PICK name \in [keys -> created + 1 .. created + n] :
        /\ \A j, k \in keys : j # k => name[j] # name[k]
        /\ created' = created + n
        /\ task' = [t \in Tasks |-> IF \E k \in keys : name[k] = t THEN "running" ELSE task[t]]
        /\ keyOf' = [t \in Tasks |-> IF \E k \in keys : name[k] = t
                                     THEN CHOOSE k \in keys : name[k] = t ELSE keyOf[t]]
        /\ registry' = [k \in Keys |-> IF k \in keys THEN name[k] ELSE registry[k]]
  BY DEF Reopen, SubscribeAnew
<1> HIDE DEF n, keys
<1>5. created \in Nat /\ created' \in 0 .. MaxTasks /\ created <= created' /\ RoomKept'
  BY <1>1, <1>2, <1>3, <1>4, StreamsAssumption DEF CancelInv, CancelTypes, RoomKept
<1>6. \A k \in keys : name[k] \in Tasks /\ created < name[k] /\ name[k] <= created'
  BY <1>1, <1>4, <1>5, StreamsAssumption DEF Tasks
<1>7. CancelTypes'
  <2>1. task' \in [Tasks -> TaskStates]
    BY <1>4 DEF CancelInv, CancelTypes, TaskStates
  <2>2. keyOf' \in [Tasks -> Keys]
    BY <1>0, <1>4 DEF CancelInv, CancelTypes
  <2>3. registry' \in [Keys -> Tasks \cup {NoTask}]
    BY <1>4, <1>6 DEF CancelInv, CancelTypes
  <2>4. /\ handler' \in [Clients -> HandlerStates]
        /\ awaited' \in [Clients -> Tasks \cup {NoTask}]
        /\ todo' \in [Clients -> SUBSET Tasks]
        /\ reopen' \in [Clients -> SUBSET Keys]
    BY DEF Reopen, CancelInv, CancelTypes, HandlerStates
  <2> QED
    BY <1>5, <2>1, <2>2, <2>3, <2>4 DEF CancelTypes
<1>8. Started'
  BY <1>4, <1>5, <1>6 DEF CancelInv, CancelTypes, Started, Tasks
<1>9. EntryNamesItsStream'
  <2> SUFFICES ASSUME NEW k \in Keys, registry'[k] # NoTask
               PROVE  keyOf'[registry'[k]] = k /\ task'[registry'[k]] \notin {"none", "gone"}
    BY DEF EntryNamesItsStream, Registered
  <2>1. CASE k \in keys
    <3>1. registry'[k] = name[k] /\ name[k] \in Tasks
      BY <1>4, <1>6, <2>1
    <3>2. task'[name[k]] = "running"
      BY <1>4, <2>1, <3>1
    <3>3. \A j \in keys : name[j] = name[k] => j = k
      BY <1>4, <2>1
    <3>4. keyOf'[name[k]] = CHOOSE j \in keys : name[j] = name[k]
      BY <1>4, <2>1, <3>1
    <3>5. (CHOOSE j \in keys : name[j] = name[k]) = k
      BY <2>1, <3>3
    <3> QED
      BY <3>1, <3>2, <3>4, <3>5
  <2>2. CASE k \notin keys
    <3>1. registry'[k] = registry[k] /\ registry[k] \in Tasks
      BY <1>4, <2>2 DEF CancelInv, CancelTypes
    <3>2. keyOf[registry[k]] = k /\ task[registry[k]] \notin {"none", "gone"}
      BY <3>1 DEF CancelInv, EntryNamesItsStream, Registered
    <3>3. registry[k] <= created
      BY <3>1, <3>2 DEF CancelInv, Started
    <3>4. \A j \in keys : name[j] # registry[k]
      BY <1>5, <1>6, <3>1, <3>3 DEF Tasks
    <3> QED
      BY <1>4, <3>1, <3>2, <3>4
  <2> QED
    BY <2>1, <2>2
<1> QED
  BY <1>5, <1>7, <1>8, <1>9 DEF CancelInv

LEMMA Cancels ==
    ASSUME CancelInv, NEW c \in Clients, NEW rest \in SUBSET Tasks, NEW keys \in SUBSET Keys,
           CancelOn(c, rest, keys),
           created + Cardinality(Pending) - Cardinality(reopen[c]) + Cardinality(keys) <= MaxTasks
    PROVE  CancelInv'
<1>1. CASE \E t \in Live(rest) : SuspendAt(c, t, Live(rest) \ {t}, keys)
  <2>1. PICK t \in Live(rest) : SuspendAt(c, t, Live(rest) \ {t}, keys)
    BY <1>1
  <2>2. t \in rest
    BY <2>1 DEF Live
  <2> QED
    BY <2>1, <2>2, Suspends
<1>2. CASE Live(rest) = {} /\ ClearAll(c, keys)
  BY <1>2, Clears
<1> QED
  BY <1>1, <1>2 DEF CancelOn

-----------------------------------------------------------------------------
(* The steps. *)

(* What no action that cancels touches. *)
RestTypes ==
    /\ attached \in SUBSET Clients
    /\ acted \in [Tasks -> SUBSET Clients]
    /\ owed \in [Clients -> SUBSET Keys]
    /\ raced \in BOOLEAN

LEMMA Parts == ASSUME IInv PROVE CancelInv /\ RestTypes
BY DEF IInv, TypeOK, CancelInv, CancelTypes, RestTypes

LEMMA Together == ASSUME CancelInv', RestTypes' PROVE IInv'
BY DEF IInv, TypeOK, CancelInv, CancelTypes, RestTypes

LEMMA HandlesAreTasks == ASSUME CancelTypes PROVE Handles \in SUBSET Tasks /\ Registered \in SUBSET Keys
BY DEF CancelTypes, Handles, Registered

(* A step that leaves the handlers alone keeps the room. *)
LEMMA SameRoom ==
    ASSUME RoomKept, UNCHANGED <<created, reopen>>
    PROVE  RoomKept'
BY DEF RoomKept, Pending

LEMMA CancelSteps ==
    ASSUME IInv, NEW c \in Clients, SetProxy(c) \/ CancelNext(c) \/ Reopen(c) \/ Leave(c)
    PROVE  IInv'
<1>1. CancelInv /\ CancelTypes /\ RestTypes
  BY Parts DEF CancelInv
<1>2. created \in Nat /\ reopen[c] \in SUBSET Keys
  BY <1>1 DEF CancelTypes
<1>3. Cardinality(reopen[c]) \in Nat
  BY <1>2, ClientPairs
<1>4. Cardinality(Pending) \in Nat
  <2>1. Pending \in SUBSET (Clients \X Keys)
    BY DEF Pending
  <2> QED
    BY <2>1, PendingFinite
<1>5. CASE SetProxy(c)
  <2>1. created + Cardinality(Pending) + Cardinality(Registered) <= MaxTasks
    BY <1>5 DEF SetProxy, Room
  <2>2. Cardinality(Registered) \in Nat
    BY <1>1, HandlesAreTasks, ClientPairs
  <2>3. created + Cardinality(Pending) - Cardinality(reopen[c]) + Cardinality(Registered) <= MaxTasks
    BY <1>2, <1>3, <1>4, <2>1, <2>2, StreamsAssumption
  <2>4. CancelOn(c, Handles, Registered)
    BY <1>5 DEF SetProxy
  <2>5. CancelInv'
    BY <1>1, <2>3, <2>4, HandlesAreTasks, Cancels
  <2>6. RestTypes'
    BY <1>1, <1>5 DEF SetProxy, Reads, Races, RestTypes
  <2> QED
    BY <2>5, <2>6, Together
<1>6. CASE CancelNext(c)
  <2>1. created + Cardinality(Pending) - Cardinality(reopen[c]) + Cardinality(reopen[c]) <= MaxTasks
    BY <1>1, <1>2, <1>3, <1>4, StreamsAssumption DEF CancelInv, RoomKept
  <2>2. CancelOn(c, todo[c], reopen[c])
    BY <1>6 DEF CancelNext
  <2>3. todo[c] \in SUBSET Tasks
    BY <1>1 DEF CancelTypes
  <2>4. CancelInv'
    BY <1>1, <1>2, <2>1, <2>2, <2>3, Cancels
  <2>5. RestTypes'
    BY <1>1, <1>6 DEF CancelNext, Races, RestTypes
  <2> QED
    BY <2>4, <2>5, Together
<1>7. CASE Leave(c)
  <2>1. RestTypes'
    BY <1>1, <1>7 DEF Leave, RestTypes
  <2>2. CASE attached = {c}
    <3>1. Cardinality({}) = 0
      BY FS_EmptySet
    <3>2. created + Cardinality(Pending) - Cardinality(reopen[c]) + Cardinality({}) <= MaxTasks
      BY <1>1, <1>2, <1>3, <1>4, <3>1, StreamsAssumption DEF CancelInv, RoomKept
    <3>3. CancelOn(c, Handles, {})
      BY <1>7, <2>2 DEF Leave
    <3>4. CancelInv'
      BY <1>1, <3>2, <3>3, HandlesAreTasks, Cancels
    <3> QED
      BY <2>1, <3>4, Together
  <2>3. CASE attached # {c}
    <3>1. UNCHANGED cancelVars
      BY <1>7, <2>3 DEF Leave, cancelVars
    <3>2. CancelInv'
      BY <1>1, <3>1, SameRoom
         DEF cancelVars, handlerVars, CancelInv, CancelTypes, Started, EntryNamesItsStream, Registered
    <3> QED
      BY <2>1, <3>2, Together
  <2> QED
    BY <2>2, <2>3
<1>8. CASE Reopen(c)
  <2>1. CancelInv'
    BY <1>1, <1>8, Reopens
  <2>2. RestTypes'
    BY <1>1, <1>8 DEF Reopen, Races, RestTypes
  <2> QED
    BY <2>1, <2>2, Together
<1> QED
  BY <1>5, <1>6, <1>7, <1>8

LEMMA PlainSteps ==
    ASSUME IInv, NEW c \in Clients,
           Attach(c) \/ EndUnsubscribe(c) \/ \E k \in Keys : Subscribe(c, k) \/ Unsubscribe(c, k)
    PROVE  IInv'
<1>1. CASE Attach(c)
  <2>1. RoomKept'
    BY <1>1, SameRoom DEF IInv, Attach, handlerVars
  <2> QED
    BY <1>1, <2>1 DEF IInv, TypeOK, Attach, handlerVars, Started, EntryNamesItsStream, Registered
<1>2. CASE EndUnsubscribe(c)
  <2>1. RoomKept'
    BY <1>2, SameRoom DEF IInv, EndUnsubscribe
  <2> QED
    BY <1>2, <2>1 DEF IInv, TypeOK, EndUnsubscribe, HandlerStates, Started, EntryNamesItsStream, Registered
<1>3. ASSUME NEW k \in Keys, Subscribe(c, k) PROVE IInv'
  <2>1. CASE UNCHANGED <<created, task, keyOf, registry>>
    <3>1. RoomKept'
      BY <1>3, <2>1, SameRoom DEF IInv, Subscribe, handlerVars
    <3> QED
      BY <1>3, <2>1, <3>1
         DEF IInv, TypeOK, Subscribe, Reads, Races, handlerVars, Started, EntryNamesItsStream, Registered
  <2>2. CASE /\ registry[k] = NoTask /\ Room(1)
             /\ created' = created + 1
             /\ task' = [task EXCEPT ![created'] = "running"]
             /\ keyOf' = [keyOf EXCEPT ![created'] = k]
             /\ registry' = [registry EXCEPT ![k] = created']
    <3>1. Pending' = Pending /\ Cardinality(Pending) \in Nat
      <4>1. Pending \in SUBSET (Clients \X Keys)
        BY DEF Pending
      <4> QED
        BY <1>3, <4>1, PendingFinite DEF Subscribe, handlerVars, Pending
    <3>2. RoomKept' /\ created' \in Tasks /\ created' \in 0 .. MaxTasks
      BY <2>2, <3>1, StreamsAssumption DEF IInv, TypeOK, Room, RoomKept, Tasks
    <3>3. Started'
      BY <2>2, <3>2 DEF IInv, TypeOK, Started, Tasks
    <3>4. EntryNamesItsStream'
      <4> SUFFICES ASSUME NEW j \in Keys, registry'[j] # NoTask
                   PROVE  keyOf'[registry'[j]] = j /\ task'[registry'[j]] \notin {"none", "gone"}
        BY DEF EntryNamesItsStream, Registered
      <4>1. CASE j = k
        BY <2>2, <3>2, <4>1 DEF IInv, TypeOK
      <4>2. CASE j # k
        <5>1. registry'[j] = registry[j] /\ registry[j] \in Tasks
          BY <2>2, <4>2 DEF IInv, TypeOK
        <5>2. keyOf[registry[j]] = j /\ task[registry[j]] \notin {"none", "gone"}
          BY <5>1 DEF IInv, EntryNamesItsStream, Registered
        <5>3. registry[j] <= created
          BY <5>1, <5>2 DEF IInv, Started
        <5>4. registry[j] # created'
          BY <2>2, <5>1, <5>3 DEF IInv, TypeOK, Tasks
        <5> QED
          BY <2>2, <3>2, <5>1, <5>2, <5>4 DEF IInv, TypeOK
      <4> QED
        BY <4>1, <4>2
    <3>5. TypeOK'
      BY <1>3, <2>2, <3>2 DEF IInv, TypeOK, TaskStates, Subscribe, Reads, Races, handlerVars
    <3> QED
      BY <3>2, <3>3, <3>4, <3>5 DEF IInv
  <2> QED
    BY <1>3, <2>1, <2>2 DEF Subscribe
<1>4. ASSUME NEW k \in Keys, Unsubscribe(c, k) PROVE IInv'
  <2>1. RoomKept'
    BY <1>4, SameRoom DEF IInv, Unsubscribe
  <2>2. \/ /\ task' = [task EXCEPT ![registry[k]] = IF @ = "running" THEN "cancelled" ELSE @]
           /\ handler' = [handler EXCEPT ![c] = "unsubscribe"]
           /\ awaited' = [awaited EXCEPT ![c] = registry[k]]
        \/ UNCHANGED <<task, handler, awaited>>
    BY <1>4 DEF Unsubscribe, CancelTask
  <2>3. registry' = [registry EXCEPT ![k] = NoTask] /\ UNCHANGED <<created, keyOf, todo, reopen, attached>>
    BY <1>4 DEF Unsubscribe, TakesOut
  <2>4. TypeOK'
    BY <1>4, <2>2, <2>3 DEF IInv, TypeOK, Unsubscribe, Reads, Races, TaskStates, HandlerStates
  <2>5. Started' /\ EntryNamesItsStream'
    BY <2>2, <2>3 DEF IInv, TypeOK, Started, EntryNamesItsStream, Registered
  <2> QED
    BY <2>1, <2>4, <2>5 DEF IInv
<1> QED
  BY <1>1, <1>2, <1>3, <1>4

LEMMA TaskSteps == ASSUME IInv, NEW t \in Tasks, TaskStep(t) PROVE IInv'
<1>1. RoomKept'
  BY SameRoom DEF IInv, TaskStep, TaskDies, TaskCancelled, OnDone, handlerVars
<1>2. CASE TaskDies(t)
  <2>1. TypeOK'
    BY <1>2 DEF IInv, TypeOK, TaskDies, handlerVars, TaskStates
  <2> QED
    BY <1>1, <1>2, <2>1 DEF IInv, TypeOK, TaskDies, Started, EntryNamesItsStream, Registered
<1>3. CASE TaskCancelled(t)
  <2>1. TypeOK'
    BY <1>3 DEF IInv, TypeOK, TaskCancelled, handlerVars, TaskStates
  <2> QED
    BY <1>1, <1>3, <2>1 DEF IInv, TypeOK, TaskCancelled, Started, EntryNamesItsStream, Registered
<1>4. CASE OnDone(t)
  <2>1. TypeOK'
    BY <1>4 DEF IInv, TypeOK, OnDone, PopsEntry, handlerVars, TaskStates
  <2>2. Started'
    BY <1>4 DEF IInv, TypeOK, OnDone, Started
  <2>3. EntryNamesItsStream'
    BY <1>4 DEF IInv, TypeOK, OnDone, PopsEntry, EntryNamesItsStream, Registered
  <2> QED
    BY <1>1, <2>1, <2>2, <2>3 DEF IInv
<1> QED
  BY <1>2, <1>3, <1>4 DEF TaskStep

LEMMA InitInv == Init => IInv
<1> SUFFICES ASSUME Init PROVE IInv
  OBVIOUS
<1>1. Cardinality(Pending) = 0
  <2>1. Pending = {}
    BY DEF Init, Pending
  <2> QED
    BY <2>1, FS_EmptySet
<1>2. RoomKept
  BY <1>1, StreamsAssumption DEF Init, RoomKept
<1>3. (CHOOSE k \in Keys : TRUE) \in Keys
  BY StreamsAssumption
<1>4. TypeOK
  <2> DEFINE k == CHOOSE k \in Keys : TRUE
  <2>1. k \in Keys /\ keyOf = [t \in Tasks |-> k]
    BY <1>3 DEF Init
  <2> HIDE DEF k
  <2>2. keyOf \in [Tasks -> Keys]
    BY <2>1
  <2>3. created \in 0 .. MaxTasks
    BY StreamsAssumption DEF Init
  <2>4. /\ registry \in [Keys -> Tasks \cup {NoTask}]
        /\ task \in [Tasks -> TaskStates]
        /\ handler \in [Clients -> HandlerStates]
        /\ awaited \in [Clients -> Tasks \cup {NoTask}]
    BY DEF Init, TaskStates, HandlerStates
  <2>5. /\ todo \in [Clients -> SUBSET Tasks]
        /\ reopen \in [Clients -> SUBSET Keys]
        /\ attached \in SUBSET Clients
        /\ acted \in [Tasks -> SUBSET Clients]
        /\ owed \in [Clients -> SUBSET Keys]
        /\ raced \in BOOLEAN
    BY DEF Init
  <2> QED
    BY <2>2, <2>3, <2>4, <2>5 DEF TypeOK
<1>5. Started /\ EntryNamesItsStream
  BY DEF Init, Started, EntryNamesItsStream, Registered
<1> QED
  BY <1>2, <1>4, <1>5 DEF IInv

LEMMA NextInv == ASSUME IInv, [Next]_vars PROVE IInv'
<1>1. ASSUME NEW c \in Clients, Step(c) PROVE IInv'
  BY <1>1, CancelSteps, PlainSteps DEF Step
<1>2. ASSUME NEW t \in Tasks, TaskStep(t) PROVE IInv'
  BY <1>2, TaskSteps
<1>3. CASE UNCHANGED vars
  <2>1. RoomKept'
    BY <1>3, SameRoom DEF IInv, vars, handlerVars
  <2> QED
    BY <1>3, <2>1 DEF vars, handlerVars, IInv, TypeOK, Started, EntryNamesItsStream, Registered
<1> QED
  BY <1>1, <1>2, <1>3 DEF Next

LEMMA Inductive == Spec => []IInv
BY InitInv, NextInv, PTL DEF Spec

-----------------------------------------------------------------------------
(* The state of the registry and of the handlers keeps its types: the tasks a
   proxy change makes after its awaits are within the bound (_handle_set_proxy). *)
THEOREM StreamsTypeOK == Spec => []TypeOK
<1>1. IInv => TypeOK
  BY DEF IInv
<1> QED
  BY <1>1, Inductive, PTL

(* A handle in _streams is that of a task for its own key whose callback is
   still to come, in every interleaving of handlers and callbacks (_on_done). *)
THEOREM StreamsEntryNames == Spec => []EntryNamesItsStream
<1>1. IInv => EntryNamesItsStream
  BY DEF IInv
<1> QED
  BY <1>1, Inductive, PTL

-----------------------------------------------------------------------------
(* StreamsAsOwed.  It speaks of quiet states only; what makes it true is what
   holds between them, as long as clients are served one after the other.    *)

(* A client is served: it has a session, or its handler still runs. *)
Busy(c) == c \in attached \/ handler[c] # "idle"
OneServed ==
    /\ \A c, d \in Clients : Busy(c) /\ Busy(d) => c = d
    /\ \A c \in Clients : owed[c] # {} => c \in attached

(* Who cancels a task awaits it. *)
CancelledAwaited ==
    \A t \in Tasks : task[t] = "cancelled" => \E c \in Clients : handler[c] # "idle" /\ awaited[c] = t

(* Outside _cancel_all_streams a running stream has the entry of its key, an
   ending one leaves the entry of no other to its callback, and what is owed
   runs.                                                                     *)
Kept ==
    /\ \A t \in Tasks : task[t] = "running" => registry[keyOf[t]] = t
    /\ \A t \in Tasks : task[t] \in {"cancelled", "done"} => registry[keyOf[t]] \in {t, NoTask}
    /\ \A c \in Clients : \A k \in owed[c] : registry[k] # NoTask /\ task[registry[k]] = "running"

(* Within it every running stream is still to be cancelled, and what is owed
   is to be reopened; once the registry is cleared none is left.             *)
Moving(c) == Running \subseteq todo[c] /\ \A d \in Clients : owed[d] \subseteq reopen[c]
Cleared(c) == Moving(c) /\ todo[c] = {} /\ awaited[c] = NoTask /\ Registered = {}

Served ==
    /\ OneServed /\ CancelledAwaited
    /\ (\A c \in Clients : handler[c] \notin {"cancelAll", "fetches"}) => Kept
    /\ \A c \in Clients : handler[c] = "cancelAll" => Moving(c)
    /\ \A c \in Clients : handler[c] = "fetches" => Cleared(c)

LEMMA OthersIdle ==
    ASSUME OneServed, NEW c \in Clients, Busy(c), NEW d \in Clients, d # c
    PROVE  handler[d] = "idle" /\ d \notin attached /\ owed[d] = {}
BY DEF OneServed, Busy

LEMMA NoneCancelled ==
    ASSUME Served, \A c \in Clients : handler[c] = "idle", NEW t \in Tasks
    PROVE  task[t] # "cancelled"
BY DEF Served, CancelledAwaited

(* A command is read when nothing else goes on. *)
LEMMA ReadsQuietly ==
    ASSUME Served, NEW c \in Clients, Reads(c), ~raced'
    PROVE  /\ \A d \in Clients : handler[d] = "idle"
           /\ \A d \in Clients : d # c => d \notin attached /\ owed[d] = {}
           /\ \A t \in Tasks : task[t] \notin {"cancelled", "done"}
           /\ Kept
<1>1. \A d \in Clients : handler[d] = "idle"
  BY OthersIdle DEF Served, Reads, Busy
<1>2. \A d \in Clients : d # c => d \notin attached /\ owed[d] = {}
  BY OthersIdle DEF Served, Reads, Busy
<1>3. \A t \in Tasks : task[t] \notin {"cancelled", "done"}
  BY <1>1, NoneCancelled DEF Reads, Races
<1> QED
  BY <1>1, <1>2, <1>3 DEF Served

LEMMA SubscribeServed ==
    ASSUME IInv, IInv', Served, ~raced', NEW c \in Clients, NEW k \in Keys, Subscribe(c, k)
    PROVE  Served'
<1>1. /\ \A d \in Clients : handler[d] = "idle"
      /\ \A d \in Clients : d # c => d \notin attached /\ owed[d] = {}
      /\ \A t \in Tasks : task[t] \notin {"cancelled", "done"}
      /\ Kept
  BY ReadsQuietly DEF Subscribe
<1>2. /\ UNCHANGED <<handler, awaited, attached>> /\ c \in attached
      /\ owed' = [owed EXCEPT ![c] = owed[c] \cup {k}] /\ owed \in [Clients -> SUBSET Keys]
  BY DEF Subscribe, Reads, handlerVars, IInv, TypeOK
<1>3. OneServed'
  BY <1>1, <1>2 DEF OneServed, Busy
<1>4. CASE registry[k] # NoTask /\ UNCHANGED <<created, task, keyOf, registry>>
  <2>1. registry[k] \in Tasks /\ keyOf[registry[k]] = k /\ task[registry[k]] \notin {"none", "gone"}
    BY <1>4 DEF IInv, TypeOK, EntryNamesItsStream, Registered
  <2>2. task[registry[k]] = "running"
    BY <1>1, <2>1 DEF IInv, TypeOK, TaskStates
  <2>3. Kept'
    BY <1>1, <1>2, <1>4, <2>2 DEF Kept
  <2> QED
    BY <1>1, <1>2, <1>3, <1>4, <2>3 DEF Served, CancelledAwaited
<1>5. CASE /\ registry[k] = NoTask
           /\ created' = created + 1
           /\ task' = [task EXCEPT ![created'] = "running"]
           /\ keyOf' = [keyOf EXCEPT ![created'] = k]
           /\ registry' = [registry EXCEPT ![k] = created']
  <2> DEFINE n == created'
  <2>1. n \in Nat /\ n # NoTask /\ n \in Tasks
    BY <1>5 DEF IInv, TypeOK, Tasks, NoTask
  <2>2. task[n] = "none" /\ \A j \in Keys : registry[j] # n
    <3>1. ~(n <= created)
      BY <1>5 DEF IInv, TypeOK
    <3>2. task[n] = "none"
      BY <2>1, <3>1 DEF IInv, Started
    <3> QED
      BY <2>1, <3>2 DEF IInv, EntryNamesItsStream, Registered
  <2>3. /\ task'[n] = "running" /\ keyOf'[n] = k /\ registry'[k] = n
        /\ \A t \in Tasks : t # n => task'[t] = task[t] /\ keyOf'[t] = keyOf[t]
        /\ \A j \in Keys : j # k => registry'[j] = registry[j]
    BY <1>5, <2>1 DEF IInv, TypeOK
  <2>4. ASSUME NEW t \in Tasks, task'[t] = "running" PROVE registry'[keyOf'[t]] = t
    <3>1. CASE t = n
      BY <2>3, <3>1
    <3>2. CASE t # n
      <4>1. registry[keyOf[t]] = t /\ keyOf[t] \in Keys /\ t # NoTask
        BY <1>1, <2>3, <2>4, <3>2 DEF Kept, IInv, TypeOK, Tasks, NoTask
      <4>2. keyOf[t] # k
        BY <1>5, <4>1
      <4> QED
        BY <2>3, <3>2, <4>1, <4>2
    <3> QED
      BY <3>1, <3>2
  <2>5. \A t \in Tasks : task'[t] \notin {"cancelled", "done"}
    BY <1>1, <2>3
  <2>6. ASSUME NEW d \in Clients, NEW j \in owed'[d]
        PROVE  registry'[j] # NoTask /\ task'[registry'[j]] = "running"
    <3>1. CASE j = k
      BY <2>1, <2>3, <3>1
    <3>2. CASE j # k
      <4>1. j \in owed[d] /\ j \in Keys
        BY <1>2, <2>6, <3>2
      <4>2. registry[j] # NoTask /\ task[registry[j]] = "running" /\ registry[j] \in Tasks /\ registry[j] # n
        BY <1>1, <2>2, <4>1 DEF Kept, IInv, TypeOK
      <4> QED
        BY <2>3, <3>2, <4>1, <4>2
    <3> QED
      BY <3>1, <3>2
  <2>7. Kept'
    BY <2>4, <2>5, <2>6 DEF Kept
  <2> QED
    BY <1>1, <1>2, <1>3, <2>5, <2>7 DEF Served, CancelledAwaited
<1> QED
  BY <1>4, <1>5 DEF Subscribe

LEMMA UnsubscribeServed ==
    ASSUME IInv, IInv', Served, ~raced', NEW c \in Clients, NEW k \in Keys, Unsubscribe(c, k)
    PROVE  Served'
<1> DEFINE r == registry[k]
<1>1. /\ \A d \in Clients : handler[d] = "idle"
      /\ \A d \in Clients : d # c => d \notin attached /\ owed[d] = {}
      /\ \A t \in Tasks : task[t] \notin {"cancelled", "done"}
      /\ Kept
  BY ReadsQuietly DEF Unsubscribe
<1>2. /\ c \in attached /\ k \in owed[c] /\ UNCHANGED <<attached, keyOf>>
      /\ owed' = [owed EXCEPT ![c] = owed[c] \ {k}] /\ owed \in [Clients -> SUBSET Keys]
      /\ registry' = [registry EXCEPT ![k] = NoTask]
  BY DEF Unsubscribe, TakesOut, Reads, IInv, TypeOK
<1>3. r \in Tasks /\ r # NoTask /\ keyOf[r] = k /\ task[r] = "running"
  BY <1>1, <1>2 DEF Kept, IInv, TypeOK, EntryNamesItsStream, Registered
<1>4. /\ task' = [task EXCEPT ![r] = "cancelled"]
      /\ handler' = [handler EXCEPT ![c] = "unsubscribe"]
      /\ awaited' = [awaited EXCEPT ![c] = r]
  <2>1. Live({r}) # {}
    BY <1>3 DEF Live, Ended
  <2> QED
    BY <1>3, <2>1 DEF Unsubscribe, CancelTask
<1> HIDE DEF r
<1>5. /\ task'[r] = "cancelled" /\ \A t \in Tasks : t # r => task'[t] = task[t]
      /\ handler'[c] = "unsubscribe" /\ \A d \in Clients : d # c => handler'[d] = "idle"
      /\ awaited'[c] = r
      /\ registry'[k] = NoTask /\ \A j \in Keys : j # k => registry'[j] = registry[j]
  BY <1>1, <1>2, <1>3, <1>4 DEF IInv, TypeOK
<1>6. OneServed'
  BY <1>1, <1>2, <1>5 DEF OneServed, Busy
<1>7. CancelledAwaited'
  BY <1>1, <1>5 DEF CancelledAwaited
<1>8. \A t \in Tasks : task'[t] = "running" => registry'[keyOf'[t]] = t
  <2> SUFFICES ASSUME NEW t \in Tasks, task'[t] = "running" PROVE registry'[keyOf[t]] = t
    BY <1>2
  <2>1. t # r /\ task[t] = "running" /\ keyOf[t] \in Keys
    BY <1>5 DEF IInv, TypeOK
  <2>2. registry[keyOf[t]] = t
    BY <1>1, <2>1 DEF Kept
  <2>3. keyOf[t] # k
    BY <2>1, <2>2 DEF r
  <2> QED
    BY <1>5, <2>1, <2>2, <2>3
<1>9. \A t \in Tasks : task'[t] \in {"cancelled", "done"} => registry'[keyOf'[t]] \in {t, NoTask}
  <2>1. \A t \in Tasks : task'[t] \in {"cancelled", "done"} => t = r
    BY <1>1, <1>5
  <2> QED
    BY <1>2, <1>3, <1>5, <2>1
<1>10. ASSUME NEW d \in Clients, NEW j \in owed'[d]
       PROVE  registry'[j] # NoTask /\ task'[registry'[j]] = "running"
  <2>1. j \in owed[d] /\ j # k /\ j \in Keys
    BY <1>1, <1>2, <1>10
  <2>2. registry[j] # NoTask /\ task[registry[j]] = "running" /\ registry[j] \in Tasks
    BY <1>1, <2>1 DEF Kept, IInv, TypeOK
  <2>3. keyOf[registry[j]] = j
    BY <2>1, <2>2 DEF IInv, EntryNamesItsStream, Registered
  <2> QED
    BY <1>3, <1>5, <2>1, <2>2, <2>3
<1>11. \A d \in Clients : handler'[d] \notin {"cancelAll", "fetches"}
  BY <1>5
<1>12. Kept'
  BY <1>8, <1>9, <1>10 DEF Kept
<1> QED
  BY <1>6, <1>7, <1>11, <1>12 DEF Served

LEMMA SessionServed ==
    ASSUME IInv, IInv', Served, ~raced', NEW c \in Clients, Attach(c) \/ EndUnsubscribe(c)
    PROVE  Served'
<1>1. CASE Attach(c)
  <2>1. /\ attached = {} /\ \A d \in Clients : handler[d] = "idle"
        /\ attached' = {c}
        /\ UNCHANGED <<task, keyOf, registry, handler, awaited, todo, reopen, owed>>
    BY <1>1 DEF Attach, handlerVars
  <2>2. OneServed'
    BY <2>1 DEF Served, OneServed, Busy
  <2>3. Kept'
    BY <2>1 DEF Served, Kept
  <2>4. \A t \in Tasks : task[t] # "cancelled"
    BY <2>1, NoneCancelled
  <2> QED
    BY <2>1, <2>2, <2>3, <2>4 DEF Served, CancelledAwaited
<1>2. CASE EndUnsubscribe(c)
  <2>1. /\ handler[c] = "unsubscribe" /\ task[awaited[c]] = "gone"
        /\ handler' = [handler EXCEPT ![c] = "idle"]
        /\ UNCHANGED <<task, keyOf, registry, attached, owed>>
    BY <1>2 DEF EndUnsubscribe
  <2>2. \A d \in Clients : d # c => handler[d] = "idle" /\ d \notin attached /\ owed[d] = {}
    BY <2>1, OthersIdle DEF Served, Busy
  <2>3. \A d \in Clients : handler'[d] = "idle"
    BY <2>1, <2>2 DEF IInv, TypeOK
  <2>4. \A t \in Tasks : task[t] # "cancelled"
    BY <2>1, <2>2 DEF Served, CancelledAwaited
  <2>5. Kept
    BY <2>1, <2>2 DEF Served
  <2>6. OneServed'
    BY <2>1, <2>2, <2>3 DEF Served, OneServed, Busy
  <2>7. Kept'
    BY <2>1, <2>5 DEF Kept
  <2> QED
    BY <2>1, <2>3, <2>4, <2>6, <2>7 DEF Served, CancelledAwaited
<1> QED
  BY <1>1, <1>2

(* One stretch of _cancel_all_streams, up to the registry being cleared. *)
LEMMA CancelsServed ==
    ASSUME IInv, IInv', NEW c \in Clients, NEW rest \in SUBSET Tasks, NEW keys \in SUBSET Keys,
           CancelOn(c, rest, keys), Running \subseteq rest,
           \A t \in Tasks : task[t] # "cancelled",
           \A d \in Clients : owed'[d] \subseteq keys,
           \A d \in Clients : d # c => handler[d] = "idle" /\ d \notin attached' /\ owed'[d] = {},
           owed'[c] # {} => c \in attached'
    PROVE  Served'
<1>1. CASE \E t \in Live(rest) : SuspendAt(c, t, Live(rest) \ {t}, keys)
  <2>1. PICK t \in Live(rest) : SuspendAt(c, t, Live(rest) \ {t}, keys)
    BY <1>1
  <2>2. t \in Tasks /\ task' = [task EXCEPT ![t] = IF task[t] = "running" THEN "cancelled" ELSE task[t]]
    BY <2>1 DEF SuspendAt, CancelTask, Live
  <2>3. /\ handler'[c] = "cancelAll" /\ awaited'[c] = t
        /\ todo'[c] = Live(rest) \ {t} /\ reopen'[c] = keys
        /\ \A d \in Clients : d # c => handler'[d] = "idle"
    BY <2>1 DEF SuspendAt, IInv, TypeOK
  <2>4. task'[t] # "running" /\ \A s \in Tasks : s # t => task'[s] = task[s]
    BY <2>2 DEF IInv, TypeOK
  <2>5. OneServed'
    BY <2>3 DEF OneServed, Busy
  <2>6. CancelledAwaited'
    BY <2>3, <2>4 DEF CancelledAwaited
  <2>7. ASSUME NEW s \in Tasks, task'[s] = "running" PROVE s \in todo'[c]
    <3>1. s # t /\ task[s] = "running"
      BY <2>4, <2>7
    <3>2. s \in Live(rest)
      BY <3>1 DEF Running, Live, Ended
    <3> QED
      BY <2>3, <3>1, <3>2
  <2>8. Moving(c)'
    BY <2>3, <2>7 DEF Moving, Running
  <2> QED
    BY <2>3, <2>5, <2>6, <2>8 DEF Served
<1>2. CASE Live(rest) = {} /\ ClearAll(c, keys)
  <2>1. /\ handler'[c] = "fetches" /\ todo'[c] = {} /\ reopen'[c] = keys /\ awaited'[c] = NoTask
        /\ \A d \in Clients : d # c => handler'[d] = "idle"
        /\ task' = task /\ \A k \in Keys : registry'[k] = NoTask
    BY <1>2 DEF ClearAll, IInv, TypeOK
  <2>2. Running = {}
    BY <1>2 DEF Running, Live, Ended
  <2>3. Cleared(c)'
    BY <2>1, <2>2 DEF Cleared, Moving, Running, Registered
  <2>4. OneServed'
    BY <2>1 DEF OneServed, Busy
  <2> QED
    BY <2>1, <2>3, <2>4 DEF Served, CancelledAwaited
<1> QED
  BY <1>1, <1>2 DEF CancelOn

(* The end of a proxy change: no callback may be outstanding that would pop an
   entry it makes.                                                           *)
LEMMA ReopenServed ==
    ASSUME IInv, IInv', Served, ~raced', NEW c \in Clients, Reopen(c)
    PROVE  Served'
<1> DEFINE keys == reopen[c] \ Registered
<1>1. handler[c] = "fetches" /\ UNCHANGED <<attached, owed>> /\ \A t \in Tasks : task[t] # "done"
  BY DEF Reopen, Races
<1>2. \A d \in Clients : d # c => handler[d] = "idle" /\ d \notin attached /\ owed[d] = {}
  BY <1>1, OthersIdle DEF Served, Busy
<1>3. /\ Running = {} /\ Registered = {} /\ \A d \in Clients : owed[d] \subseteq keys
      /\ keys \in SUBSET Keys
  BY <1>1 DEF Served, Cleared, Moving, IInv, TypeOK
<1>4. \A t \in Tasks : task[t] # "cancelled"
  <2> SUFFICES ASSUME NEW t \in Tasks, task[t] = "cancelled" PROVE FALSE
    OBVIOUS
  <2>1. PICK d \in Clients : handler[d] # "idle" /\ awaited[d] = t
    BY DEF Served, CancelledAwaited
  <2>2. d = c
    BY <1>2, <2>1
  <2> QED
    BY <1>1, <2>1, <2>2 DEF Served, Cleared, Tasks, NoTask
<1>5. PICK name \in [keys -> created + 1 .. created + Cardinality(keys)] :
        /\ \A j, k \in keys : j # k => name[j] # name[k]
        /\ task' = [t \in Tasks |-> IF \E k \in keys : name[k] = t THEN "running" ELSE task[t]]
        /\ keyOf' = [t \in Tasks |-> IF \E k \in keys : name[k] = t
                                     THEN CHOOSE k \in keys : name[k] = t ELSE keyOf[t]]
        /\ registry' = [k \in Keys |-> IF k \in keys THEN name[k] ELSE registry[k]]
  BY DEF Reopen, SubscribeAnew
<1>6. \A d \in Clients : handler'[d] = "idle"
  BY <1>2 DEF Reopen, IInv, TypeOK
<1> HIDE DEF keys
<1>7. \A k \in keys : registry'[k] = name[k] /\ name[k] # NoTask /\ name[k] \in Tasks
  <2>1. \A k \in keys : name[k] > 0
    BY <1>3, <1>5, ClientPairs DEF IInv, TypeOK
  <2>2. \A k \in keys : registry'[k] = name[k] /\ registry'[k] \in Tasks \cup {NoTask}
    BY <1>3, <1>5 DEF IInv, TypeOK
  <2> QED
    BY <2>1, <2>2 DEF NoTask
<1>8. ASSUME NEW t \in Tasks, task'[t] = "running" PROVE registry'[keyOf'[t]] = t
  <2>1. PICK k \in keys : name[k] = t
    BY <1>3, <1>5, <1>8 DEF Running
  <2>2. keyOf'[t] = CHOOSE j \in keys : name[j] = t
    BY <1>5, <2>1
  <2>3. keyOf'[t] \in keys /\ name[keyOf'[t]] = t
    BY <2>1, <2>2
  <2> QED
    BY <1>7, <2>3
<1>9. \A t \in Tasks : task'[t] \notin {"cancelled", "done"}
  BY <1>1, <1>4, <1>5
<1>10. \A k \in keys : task'[name[k]] = "running"
  BY <1>5, <1>7
<1>11. Kept'
  <2>1. \A d \in Clients : \A k \in owed'[d] : registry'[k] # NoTask /\ task'[registry'[k]] = "running"
    BY <1>1, <1>3, <1>7, <1>10
  <2> QED
    BY <1>8, <1>9, <2>1 DEF Kept
<1>12. OneServed'
  BY <1>1, <1>2, <1>6 DEF Served, OneServed, Busy
<1> QED
  BY <1>6, <1>9, <1>11, <1>12 DEF Served, CancelledAwaited

LEMMA EntriesRun == ASSUME IInv, Kept, NEW t \in Running PROVE t \in Handles
<1>1. t \in Tasks /\ t # NoTask /\ keyOf[t] \in Keys /\ registry[keyOf[t]] = t
  BY DEF Running, Kept, IInv, TypeOK, Tasks, NoTask
<1> QED
  BY <1>1 DEF Handles, Registered

LEMMA MoveServed ==
    ASSUME IInv, IInv', Served, ~raced', NEW c \in Clients,
           SetProxy(c) \/ CancelNext(c) \/ Reopen(c) \/ Leave(c)
    PROVE  Served'
<1>0. CancelTypes /\ owed \in [Clients -> SUBSET Keys]
  BY Parts DEF CancelInv, RestTypes
<1>1. CASE SetProxy(c)
  <2>1. /\ \A d \in Clients : handler[d] = "idle"
        /\ \A d \in Clients : d # c => d \notin attached /\ owed[d] = {}
        /\ \A t \in Tasks : task[t] \notin {"cancelled", "done"}
        /\ Kept
    BY <1>1, ReadsQuietly DEF SetProxy
  <2>2. CancelOn(c, Handles, Registered) /\ UNCHANGED <<attached, owed>> /\ c \in attached
    BY <1>1 DEF SetProxy, Reads
  <2>3. Running \subseteq Handles
    BY <2>1, EntriesRun
  <2>4. \A d \in Clients : owed[d] \subseteq Registered
    BY <1>0, <2>1 DEF Kept, Registered
  <2> QED
    BY <1>0, <2>1, <2>2, <2>3, <2>4, HandlesAreTasks, CancelsServed
<1>2. CASE CancelNext(c)
  <2>1. /\ handler[c] = "cancelAll" /\ task[awaited[c]] = "gone"
        /\ CancelOn(c, todo[c], reopen[c]) /\ UNCHANGED <<attached, owed>>
        /\ \A t \in Tasks : task[t] # "done"
    BY <1>2 DEF CancelNext, Races
  <2>2. \A d \in Clients : d # c => handler[d] = "idle" /\ d \notin attached /\ owed[d] = {}
    BY <2>1, OthersIdle DEF Served, Busy
  <2>3. \A t \in Tasks : task[t] # "cancelled"
    BY <2>1, <2>2 DEF Served, CancelledAwaited
  <2>4. Running \subseteq todo[c] /\ \A d \in Clients : owed[d] \subseteq reopen[c]
    BY <2>1 DEF Served, Moving
  <2>5. owed[c] # {} => c \in attached
    BY DEF Served, OneServed
  <2>6. todo[c] \in SUBSET Tasks /\ reopen[c] \in SUBSET Keys
    BY <1>0 DEF CancelTypes
  <2> QED
    BY <2>1, <2>2, <2>3, <2>4, <2>5, <2>6, CancelsServed
<1>3. CASE Leave(c)
  <2>1. c \in attached /\ handler[c] = "idle" /\ attached' = attached \ {c} /\ owed' = [owed EXCEPT ![c] = {}]
    BY <1>3 DEF Leave
  <2>2. \A d \in Clients : d # c => handler[d] = "idle" /\ d \notin attached /\ owed[d] = {}
    BY <2>1, OthersIdle DEF Served, Busy
  <2>3. attached = {c}
    BY <2>1, <2>2 DEF IInv, TypeOK
  <2>4. CancelOn(c, Handles, {})
    BY <1>3, <2>3 DEF Leave
  <2>5. \A d \in Clients : owed'[d] = {}
    BY <1>0, <2>1, <2>2
  <2>6. Kept /\ \A t \in Tasks : task[t] # "cancelled"
    BY <2>1, <2>2, NoneCancelled DEF Served
  <2>7. Running \subseteq Handles
    BY <2>6, EntriesRun
  <2> QED
    BY <1>0, <2>1, <2>2, <2>4, <2>5, <2>6, <2>7, HandlesAreTasks, CancelsServed
<1>4. CASE Reopen(c)
  BY <1>4, ReopenServed
<1> QED
  BY <1>1, <1>2, <1>3, <1>4

LEMMA TasksServed ==
    ASSUME IInv, IInv', Served, NEW t \in Tasks, TaskStep(t)
    PROVE  Served'
<1>1. UNCHANGED <<keyOf, handler, awaited, todo, reopen, attached>> /\ t # NoTask /\ keyOf[t] \in Keys
  BY DEF TaskStep, TaskDies, TaskCancelled, OnDone, handlerVars, IInv, TypeOK, Tasks, NoTask
<1>2. \A s \in Tasks : s # t => task'[s] = task[s]
  BY DEF TaskStep, TaskDies, TaskCancelled, OnDone, IInv, TypeOK
<1>3. task'[t] \in {"done", "gone"} /\ task[t] \in {"running", "cancelled", "done"}
  BY DEF TaskStep, TaskDies, TaskCancelled, OnDone, IInv, TypeOK
<1>4. \A c \in Clients : owed'[c] \subseteq owed[c]
  BY DEF TaskStep, TaskDies, TaskCancelled, OnDone, IInv, TypeOK
<1>5. OneServed'
  BY <1>1, <1>4 DEF Served, OneServed, Busy
<1>6. CancelledAwaited'
  BY <1>1, <1>2, <1>3 DEF Served, CancelledAwaited
<1>7. ASSUME NEW c \in Clients, handler[c] = "cancelAll" PROVE Moving(c)'
  <2>1. Running' \subseteq Running
    BY <1>2, <1>3 DEF Running
  <2> QED
    BY <1>1, <1>4, <1>7, <2>1 DEF Served, Moving
<1>9. ASSUME NEW c \in Clients, handler[c] = "fetches" PROVE Cleared(c)'
  <2>1. Running' \subseteq Running
    BY <1>2, <1>3 DEF Running
  <2>2. Moving(c)'
    BY <1>1, <1>4, <1>9, <2>1 DEF Served, Cleared, Moving
  <2>3. \A k \in Keys : registry[k] = NoTask => registry'[k] = NoTask
    BY <1>1 DEF TaskStep, TaskDies, TaskCancelled, OnDone, PopsEntry, IInv, TypeOK
  <2> QED
    BY <1>1, <1>9, <2>2, <2>3 DEF Served, Cleared, Registered
<1>8. ASSUME Kept PROVE Kept'
  <2>1. CASE TaskDies(t) \/ TaskCancelled(t)
    <3>1. registry' = registry /\ task'[t] = "done"
      BY <2>1 DEF TaskDies, TaskCancelled, IInv, TypeOK
    <3>2. registry[keyOf[t]] \in {t, NoTask}
      BY <1>8, <2>1 DEF Kept, TaskDies, TaskCancelled
    <3>3. ASSUME NEW c \in Clients, NEW k \in owed'[c]
          PROVE  registry'[k] # NoTask /\ task'[registry'[k]] = "running"
      <4>1. k \in owed[c] /\ k \in Keys
        BY <1>4, <3>3 DEF IInv, TypeOK
      <4>2. registry[k] # NoTask /\ task[registry[k]] = "running" /\ registry[k] \in Tasks
        BY <1>8, <4>1 DEF Kept, IInv, TypeOK
      <4>3. registry[k] # t
        <5>1. CASE TaskDies(t)
          <6>1. k # keyOf[t]
            BY <3>3, <5>1 DEF TaskDies
          <6> QED
            BY <4>1, <4>2, <6>1 DEF IInv, EntryNamesItsStream, Registered
        <5>2. CASE TaskCancelled(t)
          BY <4>2, <5>2 DEF TaskCancelled
        <5> QED
          BY <2>1, <5>1, <5>2
      <4> QED
        BY <1>2, <3>1, <4>2, <4>3
    <3> QED
      BY <1>1, <1>2, <1>8, <3>1, <3>2, <3>3 DEF Kept
  <2>2. CASE OnDone(t)
    <3>1. /\ task[t] = "done" /\ task'[t] = "gone" /\ owed' = owed
          /\ registry' = [registry EXCEPT ![keyOf[t]] = NoTask]
      BY <2>2 DEF OnDone, PopsEntry, IInv, TypeOK
    <3>2. registry[keyOf[t]] \in {t, NoTask}
      BY <1>8, <3>1 DEF Kept
    <3>3. registry'[keyOf[t]] = NoTask /\ \A k \in Keys : k # keyOf[t] => registry'[k] = registry[k]
      BY <1>1, <3>1 DEF IInv, TypeOK
    <3>4. ASSUME NEW s \in Tasks, task'[s] = "running" PROVE registry'[keyOf[s]] = s
      <4>1. s # t /\ task[s] = "running" /\ registry[keyOf[s]] = s /\ keyOf[s] \in Keys /\ s # NoTask
        BY <1>2, <1>8, <3>1, <3>4 DEF Kept, IInv, TypeOK, Tasks, NoTask
      <4>2. keyOf[s] # keyOf[t]
        BY <3>2, <4>1
      <4> QED
        BY <3>3, <4>1, <4>2
    <3>5. ASSUME NEW s \in Tasks, task'[s] \in {"cancelled", "done"} PROVE registry'[keyOf[s]] \in {s, NoTask}
      <4>1. s # t /\ task[s] \in {"cancelled", "done"} /\ keyOf[s] \in Keys
        BY <1>2, <3>1, <3>5 DEF IInv, TypeOK
      <4>2. registry[keyOf[s]] \in {s, NoTask}
        BY <1>8, <4>1 DEF Kept
      <4> QED
        BY <3>3, <4>1, <4>2
    <3>6. ASSUME NEW c \in Clients, NEW k \in owed[c]
          PROVE  registry'[k] # NoTask /\ task'[registry'[k]] = "running"
      <4>1. k \in Keys /\ registry[k] # NoTask /\ task[registry[k]] = "running" /\ registry[k] \in Tasks
        BY <1>8, <3>6 DEF Kept, IInv, TypeOK
      <4>2. registry[k] # t
        BY <3>1, <4>1
      <4>3. k # keyOf[t]
        BY <3>2, <4>1, <4>2
      <4> QED
        BY <1>2, <3>3, <4>1, <4>2, <4>3
    <3> QED
      BY <1>1, <3>1, <3>4, <3>5, <3>6 DEF Kept
  <2> QED
    BY <2>1, <2>2 DEF TaskStep
<1> QED
  BY <1>1, <1>5, <1>6, <1>7, <1>8, <1>9 DEF Served

LEMMA ServedInit == Init => Served
BY DEF Init, Served, OneServed, CancelledAwaited, Kept, Busy

LEMMA RacedStays == ASSUME [Next]_vars, raced PROVE raced'
BY DEF Next, Step, TaskStep, Attach, Leave, SetProxy, EndUnsubscribe, CancelNext, Reopen, Subscribe,
       Unsubscribe, TaskDies, TaskCancelled, OnDone, Reads, Races, vars

LEMMA ServedStep == ASSUME IInv, ~raced => Served, [Next]_vars PROVE ~raced' => Served'
<1> SUFFICES ASSUME ~raced' PROVE Served'
  OBVIOUS
<1>1. Served /\ IInv'
  BY RacedStays, NextInv
<1>2. ASSUME NEW c \in Clients, Step(c) PROVE Served'
  BY <1>1, <1>2, SubscribeServed, UnsubscribeServed, SessionServed, MoveServed DEF Step
<1>3. ASSUME NEW t \in Tasks, TaskStep(t) PROVE Served'
  BY <1>1, <1>3, TasksServed
<1>4. CASE UNCHANGED vars
  BY <1>1, <1>4 DEF vars, handlerVars, Served, OneServed, CancelledAwaited, Kept, Moving,
                      Cleared, Registered, Busy, Running
<1> QED
  BY <1>2, <1>3, <1>4 DEF Next

LEMMA ServedIsOwed == ASSUME IInv, Served, Quiet
                      PROVE Running = Handles /\ UNION {owed[c] : c \in Clients} \subseteq Registered
<1>1. Kept /\ \A t \in Tasks : task[t] \notin {"cancelled", "done"}
  BY NoneCancelled DEF Quiet, Served
<1>2. Running \subseteq Handles
  BY <1>1, EntriesRun
<1>3. Handles \subseteq Running
  <2> SUFFICES ASSUME NEW k \in Keys, registry[k] # NoTask PROVE registry[k] \in Running
    BY DEF Handles, Registered
  <2>1. registry[k] \in Tasks /\ task[registry[k]] \notin {"none", "gone"}
    BY DEF IInv, TypeOK, EntryNamesItsStream, Registered
  <2> QED
    BY <1>1, <2>1 DEF Running, IInv, TypeOK, TaskStates
<1>4. \A c \in Clients : owed[c] \subseteq Registered
  BY <1>1 DEF Kept, Registered, IInv, TypeOK
<1> QED
  BY <1>2, <1>3, <1>4

(* As long as clients are served one after the other, whenever the engine is
   quiet the running streams are the registered ones and the client has every
   stream it is owed, through every mixture of subscriptions, proxy changes,
   dying streams and disconnects (_handle_subscribe, _cancel_all_streams).   *)
THEOREM StreamsOwedAreServed == Spec => []StreamsAsOwed
<1>1. Init => (~raced => Served)
  BY ServedInit
<1>2. IInv /\ (~raced => Served) /\ [Next]_vars => (~raced => Served)'
  BY ServedStep
<1>3. IInv /\ (~raced => Served) => StreamsAsOwed
  BY ServedIsOwed DEF StreamsAsOwed
<1> QED
  BY <1>1, <1>2, <1>3, Inductive, PTL DEF Spec

-----------------------------------------------------------------------------
(* Order books.  The invariant: what is on the connection, waits in a syncer
   or is on its way to the client tells the truth about the exchange's book
   (Flow); what is on its way is in an order that the tracker of the client
   can tell from a hole (Ordered, AtSession); so the book shown is the
   exchange's (Shown).                                                      *)

-----------------------------------------------------------------------------
(* Induction: a set of natural numbers has a least element.                 *)

LEMMA LeastElement ==
  ASSUME NEW T, T \subseteq Nat, T # {}
  PROVE  \E x \in T : \A y \in T : x <= y
<1>1. IsWellFoundedOn(OpToRel(<,Nat), Nat)
  BY NatLessThanWellFounded
<1>2. \E x \in T : \A y \in T : ~ (<<y, x>> \in OpToRel(<,Nat))
  BY <1>1, WFMin
<1>3. \A x, y \in Nat : ~(<<y, x>> \in OpToRel(<,Nat)) => x <= y
  BY DEF OpToRel
<1>4. \A x \in T : x \in Nat
  OBVIOUS
<1> QED
  BY <1>2, <1>3, <1>4, Zenon

LEMMA GreatestElement ==
  ASSUME NEW n \in Nat, NEW T, T \subseteq 1 .. n, T # {}
  PROVE  \E x \in T : \A y \in T : y <= x
<1> DEFINE Above == {m \in Nat : \A y \in T : y <= m}
<1>1. n \in Above
  OBVIOUS
<1> HIDE DEF Above
<1>2. PICK m \in Above : \A k \in Above : m <= k
  <2>1. Above \subseteq Nat
    BY DEF Above
  <2> QED
    BY <1>1, <2>1, LeastElement
<1>3. m \in Nat /\ \A y \in T : y <= m
  BY DEF Above
<1>4. CASE m \in T
  BY <1>3, <1>4
<1>5. CASE m \notin T
  <2>1. \A y \in T : y <= m - 1 /\ y >= 1
    BY <1>3, <1>5
  <2>2. m - 1 \in Nat
    <3>1. PICK y \in T : TRUE
      OBVIOUS
    <3>2. y \in Nat /\ y <= m - 1 /\ y >= 1
      BY <2>1, <3>1
    <3> QED
      BY <1>3, <3>2
  <2>3. m - 1 \in Above
    BY <2>1, <2>2 DEF Above
  <2> QED
    BY <1>2, <1>3, <2>3
<1> QED
  BY <1>4, <1>5

(* g goes through a list of N elements, from b on, each step staying in A. *)
GoesThrough(g, A, h, b, q, N) ==
  g \in [0 .. N -> A] /\ g[0] = b /\ \A i \in 1 .. N : g[i] = h[<<g[i-1], q[i]>>]

(* What is defined by going through a list is there. *)
LEMMA Steps ==
  ASSUME NEW A, NEW F, NEW h \in [A \X F -> A], NEW b \in A, NEW N \in Nat, NEW q \in [1 .. N -> F]
  PROVE  \E g : GoesThrough(g, A, h, b, q, N)
<1> DEFINE P(k) == \E g \in [0 .. k -> A] : g[0] = b /\ \A i \in 1 .. k : g[i] = h[<<g[i-1], q[i]>>]
           Bad == {k \in 0 .. N : ~ P(k)}
<1>1. P(0)
  <2>1. [j \in 0 .. 0 |-> b] \in [0 .. 0 -> A] /\ [j \in 0 .. 0 |-> b][0] = b
    OBVIOUS
  <2>2. \A i \in 1 .. 0 : FALSE
    OBVIOUS
  <2> QED
    BY <2>1, <2>2
<1>2. ASSUME NEW k \in 0 .. N, k < N, P(k) PROVE P(k+1)
  <2>1. PICK g \in [0 .. k -> A] : g[0] = b /\ \A i \in 1 .. k : g[i] = h[<<g[i-1], q[i]>>]
    BY <1>2
  <2> DEFINE g2 == [j \in 0 .. k+1 |-> IF j <= k THEN g[j] ELSE h[<<g[k], q[k+1]>>]]
  <2>2. g2 \in [0 .. k+1 -> A]
    <3>1. k + 1 \in 1 .. N /\ k \in 0 .. k
      BY <1>2
    <3>2. <<g[k], q[k+1]>> \in A \X F
      BY <2>1, <3>1
    <3>3. h[<<g[k], q[k+1]>>] \in A
      BY <3>2
    <3> HIDE DEF P, Bad
    <3> QED
      BY <2>1, <3>3
  <2>3. g2[0] = b /\ \A i \in 1 .. k+1 : g2[i] = h[<<g2[i-1], q[i]>>]
    <3>1. ASSUME NEW i \in 1 .. k + 1 PROVE g2[i] = h[<<g2[i-1], q[i]>>]
      <4>1. CASE i <= k
        BY <2>1, <4>1
      <4>2. CASE i = k + 1
        <5>1. i - 1 = k /\ g2[i] = h[<<g[k], q[k+1]>>] /\ g2[k] = g[k]
          BY <2>1, <4>2
        <5> QED
          BY <4>2, <5>1
      <4> QED
        BY <4>1, <4>2
    <3>2. g2[0] = b
      BY <2>1
    <3> QED
      BY <3>1, <3>2
  <2> HIDE DEF g2
  <2> QED
    BY <2>2, <2>3
<1> HIDE DEF P
<1>3. CASE Bad # {}
  <2>0. Bad \subseteq Nat
    OBVIOUS
  <2> HIDE DEF Bad
  <2>1. PICK k \in Bad : \A y \in Bad : k <= y
    BY <1>3, <2>0, LeastElement
  <2>2. k \in 0 .. N /\ ~P(k)
    BY DEF Bad
  <2>3. k # 0 /\ k - 1 \in 0 .. N /\ k - 1 < N
    BY <1>1, <2>2
  <2>4. k - 1 \notin Bad
    BY <2>0, <2>1, <2>3
  <2>5. P(k - 1)
    BY <2>3, <2>4 DEF Bad
  <2>6. P((k - 1) + 1)
    BY <1>2, <2>3, <2>5
  <2>7. (k - 1) + 1 = k
    BY <2>2
  <2> QED
    BY <2>2, <2>6, <2>7
<1>4. CASE Bad = {}
  <2>1. N \in 0 .. N
    OBVIOUS
  <2>2. P(N)
    BY <1>4, <2>1
  <2> QED
    BY <2>2 DEF P, GoesThrough
<1> QED
  BY <1>3, <1>4

(* A function whose values follow from one another stays where they stay. *)
LEMMA Stays ==
  ASSUME NEW A, NEW N \in Nat, NEW f, f[0] \in A,
         \A i \in 1 .. N : f[i-1] \in A => f[i] \in A
  PROVE  f[N] \in A
<1> DEFINE Bad == {k \in 0 .. N : f[k] \notin A}
<1>1. Bad \subseteq Nat
  OBVIOUS
<1>2. CASE Bad # {}
  <2> HIDE DEF Bad
  <2>1. PICK k \in Bad : \A y \in Bad : k <= y
    BY <1>1, <1>2, LeastElement
  <2>2. k \in 0 .. N /\ f[k] \notin A
    BY DEF Bad
  <2>3. k \in 1 .. N /\ k - 1 \in 0 .. N
    BY <2>2
  <2>4. k - 1 \notin Bad
    BY <1>1, <2>1, <2>3
  <2> QED
    BY <2>2, <2>3, <2>4 DEF Bad
<1>3. CASE Bad = {}
  BY <1>3
<1> QED
  BY <1>2, <1>3

-----------------------------------------------------------------------------
(* The book of the exchange.                                                *)

LEMMA SetByIsLast ==
  ASSUME NEW n \in 0 .. MaxVersion, NEW l
  PROVE  Market!SetBy(n, l) \in 0 .. MaxVersion
<1> DEFINE past == {k \in 1 .. n : LevelOf[k] = l}
<1>0. n \in Nat /\ MaxVersion \in Nat
  BY DepthAssumption
<1>1. CASE past = {}
  BY <1>0, <1>1 DEF Market!SetBy
<1>2. CASE past # {}
  <2>1. \E k \in past : \A j \in past : j <= k
    <3>1. past \subseteq 1 .. n
      OBVIOUS
    <3> HIDE DEF past
    <3> QED
      BY <1>0, <1>2, <3>1, GreatestElement
  <2>2. (CHOOSE k \in past : \A j \in past : j <= k) \in past
    <3> HIDE DEF past
    <3> QED
      BY <2>1
  <2>3. Market!SetBy(n, l) \in past
    BY <1>2, <2>2 DEF Market!SetBy
  <2> QED
    BY <1>0, <2>3
<1> QED
  BY <1>1, <1>2

LEMMA BooksTyped ==
  /\ \A n \in 0 .. MaxVersion : Market!BookAt(n) \in Market!Books
  /\ Market!Empty \in Market!Books
BY SetByIsLast, DepthAssumption DEF Market!BookAt, Market!Books, Market!Empty

LEMMA AppliedTyped ==
  ASSUME NEW b \in Market!Books, NEW first \in Nat, NEW last \in 0 .. MaxVersion
  PROVE  Applied(b, first, last) \in Market!Books
BY SetByIsLast DEF Applied, Market!Books

(* A difference that leaves nothing out brings the book to its own end. *)
LEMMA AppliedFollows ==
  ASSUME NEW m \in 0 .. MaxVersion, NEW first \in Nat \ {0}, NEW last \in 0 .. MaxVersion,
         first <= m + 1, m < last
  PROVE  Applied(Market!BookAt(m), first, last) = Market!BookAt(last)
<1>0. MaxVersion \in Nat
  BY DepthAssumption
<1>1. ASSUME NEW l \in Levels, ~ \E k \in first .. last : LevelOf[k] = l
      PROVE  Market!SetBy(m, l) = Market!SetBy(last, l)
  <2> DEFINE early == {k \in 1 .. m : LevelOf[k] = l}
             past == {k \in 1 .. last : LevelOf[k] = l}
             Latest(S) == IF S = {} THEN 0 ELSE CHOOSE k \in S : \A j \in S : j <= k
  <2>1. early = past
    BY <1>0, <1>1
  <2>2. Market!SetBy(m, l) = Latest(early) /\ Market!SetBy(last, l) = Latest(past)
    BY DEF Market!SetBy
  <2> HIDE DEF early, past, Latest
  <2> QED
    BY <2>1, <2>2
<1> QED
  BY <1>1 DEF Applied, Market!BookAt

-----------------------------------------------------------------------------
(* Frames, syncers and events that tell the truth about the exchange's book. *)

(* A difference covers the versions after the one it names, without a hole;
   Bybit and MEXC send them one by one.                                     *)
Diffs == {d \in Frames : /\ d.kind = "diff" /\ d.first = d.prev + 1 /\ d.first <= d.last
                         /\ d.last <= version
                         /\ venue \in {"bybit", "mexc"} => d.first = d.last}

FrameSound(f) == f \in Diffs \/ (f.kind = "snapshot" /\ f.last \in 1 .. version) \/ f.kind = "confirm"

(* The differences that wait for a snapshot. *)
Waiting == {q \in Seq(Diffs) : Len(q) <= MaxPending}

SoundSyncers == [ssid : 1 .. syncer.ssid, applied : 0 .. version, ready : BOOLEAN,
                 needsResync : BOOLEAN, fresh : BOOLEAN, pending : Waiting]

(* An event is of a session there was, of a version there is, and a
   difference follows what it names.                                        *)
SoundEvents ==
    {e \in Events :
        /\ e.kind = "Snapshot" => e.ssid <= syncer.ssid /\ e.seq <= version
        /\ e.kind = "Diff" => /\ e.ssid <= syncer.ssid /\ e.first <= e.prev + 1
                              /\ e.prev < e.seq /\ e.seq <= version}

(* What a syncer emits for a snapshot: it, the differences that waited and
   connect, and at most one gap, which is the last.                         *)
Batch(q, ssid) ==
    /\ q \in Seq(SoundEvents) /\ q # <<>>
    /\ q[1].kind = "Snapshot" /\ q[1].ssid = ssid
    /\ \A i \in 2 .. Len(q) : \/ q[i].kind = "Diff" /\ q[i].ssid = ssid
                              \/ q[i].kind = "Gap" /\ i = Len(q)

(* What it emits for a difference. *)
Single(q, ssid) ==
    \/ q = <<>>
    \/ \E e \in SoundEvents : q = <<e>> /\ (e.kind = "Gap" \/ (e.kind = "Diff" /\ e.ssid = ssid))

Numbers == version \in Versions /\ syncer.ssid \in Sessions

LEMMA NumbersAre ==
    ASSUME Numbers
    PROVE  /\ version \in Nat \ {0} /\ version <= MaxVersion /\ MaxVersion \in Nat
           /\ syncer.ssid \in Nat \ {0} /\ syncer.ssid <= MaxSessions /\ MaxSessions \in Nat
BY DepthAssumption DEF Numbers, Versions, Sessions

LEMMA GapIsSound == Gap \in SoundEvents /\ Gap.kind = "Gap"
BY DEF Gap, SoundEvents, Events

LEMMA SnapshotIsSound ==
    ASSUME Numbers, NEW ssid \in 1 .. syncer.ssid, NEW n \in 1 .. version
    PROVE  /\ Snapshot(ssid, n) \in SoundEvents
           /\ Snapshot(ssid, n).kind = "Snapshot" /\ Snapshot(ssid, n).ssid = ssid
BY NumbersAre DEF Snapshot, SoundEvents, Events, Sessions, Versions

LEMMA SingleIs ==
    ASSUME NEW ssid, NEW e \in SoundEvents, e.kind = "Gap" \/ (e.kind = "Diff" /\ e.ssid = ssid)
    PROVE  Single(<<e>>, ssid)
BY DEF Single

LEMMA GapIsSingle ==
    ASSUME NEW ssid
    PROVE  Single(<<Gap>>, ssid)
BY GapIsSound, SingleIs, Zenon

LEMMA QueueSound ==
    ASSUME Numbers, NEW s \in SoundSyncers, NEW d \in Diffs
    PROVE  LET r == Queue(s, d)
           IN  /\ r.s \in SoundSyncers /\ r.s.ssid = s.ssid /\ Single(r.out, s.ssid)
               /\ s.needsResync \/ r.out # <<>> => r.s.needsResync
<1>1. s.pending \in Seq(Diffs) /\ MaxPending \in Nat
  BY DepthAssumption DEF SoundSyncers, Waiting
<1>2. CASE Len(s.pending) >= MaxPending
  <2> DEFINE t == [s EXCEPT !.pending = <<>>, !.needsResync = TRUE]
  <2>1. <<>> \in Waiting
    BY <1>1 DEF Waiting
  <2>2. t \in SoundSyncers /\ t.ssid = s.ssid /\ t.needsResync
    BY <2>1 DEF SoundSyncers
  <2>3. Queue(s, d) = [s |-> t, out |-> <<Gap>>]
    BY <1>2 DEF Queue
  <2> HIDE DEF t
  <2> QED
    BY <2>2, <2>3, GapIsSingle
<1>3. CASE ~(Len(s.pending) >= MaxPending)
  <2> DEFINE more == Append(s.pending, d)
             t == [s EXCEPT !.pending = more]
  <2>1. more \in Waiting
    BY <1>1, <1>3 DEF Waiting
  <2>2. Queue(s, d) = [s |-> t, out |-> <<>>]
    BY <1>3 DEF Queue
  <2> HIDE DEF more
  <2>3. t \in SoundSyncers /\ t.ssid = s.ssid /\ t.needsResync = s.needsResync
    BY <2>1 DEF SoundSyncers
  <2> HIDE DEF t
  <2> QED
    BY <2>2, <2>3 DEF Single
<1> QED
  BY <1>2, <1>3

LEMMA ConnectsWithoutHole ==
    ASSUME Numbers, NEW s \in SoundSyncers, NEW d \in Diffs, Connects(s, d)
    PROVE  d.first <= s.applied + 1
BY NumbersAre DEF Connects, Diffs, Frames, SoundSyncers

LEMMA ProcessSound ==
    ASSUME Numbers, NEW s \in SoundSyncers, NEW d \in Diffs, NEW replaying \in BOOLEAN
    PROVE  LET r == Process(s, d, replaying)
           IN  /\ r.s \in SoundSyncers /\ r.s.ssid = s.ssid /\ Single(r.out, s.ssid)
               /\ r.out = <<Gap>> => r.s.needsResync
<1> USE NumbersAre
<1>1. /\ s.ssid \in 1 .. syncer.ssid /\ s.applied \in 0 .. version
      /\ d.first \in 1 .. version /\ d.last \in 1 .. version /\ d.last \in 0 .. version
  BY DEF SoundSyncers, Diffs, Frames
<1>2. CASE d.last <= s.applied
  <2>1. Process(s, d, replaying) = [s |-> s, out |-> <<>>]
    BY <1>1, <1>2 DEF Process
  <2> QED
    BY <2>1 DEF Single
<1>3. CASE d.last > s.applied /\ Connects(s, d)
  <2> DEFINE t == [s EXCEPT !.applied = d.last, !.fresh = FALSE]
             e == [kind |-> "Diff", ssid |-> s.ssid, prev |-> s.applied,
                   first |-> d.first, seq |-> d.last]
  <2>1. Process(s, d, replaying) = [s |-> t, out |-> <<e>>]
    BY <1>1, <1>3 DEF Process
  <2>2. t \in SoundSyncers /\ t.ssid = s.ssid
    <3> DEFINE u == [s EXCEPT !.applied = d.last]
    <3>1. u \in SoundSyncers /\ u.ssid = s.ssid
      BY <1>1 DEF SoundSyncers
    <3>2. t = [u EXCEPT !.fresh = FALSE]
      BY DEF SoundSyncers
    <3> HIDE DEF u, t
    <3> QED
      BY <3>1, <3>2 DEF SoundSyncers
  <2>3. e \in [kind : {"Diff"}, ssid : Sessions, prev : 0 .. MaxVersion, first : Versions, seq : Versions]
    BY <1>1 DEF Sessions, Versions
  <2>4. e \in SoundEvents /\ e.kind = "Diff" /\ e.ssid = s.ssid
    BY <1>1, <1>3, <2>3, ConnectsWithoutHole DEF SoundEvents, Events
  <2>5. <<e>> # <<Gap>>
    <3>1. e # Gap
      BY <2>4, GapIsSound
    <3> QED
      BY <3>1
  <2> HIDE DEF t, e
  <2> QED
    BY <2>1, <2>2, <2>4, <2>5, SingleIs
<1>4. CASE d.last > s.applied /\ ~Connects(s, d)
  <2> DEFINE told == [s EXCEPT !.needsResync = TRUE]
             t == IF venue \in Binance /\ ~replaying THEN Queue(told, d).s ELSE told
  <2>1. Process(s, d, replaying) = [s |-> t, out |-> <<Gap>>]
    <3>1. Process(s, d, replaying) = IF venue \in Binance /\ ~replaying
                                     THEN [s |-> Queue(told, d).s, out |-> <<Gap>>]
                                     ELSE [s |-> told, out |-> <<Gap>>]
      BY <1>1, <1>4 DEF Process
    <3> HIDE DEF told
    <3> QED
      BY <3>1
  <2>2. told \in SoundSyncers /\ told.ssid = s.ssid /\ told.needsResync
    BY DEF SoundSyncers
  <2> HIDE DEF told
  <2>3. t \in SoundSyncers /\ t.ssid = s.ssid /\ t.needsResync
    BY <2>2, QueueSound
  <2> HIDE DEF t
  <2> QED
    BY <2>1, <2>3, GapIsSingle
<1> QED
  BY <1>1, <1>2, <1>3, <1>4

LEMMA TakesSound ==
    ASSUME Numbers, NEW s \in SoundSyncers, NEW d \in Diffs
    PROVE  LET r == Takes(s, d)
           IN  r.s \in SoundSyncers /\ r.s.ssid = s.ssid /\ Single(r.out, s.ssid)
BY QueueSound, ProcessSound DEF Takes
-----------------------------------------------------------------------------
(* _apply_snapshot: what it has done after some of the differences.         *)

Replayed(ssid) ==
    {acc \in [s : SoundSyncers, out : Seq(SoundEvents), stopped : BOOLEAN] :
        /\ acc.s.ssid = ssid
        /\ Batch(acc.out, ssid)
        /\ acc.stopped \/ \A i \in 1 .. Len(acc.out) : acc.out[i].kind # "Gap"}

LEMMA BatchGrows ==
    ASSUME NEW ssid, NEW q, Batch(q, ssid), \A i \in 1 .. Len(q) : q[i].kind # "Gap",
           NEW e \in SoundEvents, e.kind = "Gap" \/ (e.kind = "Diff" /\ e.ssid = ssid)
    PROVE  /\ Batch(q \o <<e>>, ssid)
           /\ e.kind = "Diff" => \A i \in 1 .. Len(q \o <<e>>) : (q \o <<e>>)[i].kind # "Gap"
<1> DEFINE r == q \o <<e>>
<1>1. q \in Seq(SoundEvents) /\ Len(q) \in Nat \ {0} /\ <<e>> \in Seq(SoundEvents)
  BY DEF Batch
<1>2. /\ r \in Seq(SoundEvents) /\ Len(r) = Len(q) + 1
      /\ \A i \in 1 .. Len(q) : r[i] = q[i]
      /\ r[Len(q) + 1] = e
  BY <1>1
<1> HIDE DEF r
<1>3. r # <<>> /\ r[1] = q[1]
  BY <1>1, <1>2
<1>4. ASSUME NEW i \in 2 .. Len(r)
      PROVE  (r[i].kind = "Diff" /\ r[i].ssid = ssid) \/ (r[i].kind = "Gap" /\ i = Len(r))
  <2>1. CASE i \in 2 .. Len(q)
    <3>1. (q[i].kind = "Diff" /\ q[i].ssid = ssid) \/ (q[i].kind = "Gap" /\ i = Len(q))
      BY <2>1 DEF Batch
    <3> QED
      BY <1>1, <1>2, <2>1, <3>1
  <2>2. CASE i = Len(q) + 1
    BY <1>2, <2>2
  <2> QED
    BY <1>1, <1>2, <2>1, <2>2
<1>5. Batch(r, ssid)
  BY <1>2, <1>3, <1>4 DEF Batch
<1>6. ASSUME e.kind = "Diff", NEW i \in 1 .. Len(r)
      PROVE  r[i].kind # "Gap"
  <2>1. CASE i \in 1 .. Len(q)
    BY <1>2, <2>1
  <2>2. CASE i = Len(q) + 1
    BY <1>2, <1>6, <2>2
  <2> QED
    BY <1>1, <1>2, <2>1, <2>2
<1> QED
  BY <1>5, <1>6 DEF r

LEMMA ReplaySound ==
    ASSUME Numbers, NEW ssid, NEW acc \in Replayed(ssid), NEW d \in Diffs
    PROVE  Replay(acc, d) \in Replayed(ssid)
<1>1. CASE acc.stopped
  BY <1>1 DEF Replay
<1>2. CASE ~acc.stopped
  <2> DEFINE done == Process(acc.s, d, TRUE)
             more == acc.out \o done.out
             next == [s |-> done.s, out |-> more, stopped |-> done.s.needsResync]
  <2>1. /\ acc.s \in SoundSyncers /\ acc.s.ssid = ssid /\ acc.out \in Seq(SoundEvents)
        /\ Batch(acc.out, ssid) /\ \A i \in 1 .. Len(acc.out) : acc.out[i].kind # "Gap"
    BY <1>2 DEF Replayed
  <2>2. Replay(acc, d) = next
    BY <1>2 DEF Replay
  <2>3. /\ done.s \in SoundSyncers /\ done.s.ssid = ssid /\ Single(done.out, ssid)
        /\ done.out = <<Gap>> => done.s.needsResync
    BY <2>1, ProcessSound
  <2>4. done.s.needsResync \in BOOLEAN
    BY <2>3 DEF SoundSyncers
  <2> HIDE DEF done
  <2>5. /\ Batch(more, ssid)
        /\ done.s.needsResync \/ \A i \in 1 .. Len(more) : more[i].kind # "Gap"
    <3>1. CASE done.out = <<>>
      <4>1. more = acc.out
        BY <2>1, <3>1
      <4> HIDE DEF more
      <4> QED
        BY <2>1, <4>1
    <3>2. CASE done.out # <<>>
      <4>1. PICK e \in SoundEvents : /\ done.out = <<e>>
                                     /\ e.kind = "Gap" \/ (e.kind = "Diff" /\ e.ssid = ssid)
        BY <2>3, <3>2 DEF Single
      <4>2. /\ Batch(more, ssid)
            /\ e.kind = "Diff" => \A i \in 1 .. Len(more) : more[i].kind # "Gap"
        BY <2>1, <4>1, BatchGrows
      <4>3. e.kind = "Gap" => e = Gap
        BY DEF SoundEvents, Events, Gap
      <4> HIDE DEF more
      <4> QED
        BY <2>3, <4>1, <4>2, <4>3
    <3> QED
      BY <3>1, <3>2
  <2>6. more \in Seq(SoundEvents)
    BY <2>5 DEF Batch
  <2> HIDE DEF more
  <2>7. next \in Replayed(ssid)
    BY <2>3, <2>4, <2>5, <2>6 DEF Replayed
  <2> QED
    BY <2>2, <2>7
<1> QED
  BY <1>1, <1>2

LEMMA ApplySnapshotSound ==
    ASSUME Numbers, NEW s \in SoundSyncers, NEW n \in 1 .. version
    PROVE  LET r == ApplySnapshot(s, n)
           IN  r.s \in SoundSyncers /\ r.s.ssid = s.ssid /\ Batch(r.out, s.ssid)
<1> DEFINE A == Replayed(s.ssid)
           q == s.pending
           N == Len(q)
           start == [s EXCEPT !.applied = n, !.pending = <<>>,
                              !.fresh = venue \in Binance,
                              !.ready = @ \/ venue \notin Binance,
                              !.needsResync = @ /\ venue \notin {"okex", "mexc"}]
           b == [s |-> start, out |-> <<Snapshot(s.ssid, n)>>, stopped |-> FALSE]
           R(f) == [i \in 0 .. N |-> IF i = 0 THEN b ELSE Replay(f[i - 1], q[i])]
           after == CHOOSE f : f = R(f)
<1>1. ApplySnapshot(s, n) = after[N]
  BY DEF ApplySnapshot
<1>2. /\ s.ssid \in 1 .. syncer.ssid /\ q \in Seq(Diffs)
      /\ s.ready \in BOOLEAN /\ s.needsResync \in BOOLEAN
  BY DEF SoundSyncers, Waiting
<1>3. N \in Nat /\ q \in [1 .. N -> Diffs]
  BY <1>2
<1>4. b \in A
  <2>1. n \in 0 .. version
    BY NumbersAre
  <2>2. <<>> \in Waiting
    BY DepthAssumption DEF Waiting
  <2>3. start \in SoundSyncers /\ start.ssid = s.ssid
    <3> DEFINE fr == venue \in Binance
               rd == s.ready \/ venue \notin Binance
               nr == s.needsResync /\ venue \notin {"okex", "mexc"}
               none == <<>>
    <3>1. start = [s EXCEPT !.applied = n, !.pending = none, !.fresh = fr, !.ready = rd, !.needsResync = nr]
      BY DEF SoundSyncers
    <3>2. fr \in BOOLEAN /\ rd \in BOOLEAN /\ nr \in BOOLEAN /\ none \in Waiting
      BY <2>2
    <3> HIDE DEF start, fr, rd, nr, none
    <3> QED
      BY <2>1, <3>1, <3>2 DEF SoundSyncers
  <2> DEFINE e == Snapshot(s.ssid, n)
             first == <<e>>
  <2>4. e \in SoundEvents /\ e.kind = "Snapshot" /\ e.ssid = s.ssid
    BY <1>2, SnapshotIsSound
  <2> HIDE DEF e
  <2>5. first \in Seq(SoundEvents) /\ Len(first) = 1 /\ first[1] = e
    BY <2>4 DEF e
  <2> HIDE DEF first, start
  <2>6. Batch(first, s.ssid) /\ \A i \in 1 .. Len(first) : first[i].kind # "Gap"
    <3>1. first # <<>> /\ \A i \in 2 .. Len(first) : FALSE
      BY <2>5
    <3>2. \A i \in 1 .. Len(first) : first[i] = e
      BY <2>5
    <3> QED
      BY <2>4, <2>5, <3>1, <3>2 DEF Batch
  <2>7. b = [s |-> start, out |-> first, stopped |-> FALSE]
    BY DEF first, e
  <2> HIDE DEF b
  <2> QED
    BY <2>3, <2>5, <2>6, <2>7 DEF Replayed
<1>5. \A acc \in A, d \in Diffs : Replay(acc, d) \in A
  BY ReplaySound
<1> HIDE DEF A, q, b
<1>6. \E f : f = R(f)
  <2> DEFINE h == [x \in A \X Diffs |-> Replay(x[1], x[2])]
  <2>1. h \in [A \X Diffs -> A]
    BY <1>5
  <2>2. \A acc \in A, d \in Diffs : h[<<acc, d>>] = Replay(acc, d)
    OBVIOUS
  <2> HIDE DEF h
  <2>3. N \in Nat /\ q \in [1 .. N -> Diffs]
    BY <1>3
  <2> HIDE DEF N
  <2> PICK g : GoesThrough(g, A, h, b, q, N)
    BY <1>4, <2>1, <2>3, Steps
  <2>4. g \in [0 .. N -> A] /\ g[0] = b /\ \A i \in 1 .. N : g[i] = h[<<g[i-1], q[i]>>]
    BY DEF GoesThrough
  <2>5. \A i \in 1 .. N : g[i] = Replay(g[i-1], q[i])
    <3> SUFFICES ASSUME NEW i \in 1 .. N PROVE g[i] = Replay(g[i-1], q[i])
      OBVIOUS
    <3>1. g[i-1] \in A /\ q[i] \in Diffs
      BY <2>3, <2>4
    <3> QED
      BY <2>2, <2>4, <3>1
  <2>6. g = R(g)
    <3>1. \A i \in 0 .. N : g[i] = IF i = 0 THEN b ELSE Replay(g[i - 1], q[i])
      <4>1. \A i \in 0 .. N : i = 0 \/ i \in 1 .. N
        BY <2>3
      <4> QED
        BY <2>4, <2>5, <4>1
    <3> QED
      BY <2>4, <3>1
  <2> QED
    BY <2>6
<1>7. after = R(after)
  BY <1>6
<1> HIDE DEF after
<1>8. after[0] = b /\ \A i \in 1 .. N : after[i] = Replay(after[i - 1], q[i])
  <2>1. \A i \in 0 .. N : after[i] = IF i = 0 THEN b ELSE Replay(after[i - 1], q[i])
    BY <1>7
  <2> HIDE DEF N
  <2> QED
    BY <1>3, <2>1
<1> HIDE DEF N
<1>9. after[N] \in A
  <2>1. \A i \in 1 .. N : after[i-1] \in A => after[i] \in A
    BY <1>3, <1>5, <1>8
  <2> QED
    BY <1>3, <1>4, <1>8, <2>1, Stays
<1> QED
  BY <1>1, <1>9 DEF A, Replayed

-----------------------------------------------------------------------------
(* The order of what is on its way to the client.                           *)

(* A difference that follows, without a gap, a snapshot of its session. *)
FollowsOwn(q, i) ==
    \E j \in 1 .. i - 1 :
        /\ q[j].kind = "Snapshot" /\ q[j].ssid = q[i].ssid
        /\ \A k \in j + 1 .. i - 1 : q[k].kind = "Diff" /\ q[k].ssid = q[i].ssid

(* No snapshot of a later session is before it. *)
InOrder(q, i) == \A j \in 1 .. i - 1 : q[j].kind = "Snapshot" => q[j].ssid <= q[i].ssid

Ordered(q) == \A i \in 1 .. Len(q) : q[i].kind = "Diff" => FollowsOwn(q, i) \/ InOrder(q, i)

(* The differences of sessions before c that the tracker might accept. *)
Behind(q, t, c) ==
    \A i \in 1 .. Len(q) :
        q[i].kind = "Diff" /\ q[i].ssid < c /\ t[q[i].ssid] # 0 => FollowsOwn(q, i)

(* What is emitted at once: differences of the present session, or behind
   their snapshot.                                                          *)
Emission(q) ==
    /\ q \in Seq(SoundEvents)
    /\ \A i \in 1 .. Len(q) : q[i].kind = "Diff" => FollowsOwn(q, i) \/ q[i].ssid = syncer.ssid

LEMMA BatchIsEmission ==
    ASSUME NEW q, NEW ssid, Batch(q, ssid)
    PROVE  Emission(q)
<1>1. q \in Seq(SoundEvents) /\ Len(q) \in Nat
  BY DEF Batch
<1>2. ASSUME NEW i \in 1 .. Len(q), q[i].kind = "Diff"
      PROVE  FollowsOwn(q, i)
  <2>1. i # 1 /\ i \in 2 .. Len(q) /\ 1 \in 1 .. i - 1
    BY <1>1, <1>2 DEF Batch
  <2>2. q[i].ssid = ssid /\ q[1].kind = "Snapshot" /\ q[1].ssid = ssid
    BY <1>2, <2>1 DEF Batch
  <2>3. \A k \in 1 + 1 .. i - 1 : q[k].kind = "Diff" /\ q[k].ssid = ssid
    BY <1>1, <2>1 DEF Batch
  <2> QED
    BY <2>1, <2>2, <2>3 DEF FollowsOwn
<1> QED
  BY <1>1, <1>2 DEF Emission

LEMMA SingleIsEmission ==
    ASSUME NEW q, Single(q, syncer.ssid)
    PROVE  Emission(q)
<1>1. CASE q = <<>>
  BY <1>1 DEF Emission
<1>2. CASE q # <<>>
  <2>1. PICK e \in SoundEvents : /\ q = <<e>>
                                 /\ e.kind = "Gap" \/ (e.kind = "Diff" /\ e.ssid = syncer.ssid)
    BY <1>2 DEF Single
  <2>2. q \in Seq(SoundEvents) /\ Len(q) = 1 /\ q[1] = e
    BY <2>1
  <2>3. \A i \in 1 .. Len(q) : q[i] = e
    BY <2>2
  <2> QED
    BY <2>1, <2>2, <2>3 DEF Emission
<1> QED
  BY <1>1, <1>2

LEMMA EventIsEmission ==
    ASSUME NEW e \in SoundEvents, e.kind # "Diff"
    PROVE  Emission(<<e>>)
<1> DEFINE q == <<e>>
<1>1. q \in Seq(SoundEvents) /\ \A i \in 1 .. Len(q) : q[i] = e
  OBVIOUS
<1> HIDE DEF q
<1>2. Emission(q)
  BY <1>1 DEF Emission
<1> QED
  BY <1>2 DEF q

LEMMA FollowsOwnStays ==
    ASSUME NEW q, NEW r, NEW i \in Nat, NEW m \in Nat,
           \A k \in 1 .. i : r[m + k] = q[k], FollowsOwn(q, i), i > 0
    PROVE  FollowsOwn(r, m + i)
<1>1. PICK j \in 1 .. i - 1 :
          /\ q[j].kind = "Snapshot" /\ q[j].ssid = q[i].ssid
          /\ \A k \in j + 1 .. i - 1 : q[k].kind = "Diff" /\ q[k].ssid = q[i].ssid
  BY DEF FollowsOwn
<1>2. r[m + j] = q[j] /\ r[m + i] = q[i] /\ m + j \in 1 .. (m + i) - 1
  OBVIOUS
<1>3. ASSUME NEW k \in (m + j) + 1 .. (m + i) - 1
      PROVE  r[k].kind = "Diff" /\ r[k].ssid = q[i].ssid
  <2>1. k - m \in j + 1 .. i - 1 /\ k - m \in 1 .. i /\ m + (k - m) = k
    OBVIOUS
  <2>2. r[m + (k - m)] = q[k - m]
    BY <2>1
  <2> QED
    BY <1>1, <2>1, <2>2
<1> QED
  BY <1>1, <1>2, <1>3 DEF FollowsOwn

LEMMA EmissionKeepsOrder ==
    ASSUME Numbers, NEW box \in Seq(SoundEvents), Ordered(box), NEW q, Emission(q), NEW t
    PROVE  /\ box \o q \in Seq(SoundEvents)
           /\ Ordered(box \o q)
           /\ \A c \in Nat : c <= syncer.ssid /\ Behind(box, t, c) => Behind(box \o q, t, c)
<1> DEFINE r == box \o q
           m == Len(box)
<1>1. /\ q \in Seq(SoundEvents) /\ m \in Nat /\ Len(q) \in Nat
      /\ r \in Seq(SoundEvents) /\ Len(r) = m + Len(q)
      /\ \A k \in 1 .. m : r[k] = box[k]
      /\ \A k \in 1 .. Len(q) : r[m + k] = q[k]
  BY DEF Emission
<1>2. \A i \in 1 .. m : FollowsOwn(box, i) => FollowsOwn(r, i)
  <2> SUFFICES ASSUME NEW i \in 1 .. m, FollowsOwn(box, i) PROVE FollowsOwn(r, i)
    OBVIOUS
  <2>1. \A k \in 1 .. i : r[0 + k] = box[k]
    BY <1>1
  <2>2. i \in Nat /\ i > 0 /\ 0 + i = i
    BY <1>1
  <2> HIDE DEF r, m
  <2>3. FollowsOwn(r, 0 + i)
    BY <2>1, <2>2, FollowsOwnStays
  <2> QED
    BY <2>2, <2>3
<1>3. \A i \in 1 .. m : InOrder(box, i) => InOrder(r, i)
  BY <1>1 DEF InOrder
<1>4. \A i \in 1 .. Len(q) : FollowsOwn(q, i) => FollowsOwn(r, m + i)
  <2> SUFFICES ASSUME NEW i \in 1 .. Len(q), FollowsOwn(q, i) PROVE FollowsOwn(r, m + i)
    OBVIOUS
  <2>1. \A k \in 1 .. i : r[m + k] = q[k]
    BY <1>1
  <2> HIDE DEF r, m
  <2> QED
    BY <1>1, <2>1, FollowsOwnStays
<1>5. \A i \in 1 .. Len(r) : r[i].kind = "Snapshot" => r[i].ssid <= syncer.ssid
  <2> HIDE DEF r
  <2> QED
    BY <1>1 DEF SoundEvents
<1> HIDE DEF r, m
<1>6. \A i \in 1 .. Len(r) : i \in 1 .. m \/ (i - m \in 1 .. Len(q) /\ i = m + (i - m))
  BY <1>1
<1>7. ASSUME NEW i \in 1 .. Len(r), r[i].kind = "Diff"
      PROVE  FollowsOwn(r, i) \/ InOrder(r, i)
  <2>1. CASE i \in 1 .. m
    <3>1. FollowsOwn(box, i) \/ InOrder(box, i)
      BY <1>1, <1>7, <2>1 DEF Ordered, m
    <3> QED
      BY <1>2, <1>3, <2>1, <3>1
  <2>2. CASE i - m \in 1 .. Len(q) /\ i = m + (i - m)
    <3>1. r[i] = q[i - m]
      BY <1>1, <2>2
    <3>2. FollowsOwn(q, i - m) \/ r[i].ssid = syncer.ssid
      BY <1>7, <2>2, <3>1 DEF Emission
    <3>3. CASE FollowsOwn(q, i - m)
      <4>1. FollowsOwn(r, m + (i - m))
        BY <1>4, <2>2, <3>3
      <4> QED
        BY <2>2, <4>1
    <3>4. CASE r[i].ssid = syncer.ssid
      <4>1. \A j \in 1 .. i - 1 : j \in 1 .. Len(r)
        BY <1>1
      <4> QED
        BY <1>5, <3>4, <4>1 DEF InOrder
    <3> QED
      BY <3>2, <3>3, <3>4
  <2> QED
    BY <1>6, <2>1, <2>2
<1>8. ASSUME NEW c \in Nat, c <= syncer.ssid, Behind(box, t, c),
             NEW i \in 1 .. Len(r), r[i].kind = "Diff", r[i].ssid < c, t[r[i].ssid] # 0
      PROVE  FollowsOwn(r, i)
  <2>1. CASE i \in 1 .. m
    <3>1. FollowsOwn(box, i)
      BY <1>1, <1>8, <2>1 DEF Behind, m
    <3> QED
      BY <1>2, <2>1, <3>1
  <2>2. CASE i - m \in 1 .. Len(q) /\ i = m + (i - m)
    <3>1. r[i] = q[i - m]
      BY <1>1, <2>2
    <3>2. FollowsOwn(q, i - m) \/ r[i].ssid = syncer.ssid
      BY <1>8, <2>2, <3>1 DEF Emission
    <3>3. r[i].ssid # syncer.ssid
      BY <1>8, NumbersAre
    <3>4. FollowsOwn(r, m + (i - m))
      BY <1>4, <2>2, <3>2, <3>3
    <3> QED
      BY <2>2, <3>4
  <2> QED
    BY <1>6, <2>1, <2>2
<1>9. \A c \in Nat : c <= syncer.ssid /\ Behind(box, t, c) => Behind(r, t, c)
  BY <1>8 DEF Behind
<1>10. Ordered(r)
  BY <1>7 DEF Ordered
<1> QED
  BY <1>1, <1>9, <1>10 DEF r

(* The first event is taken. *)
LEMMA FirstTaken ==
    ASSUME NEW S, NEW q \in Seq(S), q # <<>>
    PROVE  /\ Tail(q) \in Seq(S) /\ Len(Tail(q)) = Len(q) - 1 /\ Len(q) \in Nat \ {0}
           /\ q[1] \in S
           /\ \A i \in 1 .. Len(q) - 1 : Tail(q)[i] = q[i + 1]
OBVIOUS

LEMMA StillFollows ==
    ASSUME NEW S, NEW q \in Seq(S), q # <<>>, NEW i \in 1 .. Len(q) - 1,
           FollowsOwn(q, i + 1), q[1].kind # "Snapshot" \/ q[1].ssid # q[i + 1].ssid
    PROVE  FollowsOwn(Tail(q), i)
<1> DEFINE r == Tail(q)
<1>1. Len(q) \in Nat \ {0} /\ \A k \in 1 .. Len(q) - 1 : r[k] = q[k + 1]
  BY FirstTaken
<1> HIDE DEF r
<1>2. PICK j \in 1 .. i :
          /\ q[j].kind = "Snapshot" /\ q[j].ssid = q[i + 1].ssid
          /\ \A k \in j + 1 .. i : q[k].kind = "Diff" /\ q[k].ssid = q[i + 1].ssid
  BY <1>1 DEF FollowsOwn
<1>3. j # 1 /\ j - 1 \in 1 .. i - 1 /\ r[j - 1] = q[j] /\ r[i] = q[i + 1]
  <2>1. j # 1
    BY <1>2
  <2>2. j - 1 \in 1 .. Len(q) - 1 /\ (j - 1) + 1 = j /\ j - 1 \in 1 .. i - 1
    BY <1>1, <2>1
  <2>3. r[j - 1] = q[(j - 1) + 1]
    BY <1>1, <2>2
  <2> QED
    BY <1>1, <2>1, <2>2, <2>3
<1>4. ASSUME NEW k \in (j - 1) + 1 .. i - 1
      PROVE  r[k].kind = "Diff" /\ r[k].ssid = q[i + 1].ssid
  <2>1. k \in 1 .. Len(q) - 1 /\ k + 1 \in j + 1 .. i
    BY <1>1
  <2> QED
    BY <1>1, <1>2, <2>1
<1>5. FollowsOwn(r, i)
  BY <1>2, <1>3, <1>4 DEF FollowsOwn
<1> QED
  BY <1>5 DEF r

LEMMA OrderedTail ==
    ASSUME NEW S, NEW q \in Seq(S), q # <<>>, Ordered(q)
    PROVE  Ordered(Tail(q))
<1> DEFINE r == Tail(q)
<1>1. /\ Len(q) \in Nat \ {0} /\ Len(r) = Len(q) - 1
      /\ \A k \in 1 .. Len(q) - 1 : r[k] = q[k + 1]
  BY FirstTaken
<1>2. \A i \in 1 .. Len(q) - 1 :
          FollowsOwn(q, i + 1) /\ (q[1].kind # "Snapshot" \/ q[1].ssid # q[i + 1].ssid)
             => FollowsOwn(r, i)
  BY StillFollows
<1> HIDE DEF r
<1>3. ASSUME NEW i \in 1 .. Len(r), r[i].kind = "Diff"
      PROVE  FollowsOwn(r, i) \/ InOrder(r, i)
  <2>1. i \in 1 .. Len(q) - 1 /\ i + 1 \in 1 .. Len(q) /\ q[i + 1].kind = "Diff" /\ r[i] = q[i + 1]
    BY <1>1, <1>3
  <2>2. FollowsOwn(q, i + 1) \/ InOrder(q, i + 1)
    BY <2>1 DEF Ordered
  <2>3. CASE InOrder(q, i + 1)
    <3>1. ASSUME NEW j \in 1 .. i - 1, r[j].kind = "Snapshot" PROVE r[j].ssid <= r[i].ssid
      <4>1. r[j] = q[j + 1] /\ j + 1 \in 1 .. (i + 1) - 1
        BY <1>1, <2>1
      <4> QED
        BY <2>1, <2>3, <3>1, <4>1 DEF InOrder
    <3> QED
      BY <3>1 DEF InOrder
  <2>4. CASE FollowsOwn(q, i + 1)
    <3>1. CASE q[1].kind # "Snapshot" \/ q[1].ssid # q[i + 1].ssid
      BY <1>2, <2>1, <2>4, <3>1
    <3>2. CASE ~FollowsOwn(r, i) /\ q[1].kind = "Snapshot" /\ q[1].ssid = q[i + 1].ssid
      <4>1. PICK j \in 1 .. i :
                /\ q[j].kind = "Snapshot" /\ q[j].ssid = q[i + 1].ssid
                /\ \A k \in j + 1 .. i : q[k].kind = "Diff" /\ q[k].ssid = q[i + 1].ssid
        BY <2>1, <2>4 DEF FollowsOwn
      <4>2. CASE j # 1
        <5>1. j - 1 \in 1 .. i - 1 /\ r[j - 1] = q[j]
          <6>1. j - 1 \in 1 .. Len(q) - 1 /\ (j - 1) + 1 = j
            BY <1>1, <4>2
          <6> QED
            BY <1>1, <4>2, <6>1
        <5>2. \A k \in (j - 1) + 1 .. i - 1 : r[k] = q[k + 1] /\ k + 1 \in j + 1 .. i
          BY <1>1, <2>1
        <5> QED
          BY <2>1, <4>1, <5>1, <5>2 DEF FollowsOwn
      <4>3. CASE j = 1
        <5>1. \A k \in 1 .. i - 1 : r[k].kind = "Diff"
          BY <1>1, <2>1, <4>1, <4>3
        <5> QED
          BY <5>1 DEF InOrder
      <4> QED
        BY <4>2, <4>3
    <3> QED
      BY <3>1, <3>2
  <2> QED
    BY <2>2, <2>3, <2>4
<1>4. Ordered(r)
  BY <1>3 DEF Ordered
<1> QED
  BY <1>4 DEF r

LEMMA BehindTail ==
    ASSUME NEW S, NEW q \in Seq(S), q # <<>>, NEW t, NEW c \in Nat, Behind(q, t, c),
           q[1].kind # "Snapshot"
    PROVE  Behind(Tail(q), t, c)
<1> DEFINE r == Tail(q)
<1>1. /\ Len(q) \in Nat \ {0} /\ Len(r) = Len(q) - 1
      /\ \A k \in 1 .. Len(q) - 1 : r[k] = q[k + 1]
  BY FirstTaken
<1>2. \A i \in 1 .. Len(q) - 1 : FollowsOwn(q, i + 1) => FollowsOwn(r, i)
  BY StillFollows
<1> HIDE DEF r
<1>3. \A i \in 1 .. Len(r) : i \in 1 .. Len(q) - 1 /\ i + 1 \in 1 .. Len(q) /\ r[i] = q[i + 1]
  BY <1>1
<1>4. Behind(r, t, c)
  BY <1>2, <1>3 DEF Behind
<1> QED
  BY <1>4 DEF r

(* After a snapshot of session c, what is of earlier sessions follows a
   snapshot of its own.                                                     *)
LEMMA BehindSnapshot ==
    ASSUME NEW S, NEW q \in Seq(S), q # <<>>, NEW t, Ordered(q), q[1].kind = "Snapshot",
           q[1].ssid \in Nat, \A i \in 1 .. Len(q) : q[i].kind = "Diff" => q[i].ssid \in Nat
    PROVE  Behind(Tail(q), t, q[1].ssid)
<1> DEFINE r == Tail(q)
           c == q[1].ssid
<1>1. /\ Len(q) \in Nat \ {0} /\ Len(r) = Len(q) - 1
      /\ \A k \in 1 .. Len(q) - 1 : r[k] = q[k + 1]
  BY FirstTaken
<1>2. \A i \in 1 .. Len(q) - 1 :
          FollowsOwn(q, i + 1) /\ q[1].ssid # q[i + 1].ssid => FollowsOwn(r, i)
  BY StillFollows
<1> HIDE DEF r
<1>3. ASSUME NEW i \in 1 .. Len(r), r[i].kind = "Diff", r[i].ssid < c
      PROVE  FollowsOwn(r, i)
  <2>1. i \in 1 .. Len(q) - 1 /\ i + 1 \in 1 .. Len(q) /\ r[i] = q[i + 1] /\ 1 \in 1 .. (i + 1) - 1
    BY <1>1
  <2>2. q[i + 1].ssid \in Nat /\ q[i + 1].ssid < c
    BY <1>3, <2>1
  <2>3. ~InOrder(q, i + 1)
    <3>1. ~(q[1].ssid <= q[i + 1].ssid)
      BY <2>2
    <3> QED
      BY <2>1, <3>1 DEF InOrder
  <2>4. FollowsOwn(q, i + 1)
    BY <1>3, <2>1, <2>3 DEF Ordered
  <2> QED
    BY <1>2, <2>1, <2>2, <2>4
<1>4. Behind(r, t, c)
  BY <1>3 DEF Behind
<1> QED
  BY <1>4 DEF r

-----------------------------------------------------------------------------
(* The inductive invariant.                                                 *)

(* What is on the connection tells the truth about the exchange's book. *)
SoundFrames ==
    Diffs \cup {f \in Frames : f.kind = "confirm" \/ (f.kind = "snapshot" /\ f.last \in 1 .. version)}

Plain ==
    /\ venue \in Venues
    /\ version \in Versions
    /\ published \in 0 .. version
    /\ phase \in {"between", "connecting", "open"}
    /\ phase = "open" => published = version
    /\ phase # "open" => fetch = "none" /\ wire = <<>>
    /\ fetch \in {"none", "init", "resync", "confirm"}
    /\ trigger => venue = "bybit"
    /\ asking \in Nat
    /\ sound \in BOOLEAN
    /\ spent \in [lost : 0 .. MaxLost, failures : 0 .. MaxFailures, restarts : 0 .. MaxRestarts]

Flow ==
    /\ wire \in Seq(SoundFrames)
    /\ syncer \in SoundSyncers
    /\ syncer.ssid \in Sessions
    /\ late \subseteq SoundSyncers
    /\ outbox \in Seq(SoundEvents)
    /\ Ordered(outbox)

(* The book shown is of session c: what the tracker knows of c is the version
   shown, it knows nothing of later sessions, and what is left of earlier ones
   comes behind a snapshot.                                                 *)
AtSession(c) ==
    /\ c <= syncer.ssid
    /\ tracker[c] \in {0, reader.seq}
    /\ \A s \in Sessions : s > c => tracker[s] = 0
    /\ Behind(outbox, tracker, c)

Shown ==
    /\ tracker \in [Sessions -> 0 .. version]
    /\ reader \in [open : BOOLEAN, seq : 0 .. version, book : Market!Books, waiting : BOOLEAN]
    /\ reader.open /\ sound =>
          reader.book = Market!BookAt(reader.seq) /\ \E c \in Sessions : AtSession(c)

DepthInv == Plain /\ Flow /\ Shown

LEMMA NumbersHold ==
    ASSUME DepthInv
    PROVE  Numbers
BY DEF DepthInv, Plain, Flow, Numbers

LEMMA SoundAreTyped ==
    ASSUME Numbers
    PROVE  /\ SoundSyncers \subseteq Syncers
           /\ \A s \in SoundSyncers : s.applied <= version /\ Len(s.pending) <= MaxPending
           /\ Seq(SoundFrames) \subseteq Seq(Frames)
           /\ Seq(SoundEvents) \subseteq Seq(Events)
<1>1. Seq(SoundFrames) \subseteq Seq(Frames) /\ Seq(SoundEvents) \subseteq Seq(Events)
  BY DEF SoundFrames, Diffs, SoundEvents
<1>2. Waiting \subseteq Seq(Frames)
  BY DEF Waiting, Diffs
<1>3. 1 .. syncer.ssid \subseteq 0 .. MaxSessions /\ 0 .. version \subseteq 0 .. MaxVersion
  BY NumbersAre
<1>4. SoundSyncers \subseteq Syncers
  BY <1>2, <1>3 DEF SoundSyncers, Syncers
<1>5. ASSUME NEW s \in SoundSyncers PROVE s.applied <= version /\ Len(s.pending) <= MaxPending
  <2>1. s.applied \in 0 .. version /\ s.pending \in Waiting
    BY DEF SoundSyncers
  <2> QED
    BY <2>1, NumbersAre DEF Waiting
<1> QED
  BY <1>1, <1>4, <1>5

LEMMA InvTyped ==
    ASSUME DepthInv
    PROVE  DepthTypeOK
BY NumbersHold, SoundAreTyped DEF DepthInv, Plain, Flow, Shown, DepthTypeOK

(* A later version and a later session leave sound what was.                *)
LEMMA Grows ==
    ASSUME Numbers, Numbers', venue' = venue, version <= version', syncer.ssid <= syncer'.ssid
    PROVE  /\ Seq(SoundFrames) \subseteq Seq(SoundFrames')
           /\ SoundSyncers \subseteq SoundSyncers'
           /\ Seq(SoundEvents) \subseteq Seq(SoundEvents')
<1>1. /\ version \in Nat \ {0} /\ version' \in Nat \ {0}
      /\ syncer.ssid \in Nat \ {0} /\ syncer'.ssid \in Nat \ {0}
  BY DepthAssumption DEF Numbers, Versions, Sessions
<1>2. Diffs \subseteq Diffs'
  <2> SUFFICES ASSUME NEW d \in Diffs PROVE d \in Diffs'
    OBVIOUS
  <2>1. d \in Frames /\ d.last <= version
    BY DEF Diffs
  <2>2. d.last \in 0 .. MaxVersion
    BY <2>1 DEF Frames
  <2>3. d.last <= version'
    BY <1>1, <2>1, <2>2, DepthAssumption
  <2> QED
    BY <2>3 DEF Diffs
<1>3. SoundFrames \subseteq SoundFrames'
  BY <1>1, <1>2 DEF SoundFrames
<1>4. Waiting \subseteq Waiting'
  BY <1>2 DEF Waiting
<1>5. 1 .. syncer.ssid \subseteq 1 .. syncer'.ssid /\ 0 .. version \subseteq 0 .. version'
  BY <1>1
<1>6. SoundSyncers \subseteq SoundSyncers'
  BY <1>4, <1>5 DEF SoundSyncers
<1>7. SoundEvents \subseteq SoundEvents'
  <2> SUFFICES ASSUME NEW e \in SoundEvents PROVE e \in SoundEvents'
    OBVIOUS
  <2>1. e \in Events /\ (e.kind = "Snapshot" => e.ssid <= syncer.ssid /\ e.seq <= version)
        /\ (e.kind = "Diff" => /\ e.ssid <= syncer.ssid /\ e.first <= e.prev + 1
                               /\ e.prev < e.seq /\ e.seq <= version)
    BY DEF SoundEvents
  <2>2. e.kind \in {"Snapshot", "Diff"} => e.ssid \in Nat /\ e.seq \in Nat
    BY <2>1, DepthAssumption DEF Events, Sessions, Versions
  <2>3. (e.kind = "Snapshot" => e.ssid <= syncer'.ssid /\ e.seq <= version')
        /\ (e.kind = "Diff" => e.ssid <= syncer'.ssid /\ e.seq <= version')
    BY <1>1, <2>1, <2>2
  <2> QED
    BY <2>1, <2>3 DEF SoundEvents
<1>8. ASSUME NEW S, NEW T, S \subseteq T PROVE Seq(S) \subseteq Seq(T)
  BY <1>8
<1>9. Seq(SoundFrames) \subseteq Seq(SoundFrames')
  BY <1>3, <1>8
<1>10. Seq(SoundEvents) \subseteq Seq(SoundEvents')
  BY <1>7, <1>8
<1> QED
  BY <1>6, <1>9, <1>10

(* What a step of the exchange or of the engine does to what is sound.      *)
Engine ==
    /\ venue' = venue /\ version <= version' /\ syncer.ssid <= syncer'.ssid
    /\ version' \in Versions /\ syncer'.ssid \in Sessions
    /\ wire' \in Seq(SoundFrames') /\ syncer' \in SoundSyncers' /\ late' \subseteq SoundSyncers'
    /\ outbox' = outbox \/ \E q : Emission(q) /\ outbox' = outbox \o q
    /\ UNCHANGED clientVars

LEMMA EngineStepKeeps ==
    ASSUME DepthInv, Engine
    PROVE  Flow' /\ Shown'
<1> USE DEF DepthInv
<1>1. Numbers /\ Numbers'
  BY NumbersHold DEF Engine, Numbers
<1>2. /\ Seq(SoundFrames) \subseteq Seq(SoundFrames')
      /\ SoundSyncers \subseteq SoundSyncers'
      /\ Seq(SoundEvents) \subseteq Seq(SoundEvents')
  BY <1>1, Grows DEF Engine
<1>3. /\ outbox' \in Seq(SoundEvents) /\ Ordered(outbox')
      /\ \A c \in Nat : c <= syncer.ssid /\ Behind(outbox, tracker, c) => Behind(outbox', tracker, c)
  <2>1. CASE outbox' = outbox
    BY <2>1 DEF Flow
  <2>2. CASE \E q : Emission(q) /\ outbox' = outbox \o q
    <3>1. PICK q : Emission(q) /\ outbox' = outbox \o q
      BY <2>2
    <3>2. outbox \in Seq(SoundEvents) /\ Ordered(outbox)
      BY DEF Flow
    <3> QED
      BY <1>1, <3>1, <3>2, EmissionKeepsOrder
  <2> QED
    BY <2>1, <2>2 DEF Engine
<1>4. Ordered(outbox)'
  BY <1>3 DEF Ordered, FollowsOwn, InOrder
<1>5. Flow'
  BY <1>2, <1>3, <1>4 DEF Engine, Flow
<1>6. /\ version \in Nat /\ version' \in Nat /\ syncer.ssid \in Nat /\ syncer'.ssid \in Nat
      /\ Sessions \subseteq Nat
  BY <1>1, DepthAssumption DEF Numbers, Versions, Sessions
<1>7. UNCHANGED <<tracker, reader, sound>> /\ 0 .. version \subseteq 0 .. version'
  BY <1>6 DEF Engine, clientVars
<1>8. ASSUME NEW c \in Sessions, AtSession(c) PROVE AtSession(c)'
  <2>1. c <= syncer'.ssid
    BY <1>6, <1>8 DEF Engine, AtSession
  <2>2. Behind(outbox', tracker, c)
    BY <1>3, <1>6, <1>8 DEF AtSession
  <2>3. Behind(outbox, tracker, c)'
    BY <1>7, <2>2 DEF Behind, FollowsOwn
  <2> QED
    BY <1>7, <1>8, <2>1, <2>3 DEF AtSession
<1>9. Market!BookAt(reader.seq)' = Market!BookAt(reader.seq) /\ Market!Books' = Market!Books
  BY <1>7 DEF Market!BookAt, Market!SetBy, Market!Books
<1>10. tracker' \in [Sessions -> 0 .. version'] /\ reader' \in [open : BOOLEAN, seq : 0 .. version', book : Market!Books, waiting : BOOLEAN]
  BY <1>7 DEF Shown
<1>11. Shown'
  BY <1>7, <1>8, <1>9, <1>10 DEF Shown
<1> QED
  BY <1>5, <1>11

(* A step of the engine in the same session, with the exchange at rest.     *)
LEMMA SameSession ==
    ASSUME DepthInv, UNCHANGED <<venue, version>>, UNCHANGED clientVars,
           syncer' \in SoundSyncers, syncer'.ssid = syncer.ssid, late' \subseteq SoundSyncers,
           wire' \in Seq(SoundFrames),
           outbox' = outbox \/ \E q : Emission(q) /\ outbox' = outbox \o q
    PROVE  Engine
<1>1. Numbers /\ Numbers'
  BY NumbersHold DEF Numbers
<1>2. version \in Nat /\ syncer.ssid \in Nat /\ version' \in Nat /\ syncer'.ssid \in Nat
  BY <1>1, NumbersAre
<1>3. /\ Seq(SoundFrames) \subseteq Seq(SoundFrames')
      /\ SoundSyncers \subseteq SoundSyncers'
  BY <1>1, <1>2, Grows
<1> QED
  BY <1>1, <1>2, <1>3 DEF Engine, Numbers

-----------------------------------------------------------------------------
(* The steps of the exchange and of the engine.                             *)

LEMMA PublishKeeps ==
    ASSUME DepthInv, NEW n \in Versions, Publish(n)
    PROVE  Engine
<1> USE DEF DepthInv
<1>1. Numbers
  BY NumbersHold
<1>2. /\ version \in Nat \ {0} /\ MaxVersion \in Nat /\ syncer.ssid \in Nat
      /\ version' = n /\ n \in version + 1 .. MaxVersion /\ n \in Nat
      /\ syncer' = syncer /\ late' = late /\ outbox' = outbox /\ venue' = venue
      /\ UNCHANGED clientVars
  BY <1>1, NumbersAre DEF Publish
<1>3. Numbers'
  BY <1>1, <1>2 DEF Numbers, Versions
<1>4. /\ Seq(SoundFrames) \subseteq Seq(SoundFrames')
      /\ SoundSyncers \subseteq SoundSyncers'
      /\ version <= version' /\ syncer.ssid <= syncer'.ssid
  BY <1>1, <1>2, <1>3, Grows
<1>5. wire' \in Seq(SoundFrames')
  <2> DEFINE frame == [kind |-> "diff", first |-> version + 1, last |-> n, prev |-> published]
  <2>1. CASE wire' = wire
    BY <1>4, <2>1 DEF Flow
  <2>2. CASE phase = "open" /\ wire' = Append(wire, frame)
    <3>1. published = version
      BY <2>2 DEF Plain
    <3>2. frame \in Frames
      BY <1>2, <3>1 DEF Frames
    <3>3. venue \in {"bybit", "mexc"} => n = version + 1
      BY DEF Publish
    <3>4. frame \in Diffs'
      BY <1>2, <3>1, <3>2, <3>3 DEF Diffs
    <3> HIDE DEF frame
    <3>5. frame \in SoundFrames'
      BY <3>4 DEF SoundFrames
    <3>6. wire \in Seq(SoundFrames')
      BY <1>4 DEF Flow
    <3> QED
      BY <2>2, <3>5, <3>6
  <2> QED
    BY <2>1, <2>2 DEF Publish
<1> QED
  BY <1>1, <1>2, <1>3, <1>4, <1>5 DEF Engine, Flow, Numbers

LEMMA BeginsKeeps ==
    ASSUME DepthInv, Begins
    PROVE  Engine
<1> USE DEF DepthInv
<1>1. Numbers
  BY NumbersHold
<1>2. /\ version \in Nat \ {0} /\ syncer.ssid \in Nat /\ MaxSessions \in Nat
      /\ UNCHANGED <<venue, version, wire, late, outbox>> /\ UNCHANGED clientVars
      /\ syncer' = NewSyncer(syncer.ssid + 1) /\ syncer.ssid < MaxSessions
  BY <1>1, NumbersAre DEF Begins
<1>3. syncer'.ssid = syncer.ssid + 1
  BY <1>2 DEF NewSyncer
<1>4. Numbers' /\ version <= version' /\ syncer.ssid <= syncer'.ssid
  BY <1>1, <1>2, <1>3 DEF Numbers, Sessions
<1>5. /\ Seq(SoundFrames) \subseteq Seq(SoundFrames')
      /\ SoundSyncers \subseteq SoundSyncers'
  BY <1>1, <1>2, <1>4, Grows
<1>6. syncer' \in SoundSyncers'
  <2>1. <<>> \in Waiting'
    BY DepthAssumption DEF Waiting
  <2>2. syncer.ssid + 1 \in 1 .. syncer'.ssid /\ 0 \in 0 .. version'
    BY <1>2, <1>3
  <2> QED
    BY <1>2, <2>1, <2>2 DEF SoundSyncers, NewSyncer
<1> QED
  BY <1>1, <1>2, <1>4, <1>5, <1>6 DEF Engine, Flow, Numbers

LEMMA OpensKeeps ==
    ASSUME DepthInv, Opens
    PROVE  Engine
<1> USE DEF DepthInv
<1>1. version \in Nat \ {0} /\ version <= MaxVersion /\ MaxVersion \in Nat
  BY NumbersHold, NumbersAre
<1> DEFINE confirm == [kind |-> "confirm", first |-> 0, last |-> 0, prev |-> 0]
           snapshot == [kind |-> "snapshot", first |-> 0, last |-> version, prev |-> 0]
<1>2. wire' = <<>> \/ wire' = <<confirm>> \/ wire' = <<snapshot>>
  BY DEF Opens
<1>3. confirm \in SoundFrames /\ snapshot \in SoundFrames
  BY <1>1 DEF SoundFrames, Frames
<1> HIDE DEF confirm, snapshot
<1>4. wire' \in Seq(SoundFrames)
  <2>1. <<>> \in Seq(SoundFrames)
    OBVIOUS
  <2>2. <<confirm>> \in Seq(SoundFrames) /\ <<snapshot>> \in Seq(SoundFrames)
    BY <1>3
  <2> QED
    BY <1>2, <2>1, <2>2, Zenon
<1> QED
  BY <1>4, SameSession DEF Opens, Flow

LEMMA ReadKeeps ==
    ASSUME DepthInv, Read
    PROVE  Engine
<1> USE DEF DepthInv
<1> DEFINE d == wire[1]
           done == CASE d.kind = "snapshot" -> ApplySnapshot(syncer, d.last)
                     [] d.kind = "diff" /\ fetch = "init" -> Queue(syncer, d)
                     [] OTHER -> Takes(syncer, d)
           again == [done.s EXCEPT !.needsResync = FALSE, !.pending = <<>>]
<1>1. Numbers /\ syncer \in SoundSyncers
  BY NumbersHold DEF Flow
<1>2. /\ d \in SoundFrames /\ Tail(wire) \in Seq(SoundFrames) /\ <<>> \in Seq(SoundFrames)
      /\ d.kind # "confirm"
  BY FirstTaken DEF Read, Flow
<1>3. /\ outbox' = outbox \o done.out
      /\ syncer' = done.s \/ syncer' = again
      /\ wire' = Tail(wire) \/ wire' = <<>>
      /\ late' = late /\ UNCHANGED <<venue, version>> /\ UNCHANGED clientVars
  BY DEF Read, LeaveConnection, Emits
<1> HIDE DEF d
<1>4. done.s \in SoundSyncers /\ done.s.ssid = syncer.ssid /\ Emission(done.out)
  <2>1. CASE d.kind = "snapshot"
    <3>1. d.last \in 1 .. version
      BY <1>2, <2>1 DEF SoundFrames, Diffs
    <3>2. done = ApplySnapshot(syncer, d.last)
      BY <2>1
    <3> HIDE DEF done
    <3>3. done.s \in SoundSyncers /\ done.s.ssid = syncer.ssid /\ Batch(done.out, syncer.ssid)
      BY <1>1, <3>1, <3>2, ApplySnapshotSound
    <3> QED
      BY <3>3, BatchIsEmission
  <2>2. CASE d.kind # "snapshot"
    <3>1. d \in Diffs
      BY <1>2, <2>2 DEF SoundFrames
    <3>2. done = Queue(syncer, d) \/ done = Takes(syncer, d)
      BY <2>2
    <3> HIDE DEF done
    <3>3. done.s \in SoundSyncers /\ done.s.ssid = syncer.ssid /\ Single(done.out, syncer.ssid)
      BY <1>1, <3>1, <3>2, QueueSound, TakesSound
    <3> QED
      BY <3>3, SingleIsEmission
  <2> QED
    BY <2>1, <2>2
<1> HIDE DEF done
<1>5. again \in SoundSyncers /\ again.ssid = syncer.ssid
  <2> DEFINE none == <<>>
             u == [done.s EXCEPT !.pending = none]
  <2>1. none \in Waiting
    BY DepthAssumption DEF Waiting
  <2> HIDE DEF none
  <2>2. u \in SoundSyncers /\ u.ssid = syncer.ssid
    BY <1>4, <2>1 DEF SoundSyncers
  <2>3. again = [u EXCEPT !.needsResync = FALSE]
    BY <1>4 DEF SoundSyncers, none
  <2> HIDE DEF u, again
  <2> QED
    BY <2>2, <2>3 DEF SoundSyncers
<1> HIDE DEF again
<1>6. syncer' \in SoundSyncers /\ syncer'.ssid = syncer.ssid
  BY <1>3, <1>4, <1>5
<1>7. wire' \in Seq(SoundFrames) /\ late' \subseteq SoundSyncers
  BY <1>2, <1>3 DEF Flow
<1> QED
  BY <1>3, <1>4, <1>6, <1>7, SameSession

LEMMA QuietStepsKeep ==
    ASSUME DepthInv, Confirmed \/ Triggered \/ ClosesOk
    PROVE  Engine
<1> USE DEF DepthInv
<1>1. /\ UNCHANGED <<venue, version, syncer, late, outbox>> /\ UNCHANGED clientVars
      /\ wire' = <<>> \/ (wire # <<>> /\ wire' = Tail(wire))
  BY DEF Confirmed, Triggered, ClosesOk, LeaveConnection
<1>2. <<>> \in Seq(SoundFrames) /\ (wire # <<>> => Tail(wire) \in Seq(SoundFrames))
  BY FirstTaken DEF Flow
<1>3. wire' \in Seq(SoundFrames)
  BY <1>1, <1>2, Zenon
<1> QED
  BY <1>1, <1>3, SameSession DEF Flow

LEMMA TellingStepsKeep ==
    ASSUME DepthInv, Breaks \/ FetchFails \/ AskFails
    PROVE  Engine
<1> USE DEF DepthInv
<1> DEFINE lost == [kind |-> "Disconnected"]
           error == [kind |-> "Error"]
<1>1. /\ UNCHANGED <<venue, version, syncer>> /\ UNCHANGED clientVars
      /\ wire' = <<>> \/ wire' = wire
      /\ late' = late \/ late' = late \cup {syncer}
      /\ \/ outbox' = outbox
         \/ outbox' = outbox \o <<lost>>
         \/ outbox' = outbox \o <<error>>
  BY DEF Breaks, FetchFails, AskFails, LeaveConnection, Emits, engineVars
<1>2. lost \in SoundEvents /\ lost.kind # "Diff" /\ error \in SoundEvents /\ error.kind # "Diff"
  BY DEF SoundEvents, Events
<1> HIDE DEF lost, error
<1>3. Emission(<<lost>>) /\ Emission(<<error>>)
  BY <1>2, EventIsEmission
<1>4. <<>> \in Seq(SoundFrames) /\ wire \in Seq(SoundFrames)
  BY DEF Flow
<1>5. wire' \in Seq(SoundFrames)
  BY <1>1, <1>4, Zenon
<1>6. late' \subseteq SoundSyncers
  BY <1>1 DEF Flow
<1> QED
  BY <1>1, <1>3, <1>5, <1>6, SameSession DEF Flow

LEMMA FetchAnsweredKeeps ==
    ASSUME DepthInv, NEW n \in Versions, FetchAnswered(n)
    PROVE  Engine
<1> USE DEF DepthInv
<1> DEFINE done == ApplySnapshot(syncer, n)
           ready == done.s.ready \/ fetch = "init"
<1>1. /\ UNCHANGED <<venue, version, wire, late>> /\ UNCHANGED clientVars
      /\ n \in 1 .. version /\ outbox' = outbox \o done.out
      /\ syncer' = [done.s EXCEPT !.ready = ready]
  BY DEF FetchAnswered, Emits
<1>2. done.s \in SoundSyncers /\ done.s.ssid = syncer.ssid /\ Batch(done.out, syncer.ssid)
  BY <1>1, NumbersHold, ApplySnapshotSound DEF Flow
<1>3. ready \in BOOLEAN
  BY <1>2 DEF SoundSyncers
<1> HIDE DEF done, ready
<1>4. syncer' \in SoundSyncers /\ syncer'.ssid = syncer.ssid
  BY <1>1, <1>2, <1>3 DEF SoundSyncers
<1>5. Emission(done.out)
  BY <1>2, BatchIsEmission
<1> QED
  BY <1>1, <1>4, <1>5, SameSession DEF Flow

LEMMA LateAnsweredKeeps ==
    ASSUME DepthInv, NEW n \in Versions, NEW s \in late, LateAnswered(s, n)
    PROVE  Engine
<1> USE DEF DepthInv
<1> DEFINE done == ApplySnapshot(s, n)
<1>1. /\ UNCHANGED <<venue, version, wire, syncer>> /\ UNCHANGED clientVars
      /\ n \in 1 .. version /\ outbox' = outbox \o done.out /\ late' \subseteq late
  BY DEF LateAnswered, Emits
<1>2. Batch(done.out, s.ssid)
  BY <1>1, NumbersHold, ApplySnapshotSound DEF Flow
<1> HIDE DEF done
<1>3. Emission(done.out)
  BY <1>2, BatchIsEmission
<1> QED
  BY <1>1, <1>3, SameSession DEF Flow

LEMMA AskAnsweredKeeps ==
    ASSUME DepthInv, NEW n \in Versions, AskAnswered(n)
    PROVE  Engine
<1> USE DEF DepthInv
<1> DEFINE e == Snapshot(syncer.ssid, n)
<1>1. /\ UNCHANGED <<venue, version, wire, syncer, late>> /\ UNCHANGED clientVars
      /\ n \in 1 .. version /\ (outbox' = outbox \/ outbox' = outbox \o <<e>>)
  BY DEF AskAnswered, Emits
<1>2. syncer.ssid \in 1 .. syncer.ssid
  BY NumbersHold, NumbersAre
<1>3. e \in SoundEvents /\ e.kind # "Diff"
  BY <1>1, <1>2, NumbersHold, SnapshotIsSound
<1> HIDE DEF e
<1>4. Emission(<<e>>)
  BY <1>3, EventIsEmission
<1> QED
  BY <1>1, <1>4, SameSession DEF Flow

-----------------------------------------------------------------------------
(* The steps of the client, and what they are of the exchange's book.       *)

LEMMA FlowUntouched ==
    ASSUME DepthInv, UNCHANGED <<venue, version, engineVars>>,
           outbox' = outbox \/ (outbox # <<>> /\ outbox' = Tail(outbox))
    PROVE  Flow'
<1> USE DEF DepthInv
<1>1. UNCHANGED <<wire, syncer, late>> /\ UNCHANGED <<venue, version>>
  BY DEF engineVars
<1>2. Numbers /\ Numbers'
  BY <1>1, NumbersHold DEF Numbers
<1>3. version <= version' /\ syncer.ssid <= syncer'.ssid
  BY <1>1, <1>2, NumbersAre
<1>4. /\ Seq(SoundFrames) \subseteq Seq(SoundFrames')
      /\ SoundSyncers \subseteq SoundSyncers'
      /\ Seq(SoundEvents) \subseteq Seq(SoundEvents')
  BY <1>1, <1>2, <1>3, Grows
<1>5. outbox' \in Seq(SoundEvents) /\ Ordered(outbox')
  <2>1. CASE outbox' = outbox
    BY <2>1 DEF Flow
  <2>2. CASE outbox # <<>> /\ outbox' = Tail(outbox)
    <3>1. outbox \in Seq(SoundEvents) /\ Ordered(outbox)
      BY DEF Flow
    <3> QED
      BY <2>2, <3>1, FirstTaken, OrderedTail
  <2> QED
    BY <2>1, <2>2
<1>6. Ordered(outbox)'
  BY <1>5 DEF Ordered, FollowsOwn, InOrder
<1> QED
  BY <1>1, <1>4, <1>5, <1>6 DEF Flow

Readers(v) == [open : BOOLEAN, seq : 0 .. v, book : Market!Books, waiting : BOOLEAN]

LEMMA ReaderSet ==
    ASSUME NEW r \in Readers(version), NEW n \in 1 .. version, NEW b \in Market!Books
    PROVE  LET moved == [r EXCEPT !.seq = n, !.book = b]
           IN  /\ moved \in Readers(version) /\ moved.seq = n /\ moved.book = b
               /\ [moved EXCEPT !.waiting = FALSE] \in Readers(version)
<1> DEFINE moved == [r EXCEPT !.seq = n, !.book = b]
<1>1. n \in 0 .. version
  OBVIOUS
<1>2. moved \in Readers(version) /\ moved.seq = n /\ moved.book = b
  BY <1>1 DEF Readers
<1> HIDE DEF moved
<1>3. [moved EXCEPT !.waiting = FALSE] \in Readers(version)
  BY <1>2 DEF Readers
<1> QED
  BY <1>2, <1>3 DEF moved

LEMMA AtSessionNext ==
    ASSUME NEW c \in Sessions, c <= syncer'.ssid, tracker'[c] \in {0, reader'.seq},
           \A s \in Sessions : s > c => tracker'[s] = 0, Behind(outbox', tracker', c)
    PROVE  AtSession(c)'
<1>1. Behind(outbox, tracker, c)'
  BY DEF Behind, FollowsOwn
<1> QED
  BY <1>1 DEF AtSession

LEMMA ShownNext ==
    ASSUME version' = version, tracker' \in [Sessions -> 0 .. version], reader' \in Readers(version),
           reader'.open /\ sound' =>
              reader'.book = Market!BookAt(reader'.seq) /\ \E c \in Sessions : AtSession(c)'
    PROVE  Shown'
<1>1. Market!BookAt(reader.seq)' = Market!BookAt(reader'.seq)
  BY DEF Market!BookAt, Market!SetBy
<1>2. Market!Books' = Market!Books
  BY DEF Market!Books
<1> QED
  BY <1>1, <1>2 DEF Shown, Readers

MarketStep == [Market!Next]_(Market!bookVars)

LEMMA SnapshotShown ==
    ASSUME DepthInv, Receive, outbox[1].kind = "Snapshot"
    PROVE  Shown' /\ MarketStep
<1> USE DEF DepthInv
<1>1. Numbers /\ MaxVersion \in Nat /\ version \in Nat /\ version <= MaxVersion
  BY NumbersHold, NumbersAre
<1>2. outbox \in Seq(SoundEvents) /\ outbox # <<>> /\ Ordered(outbox)
  BY DEF Receive, Flow
<1>3. PICK e \in SoundEvents : e = outbox[1]
  BY <1>2, FirstTaken
<1>4. e.ssid \in Sessions /\ e.seq \in 1 .. version /\ e.ssid <= syncer.ssid
  BY <1>1, <1>3 DEF SoundEvents, Events, Sessions, Versions
<1>5. /\ tracker' = [tracker EXCEPT ![e.ssid] = e.seq]
      /\ reader' = [reader EXCEPT !.seq = e.seq, !.book = Market!BookAt(e.seq), !.waiting = FALSE]
      /\ sound' = (\A s \in Sessions : s > e.ssid => tracker[s] = 0)
      /\ outbox' = Tail(outbox) /\ version' = version /\ syncer' = syncer
  BY <1>3 DEF Receive, engineVars
<1>6. Market!BookAt(e.seq) \in Market!Books
  BY <1>1, <1>4, BooksTyped
<1>7. reader \in Readers(version) /\ tracker \in [Sessions -> 0 .. version]
  BY DEF Shown, Readers
<1>8. Behind(Tail(outbox), tracker', e.ssid)
  <2>1. ASSUME NEW i \in 1 .. Len(outbox), outbox[i].kind = "Diff" PROVE outbox[i].ssid \in Nat
    <3>1. outbox[i] \in SoundEvents
      BY <1>2
    <3> QED
      BY <2>1, <3>1, DepthAssumption DEF SoundEvents, Events, Sessions
  <2>2. e.ssid \in Nat
    BY <1>4, DepthAssumption DEF Sessions
  <2>3. Behind(Tail(outbox), tracker', outbox[1].ssid)
    BY <1>2, <1>3, <2>1, <2>2, BehindSnapshot
  <2> QED
    BY <1>3, <2>3
<1>9. /\ tracker' \in [Sessions -> 0 .. version] /\ tracker'[e.ssid] = e.seq
      /\ \A s \in Sessions : s # e.ssid => tracker'[s] = tracker[s]
  BY <1>1, <1>4, <1>5, <1>7
<1>10. /\ reader'.seq = e.seq /\ reader'.book = Market!BookAt(e.seq) /\ reader' \in Readers(version)
  BY <1>1, <1>4, <1>5, <1>6, <1>7, ReaderSet DEF Readers
<1>11. sound' => AtSession(e.ssid)'
  <2> SUFFICES ASSUME sound' PROVE AtSession(e.ssid)'
    OBVIOUS
  <2>1. \A s \in Sessions : s > e.ssid => tracker'[s] = 0
    <3>1. \A s \in Sessions : s > e.ssid => tracker[s] = 0
      BY <1>5
    <3>2. \A s \in Sessions : s > e.ssid => s # e.ssid
      BY <1>4, DepthAssumption DEF Sessions
    <3> QED
      BY <1>9, <3>1, <3>2
  <2> QED
    BY <1>4, <1>5, <1>8, <1>9, <1>10, <2>1, AtSessionNext
<1>12. Shown'
  BY <1>4, <1>5, <1>9, <1>10, <1>11, ShownNext
<1>13. Market!Restarts(e.seq)
  <2>1. sound' \in BOOLEAN
    BY <1>5
  <2> QED
    BY <1>4, <1>5, <1>10, <2>1 DEF Market!Restarts
<1>14. e.seq \in 1 .. MaxVersion
  BY <1>1, <1>4
<1> QED
  BY <1>12, <1>13, <1>14 DEF MarketStep, Market!Next

LEMMA DifferenceShown ==
    ASSUME DepthInv, Receive, outbox[1].kind = "Diff", Contiguous(outbox[1])
    PROVE  Shown' /\ MarketStep
<1> USE DEF DepthInv
<1>1. Numbers /\ MaxVersion \in Nat /\ version \in Nat /\ version <= MaxVersion
  BY NumbersHold, NumbersAre
<1>2. outbox \in Seq(SoundEvents) /\ outbox # <<>> /\ Ordered(outbox)
  BY DEF Receive, Flow
<1>3. PICK e \in SoundEvents : e = outbox[1]
  BY <1>2, FirstTaken
<1>4. /\ e.ssid \in Sessions /\ e.ssid <= syncer.ssid
      /\ e.prev \in 0 .. version /\ e.first \in Nat \ {0} /\ e.first <= e.prev + 1
      /\ e.prev < e.seq /\ e.seq \in 1 .. version
  BY <1>1, <1>3 DEF SoundEvents, Events, Sessions, Versions
<1>5. /\ tracker' = [tracker EXCEPT ![e.ssid] = e.seq]
      /\ reader' = [reader EXCEPT !.seq = e.seq, !.book = Applied(@, e.first, e.seq)]
      /\ sound' = sound
      /\ outbox' = Tail(outbox) /\ version' = version /\ syncer' = syncer
      /\ reader.open /\ tracker[e.ssid] # 0 /\ tracker[e.ssid] = e.prev
  BY <1>3 DEF Receive, engineVars, Contiguous
<1>6. reader \in Readers(version) /\ tracker \in [Sessions -> 0 .. version]
  BY DEF Shown, Readers
<1>7. Applied(reader.book, e.first, e.seq) \in Market!Books
  <2>1. reader.book \in Market!Books /\ e.first \in Nat /\ e.seq \in 0 .. MaxVersion
    BY <1>1, <1>4, <1>6 DEF Readers
  <2> QED
    BY <2>1, AppliedTyped
<1>8. /\ tracker' \in [Sessions -> 0 .. version] /\ tracker'[e.ssid] = e.seq
      /\ \A s \in Sessions : s # e.ssid => tracker'[s] = tracker[s]
  BY <1>1, <1>4, <1>5, <1>6
<1>9. /\ reader'.seq = e.seq /\ reader'.book = Applied(reader.book, e.first, e.seq)
      /\ reader' \in Readers(version)
  BY <1>1, <1>4, <1>5, <1>6, <1>7, ReaderSet DEF Readers
<1>10. CASE ~sound
  <2>1. Shown'
    BY <1>5, <1>8, <1>9, <1>10, ShownNext
  <2>2. Market!Unpromised
    <3>1. reader'.seq \in 0 .. version
      BY <1>1, <1>4, <1>9
    <3> QED
      BY <1>5, <1>7, <1>9, <1>10, <3>1 DEF Market!Unpromised
  <2> QED
    BY <2>1, <2>2 DEF MarketStep, Market!Next
<1>11. CASE sound
  <2>1. PICK c \in Sessions : AtSession(c)
    BY <1>5, <1>11 DEF Shown
  <2>2. c \in Nat /\ e.ssid \in Nat
    BY <1>4, DepthAssumption DEF Sessions
  <2>3. e.ssid = c
    <3>1. ~(e.ssid > c)
      BY <1>4, <1>5, <2>1 DEF AtSession
    <3>2. ~(e.ssid < c)
      <4>1. ~FollowsOwn(outbox, 1)
        BY DEF FollowsOwn
      <4>2. 1 \in 1 .. Len(outbox)
        BY <1>2
      <4> QED
        BY <1>3, <1>5, <2>1, <4>1, <4>2 DEF AtSession, Behind
    <3> QED
      BY <2>2, <3>1, <3>2
  <2>4. reader.seq = e.prev
    BY <1>5, <2>1, <2>3 DEF AtSession
  <2>5. reader.book = Market!BookAt(reader.seq)
    BY <1>5, <1>11 DEF Shown
  <2>6. reader'.book = Market!BookAt(e.seq)
    <3>1. e.prev \in 0 .. MaxVersion /\ e.seq \in 0 .. MaxVersion
      BY <1>1, <1>4
    <3>2. Applied(Market!BookAt(e.prev), e.first, e.seq) = Market!BookAt(e.seq)
      BY <1>4, <3>1, AppliedFollows
    <3> QED
      BY <1>9, <2>4, <2>5, <3>2
  <2>7. AtSession(c)'
    <3>1. Behind(Tail(outbox), tracker, c)
      BY <1>2, <2>1, <2>2, BehindTail DEF AtSession
    <3>2. \A i \in 1 .. Len(Tail(outbox)) :
             Tail(outbox)[i].kind = "Diff" => Tail(outbox)[i].ssid \in Sessions
      <4> DEFINE r == Tail(outbox)
      <4>1. r \in Seq(SoundEvents)
        BY <1>2, FirstTaken
      <4> HIDE DEF r
      <4>2. \A i \in 1 .. Len(r) : r[i].kind = "Diff" => r[i].ssid \in Sessions
        BY <4>1 DEF SoundEvents, Events
      <4> QED
        BY <4>2 DEF r
    <3>3. \A s \in Sessions : s < c => tracker'[s] = tracker[s]
      BY <1>8, <2>2, <2>3, DepthAssumption DEF Sessions
    <3>4. Behind(Tail(outbox), tracker', c)
      <4> DEFINE r == Tail(outbox)
      <4> HIDE DEF r
      <4>1. Behind(r, tracker, c) /\ \A i \in 1 .. Len(r) : r[i].kind = "Diff" => r[i].ssid \in Sessions
        BY <3>1, <3>2 DEF r
      <4>2. Behind(r, tracker', c)
        BY <3>3, <4>1 DEF Behind
      <4> QED
        BY <4>2 DEF r
    <3>5. \A s \in Sessions : s > c => tracker'[s] = 0
      <4>1. \A s \in Sessions : s > c => s # c
        BY <2>2
      <4> QED
        BY <1>8, <2>1, <2>3, <4>1 DEF AtSession
    <3>6. c <= syncer'.ssid /\ tracker'[c] \in {0, reader'.seq}
      BY <1>4, <1>5, <1>8, <1>9, <2>3
    <3> QED
      BY <1>5, <3>4, <3>5, <3>6, AtSessionNext
  <2>8. Shown'
    BY <1>5, <1>8, <1>9, <2>6, <2>7, ShownNext
  <2>9. Market!Follows(e.seq)
    <3>1. e.seq \in reader.seq + 1 .. version
      BY <1>1, <1>4, <2>4
    <3> QED
      BY <1>5, <1>9, <1>11, <2>6, <3>1 DEF Market!Follows
  <2>10. e.seq \in 1 .. MaxVersion
    BY <1>1, <1>4
  <2> QED
    BY <2>8, <2>9, <2>10 DEF MarketStep, Market!Next
<1>12. sound \in BOOLEAN
  BY DEF Plain
<1> QED
  BY <1>10, <1>11, <1>12

(* Nothing new is shown, and the tracker knows what it knew or nothing. *)
LEMMA NothingShown ==
    ASSUME DepthInv, UNCHANGED <<version, syncer, sound>>,
           reader' \in Readers(version), reader'.seq = reader.seq, reader'.book = reader.book,
           reader'.open => reader.open,
           \/ outbox' = outbox /\ tracker' = tracker
           \/ outbox # <<>> /\ outbox' = Tail(outbox) /\ tracker' = [s \in Sessions |-> 0]
           \/ outbox # <<>> /\ outbox[1].kind # "Snapshot" /\ outbox' = Tail(outbox) /\ tracker' = tracker
           \/ ~reader'.open /\ tracker' = tracker
    PROVE  Shown' /\ MarketStep
<1> USE DEF DepthInv
<1>1. tracker' \in [Sessions -> 0 .. version]
  <2>1. 0 \in 0 .. version
    BY NumbersHold, NumbersAre
  <2> QED
    BY <2>1 DEF Shown
<1>2. ASSUME NEW c \in Sessions, AtSession(c), reader'.open PROVE AtSession(c)'
  <2>1. c \in Nat /\ \A s \in Sessions : s \in Nat
    BY DepthAssumption DEF Sessions
  <2>2. Behind(outbox', tracker', c)
    <3>1. CASE outbox' = outbox /\ tracker' = tracker
      BY <1>2, <3>1 DEF AtSession
    <3>2. CASE outbox # <<>> /\ outbox' = Tail(outbox) /\ tracker' = [s \in Sessions |-> 0]
      <4>1. outbox' \in Seq(SoundEvents)
        BY <3>2, FirstTaken DEF Flow
      <4>2. \A i \in 1 .. Len(outbox') : outbox'[i].kind = "Diff" => outbox'[i].ssid \in Sessions
        BY <4>1 DEF SoundEvents, Events
      <4>3. \A s \in Sessions : tracker'[s] = 0
        BY <3>2
      <4> QED
        BY <4>2, <4>3 DEF Behind
    <3>3. CASE outbox # <<>> /\ outbox[1].kind # "Snapshot" /\ outbox' = Tail(outbox) /\ tracker' = tracker
      <4>1. outbox \in Seq(SoundEvents) /\ Behind(outbox, tracker, c)
        BY <1>2 DEF AtSession, Flow
      <4> QED
        BY <2>1, <3>3, <4>1, BehindTail
    <3> QED
      BY <1>2, <3>1, <3>2, <3>3
  <2>3. \A s \in Sessions : tracker'[s] \in {0, tracker[s]}
    OBVIOUS
  <2> QED
    BY <1>2, <2>2, <2>3, AtSessionNext DEF AtSession
<1>3. Shown'
  BY <1>1, <1>2, ShownNext DEF Shown
<1>4. UNCHANGED Market!bookVars
  BY DEF Market!bookVars
<1> QED
  BY <1>3, <1>4 DEF MarketStep

LEMMA ReceiveShown ==
    ASSUME DepthInv, Receive
    PROVE  Shown' /\ MarketStep
<1> USE DEF DepthInv
<1>1. reader \in Readers(version) /\ tracker \in [Sessions -> 0 .. version]
  BY DEF Shown, Readers
<1>2. UNCHANGED <<version, syncer>> /\ outbox # <<>> /\ outbox' = Tail(outbox) /\ reader.open
  BY DEF Receive, engineVars
<1>3. CASE outbox[1].kind = "Snapshot"
  BY <1>3, SnapshotShown
<1>4. CASE outbox[1].kind = "Diff" /\ Contiguous(outbox[1])
  BY <1>4, DifferenceShown
<1>5. CASE outbox[1].kind = "Diff" /\ ~Contiguous(outbox[1])
  <2>1. Asks /\ UNCHANGED <<tracker, sound>>
    BY <1>5 DEF Receive
  <2>2. /\ reader' \in Readers(version) /\ reader'.seq = reader.seq /\ reader'.book = reader.book
        /\ reader'.open = reader.open
    BY <1>1, <2>1 DEF Asks, Readers
  <2> QED
    BY <1>2, <1>5, <2>1, <2>2, NothingShown
<1>6. CASE outbox[1].kind = "Gap"
  <2>1. Asks /\ tracker' = [s \in Sessions |-> 0] /\ sound' = sound
    BY <1>6 DEF Receive
  <2>2. /\ reader' \in Readers(version) /\ reader'.seq = reader.seq /\ reader'.book = reader.book
        /\ reader'.open = reader.open
    BY <1>1, <2>1 DEF Asks, Readers
  <2> QED
    BY <1>2, <2>1, <2>2, NothingShown
<1>7. CASE outbox[1].kind \notin {"Snapshot", "Diff", "Gap"}
  <2>1. reader' = [reader EXCEPT !.open = FALSE] /\ UNCHANGED <<tracker, sound>>
    BY <1>7 DEF Receive
  <2>2. /\ reader' \in Readers(version) /\ reader'.seq = reader.seq /\ reader'.book = reader.book
        /\ ~reader'.open
    BY <1>1, <2>1 DEF Readers
  <2> QED
    BY <1>2, <2>1, <2>2, NothingShown
<1> QED
  BY <1>3, <1>4, <1>5, <1>6, <1>7

LEMMA LagsShown ==
    ASSUME DepthInv, Lags
    PROVE  Shown' /\ MarketStep
<1>1. reader \in Readers(version)
  BY DEF DepthInv, Shown, Readers
<1>2. /\ UNCHANGED <<version, syncer, sound>> /\ outbox # <<>> /\ outbox' = Tail(outbox)
      /\ tracker' = [s \in Sessions |-> 0] /\ Asks
  BY DEF Lags, engineVars
<1>3. /\ reader' \in Readers(version) /\ reader'.seq = reader.seq /\ reader'.book = reader.book
      /\ reader'.open = reader.open
  BY <1>1, <1>2 DEF Asks, Readers
<1> QED
  BY <1>2, <1>3, NothingShown

LEMMA UnheardShown ==
    ASSUME DepthInv, Unheard
    PROVE  Shown' /\ MarketStep
<1>1. reader \in Readers(version)
  BY DEF DepthInv, Shown, Readers
<1>2. /\ UNCHANGED <<version, syncer, sound, tracker, reader>> /\ outbox # <<>>
      /\ outbox' = Tail(outbox) /\ ~reader.open
  BY DEF Unheard, engineVars, clientVars
<1> QED
  BY <1>1, <1>2, NothingShown

LEMMA RejoinsShown ==
    ASSUME DepthInv, Rejoins
    PROVE  Shown' /\ MarketStep
<1>1. 0 \in 0 .. version
  BY NumbersHold, NumbersAre
<1>2. /\ UNCHANGED <<version, tracker>> /\ reader' = NewReader /\ sound' = FALSE
  BY DEF Rejoins
<1>3. /\ reader' \in Readers(version) /\ reader'.seq = 0 /\ reader'.book = Market!Empty
      /\ Market!Empty \in Market!Books
  BY <1>1, <1>2, BooksTyped DEF NewReader, Readers
<1>4. Shown'
  BY <1>2, <1>3, ShownNext DEF DepthInv, Shown
<1>5. Market!Unpromised
  BY <1>1, <1>2, <1>3 DEF Market!Unpromised
<1> QED
  BY <1>4, <1>5 DEF MarketStep, Market!Next

-----------------------------------------------------------------------------
(* The theorems.                                                            *)

LEMMA DepthInvInit ==
    ASSUME DepthInit
    PROVE  DepthInv
<1> USE DEF DepthInit
<1>1. Plain
  <2>1. MaxVersion \in Nat \ {0} /\ MaxLost \in Nat /\ MaxFailures \in Nat /\ MaxRestarts \in Nat
    BY DepthAssumption
  <2>2. 0 \in 0 .. MaxLost /\ 0 \in 0 .. MaxFailures /\ 0 \in 0 .. MaxRestarts
    BY <2>1
  <2>3. sound \in BOOLEAN /\ (trigger => venue = "bybit")
    BY Zenon
  <2>4. spent \in [lost : 0 .. MaxLost, failures : 0 .. MaxFailures, restarts : 0 .. MaxRestarts]
    BY <2>2
  <2>5. venue \in Venues /\ version \in Versions /\ published \in 0 .. version /\ asking \in Nat
    BY <2>1 DEF Versions
  <2> QED
    BY <2>3, <2>4, <2>5 DEF Plain
<1>2. Numbers
  BY DepthAssumption DEF Numbers, Versions, Sessions, NewSyncer
<1>3. <<>> \in Waiting
  BY DepthAssumption DEF Waiting
<1>4. syncer \in SoundSyncers /\ syncer.ssid \in Sessions
  <2>1. syncer.ssid = 1 /\ 1 \in 1 .. 1 /\ 0 \in 0 .. version
    BY DEF NewSyncer
  <2> QED
    BY <1>2, <1>3, <2>1 DEF SoundSyncers, NewSyncer, Numbers
<1>5. Flow
  BY <1>4 DEF Flow, Ordered
<1>6. Shown
  BY BooksTyped DEF Shown, NewReader
<1> QED
  BY <1>1, <1>5, <1>6 DEF DepthInv

LEMMA SpentTyped ==
    ASSUME Plain, \/ UNCHANGED spent
                  \/ Spend("lost", MaxLost) \/ Spend("failures", MaxFailures)
                  \/ Spend("restarts", MaxRestarts)
    PROVE  spent' \in [lost : 0 .. MaxLost, failures : 0 .. MaxFailures, restarts : 0 .. MaxRestarts]
<1>1. MaxLost \in Nat /\ MaxFailures \in Nat /\ MaxRestarts \in Nat
  BY DepthAssumption
<1> QED
  BY <1>1 DEF Plain, Spend

LEMMA PlainKept ==
    ASSUME Plain, DepthNext
    PROVE  Plain'
<1>0. /\ version \in Nat \ {0} /\ MaxVersion \in Nat
      /\ {MaxLost, MaxFailures, MaxRestarts} \subseteq Nat
  BY DepthAssumption DEF Plain, Versions
<1>1. ASSUME NEW n \in Versions, Publish(n) PROVE Plain'
  <2>1. spent' \in [lost : 0 .. MaxLost, failures : 0 .. MaxFailures, restarts : 0 .. MaxRestarts]
    BY <1>1, SpentTyped DEF Publish
  <2>2. /\ version' = n /\ n \in version + 1 .. MaxVersion
        /\ UNCHANGED <<venue, phase, fetch, trigger, asking, sound>>
        /\ IF phase = "open" THEN published' = n ELSE UNCHANGED <<wire, published>>
    BY <1>1 DEF Publish, clientVars
  <2> QED
    BY <1>0, <2>1, <2>2 DEF Plain, Versions
<1>2. CASE Begins \/ Opens \/ Confirmed \/ Triggered
  BY <1>0, <1>2 DEF Begins, Opens, Confirmed, Triggered, Plain, LeaveConnection, Reading, clientVars
<1>3. CASE Read
  BY <1>0, <1>3 DEF Read, Plain, LeaveConnection, Reading, clientVars
<1>4. CASE ClosesOk \/ Breaks \/ FetchFails
  BY <1>0, <1>4 DEF ClosesOk, Breaks, FetchFails, Plain, LeaveConnection, Reading, clientVars, Spend
<1>5. CASE AskFails
  BY <1>0, <1>5 DEF AskFails, Plain, clientVars, engineVars, Spend
<1>6. CASE Receive
  <2>1. UNCHANGED <<venue, version, published, wire, phase, fetch, trigger, spent>>
    BY <1>6 DEF Receive, engineVars
  <2>2. asking' = asking \/ asking' = asking + 1
    BY <1>6 DEF Receive, Asks
  <2>3. sound' \in BOOLEAN
    <3>1. sound \in BOOLEAN
      BY DEF Plain
    <3>2. sound' = sound \/ sound' = \A s \in Sessions : s > outbox[1].ssid => tracker[s] = 0
      BY <1>6 DEF Receive
    <3> QED
      BY <3>1, <3>2
  <2> QED
    BY <2>1, <2>2, <2>3 DEF Plain
<1>7. CASE Lags \/ Unheard \/ Rejoins
  <2>1. spent' \in [lost : 0 .. MaxLost, failures : 0 .. MaxFailures, restarts : 0 .. MaxRestarts]
    BY <1>7, SpentTyped DEF Lags, Unheard, Rejoins
  <2>2. /\ UNCHANGED <<venue, version, published, wire, phase, fetch, trigger>>
        /\ asking' = asking \/ asking' = asking + 1
        /\ sound' = sound \/ sound' = FALSE
    BY <1>7 DEF Lags, Unheard, Rejoins, engineVars, clientVars, Asks
  <2>3. sound' \in BOOLEAN
    BY <2>2 DEF Plain
  <2> QED
    BY <2>1, <2>2, <2>3 DEF Plain
<1>8. ASSUME NEW n \in Versions, FetchAnswered(n) PROVE Plain'
  BY <1>0, <1>8 DEF FetchAnswered, Plain, clientVars
<1>9. ASSUME NEW n \in Versions, AskAnswered(n) PROVE Plain'
  BY <1>0, <1>9 DEF AskAnswered, Plain, clientVars
<1>10. ASSUME NEW n \in Versions, NEW s \in late, LateAnswered(s, n) PROVE Plain'
  BY <1>0, <1>10 DEF LateAnswered, Plain, clientVars
<1> QED
  BY <1>1, <1>2, <1>3, <1>4, <1>5, <1>6, <1>7, <1>8, <1>9, <1>10 DEF DepthNext

LEMMA StepKept ==
    ASSUME DepthInv, [DepthNext]_depthVars
    PROVE  DepthInv' /\ MarketStep
<1>1. CASE UNCHANGED depthVars
  <2>1. UNCHANGED <<venue, version, published, wire, phase, syncer, fetch, late, trigger, asking,
                    outbox, tracker, reader, sound, spent>>
    BY <1>1 DEF depthVars, engineVars, clientVars
  <2>2. Plain'
    BY <2>1 DEF DepthInv, Plain
  <2>3. Engine
    BY <2>1, SameSession DEF DepthInv, Flow, clientVars
  <2>4. MarketStep
    BY <2>1 DEF MarketStep, Market!bookVars
  <2> QED
    BY <2>2, <2>3, <2>4, EngineStepKeeps DEF DepthInv
<1>2. CASE DepthNext
  <2>1. Plain'
    BY <1>2, PlainKept DEF DepthInv
  <2>2. ASSUME NEW n \in Versions, Publish(n) PROVE DepthInv' /\ MarketStep
    <3>1. Engine
      BY <2>2, PublishKeeps
    <3>2. version' \in version + 1 .. MaxVersion /\ UNCHANGED clientVars
      BY <2>2 DEF Publish
    <3>3. Market!Moves
      BY <3>2 DEF Market!Moves, clientVars
    <3> QED
      BY <2>1, <3>1, <3>3, EngineStepKeeps DEF DepthInv, MarketStep, Market!Next
  <2>3. ASSUME Engine, version' = version PROVE DepthInv' /\ MarketStep
    <3>1. MarketStep
      BY <2>3 DEF Engine, clientVars, MarketStep, Market!bookVars
    <3> QED
      BY <2>1, <2>3, <3>1, EngineStepKeeps DEF DepthInv
  <2>4. CASE Begins
    BY <2>3, <2>4, BeginsKeeps DEF Begins
  <2>5. CASE Opens
    BY <2>3, <2>5, OpensKeeps DEF Opens
  <2>6. CASE Read
    BY <2>3, <2>6, ReadKeeps DEF Read
  <2>7. CASE Confirmed \/ Triggered \/ ClosesOk
    BY <2>3, <2>7, QuietStepsKeep DEF Confirmed, Triggered, ClosesOk
  <2>8. CASE Breaks \/ FetchFails \/ AskFails
    BY <2>3, <2>8, TellingStepsKeep DEF Breaks, FetchFails, AskFails
  <2>9. ASSUME NEW n \in Versions, FetchAnswered(n) PROVE DepthInv' /\ MarketStep
    BY <2>3, <2>9, FetchAnsweredKeeps DEF FetchAnswered
  <2>10. ASSUME NEW n \in Versions, AskAnswered(n) PROVE DepthInv' /\ MarketStep
    BY <2>3, <2>10, AskAnsweredKeeps DEF AskAnswered
  <2>11. ASSUME NEW n \in Versions, NEW s \in late, LateAnswered(s, n) PROVE DepthInv' /\ MarketStep
    BY <2>3, <2>11, LateAnsweredKeeps DEF LateAnswered
  <2>12. CASE Receive
    <3>1. Flow'
      BY <2>12, FlowUntouched DEF Receive
    <3> QED
      BY <2>1, <2>12, <3>1, ReceiveShown DEF DepthInv
  <2>13. CASE Lags
    <3>1. Flow'
      BY <2>13, FlowUntouched DEF Lags
    <3> QED
      BY <2>1, <2>13, <3>1, LagsShown DEF DepthInv
  <2>14. CASE Unheard
    <3>1. Flow'
      BY <2>14, FlowUntouched DEF Unheard
    <3> QED
      BY <2>1, <2>14, <3>1, UnheardShown DEF DepthInv
  <2>15. CASE Rejoins
    <3>1. Flow'
      BY <2>15, FlowUntouched DEF Rejoins
    <3> QED
      BY <2>1, <2>15, <3>1, RejoinsShown DEF DepthInv
  <2> QED
    BY <1>2, <2>2, <2>4, <2>5, <2>6, <2>7, <2>8, <2>9, <2>10, <2>11, <2>12, <2>13, <2>14, <2>15
       DEF DepthNext
<1> QED
  BY <1>1, <1>2

(* The types of the pipeline of one book: what is queued stays within
   MAX_PENDING, no syncer and no tracker is ahead of the exchange.          *)
THEOREM DepthTyped == DepthSpec => []DepthTypeOK
<1>1. DepthInit => DepthInv
  BY DepthInvInit
<1>2. DepthInv /\ [DepthNext]_depthVars => DepthInv'
  BY StepKept
<1>3. DepthInv => DepthTypeOK
  BY InvTyped
<1> QED
  BY <1>1, <1>2, <1>3, PTL DEF DepthSpec

(* The book on the screen follows the exchange's book: the pipeline of
   depth_stream, syncers and DepthTracker implements MarketBook.            *)
THEOREM DepthFollowsMarket == DepthSpec => FollowsMarket
<1>1. DepthInit => DepthInv /\ Market!Init
  <2> SUFFICES ASSUME DepthInit PROVE DepthInv /\ Market!Init
    OBVIOUS
  <2>1. DepthInv
    BY DepthInvInit
  <2>2. version = 1 /\ reader = NewReader /\ sound = FALSE
    BY DEF DepthInit
  <2>3. reader.seq = 0 /\ reader.book = Market!Empty
    BY <2>2 DEF NewReader
  <2> QED
    BY <2>1, <2>2, <2>3 DEF Market!Init
<1>2. DepthInv /\ [DepthNext]_depthVars => DepthInv' /\ [Market!Next]_(Market!bookVars)
  BY StepKept DEF MarketStep
<1> QED
  BY <1>1, <1>2, PTL DEF DepthSpec, FollowsMarket, Market!Spec
=============================================================================
