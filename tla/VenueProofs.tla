----------------------------- MODULE VenueProofs -----------------------------
(* Proofs about what the engine runs against its venues: VenueWorker, its
   requests, its stream and the change of proxy, and VenueLogin, the logins of
   the two brokers.  The two components share nothing but the venues; their
   proofs do not use each other.                                            *)
EXTENDS VenueLogin, VenueWorker, SequenceTheorems, FiniteSetTheorems, TLAPS

-----------------------------------------------------------------------------
(* VenueWorker: the inductive invariant.                                    *)

(* What a request may have for an operation: it has the client and the answer
   of one of the table, which is all the types of VenueWorker tell of it.     *)
OpRecords == [requests : SUBSET (0 .. MaxPages + 3), client : {"crypto", "tachibana", "own"},
              needs : {"nothing", "archive", "master"}, skips : BOOLEAN,
              answer : {"one", "chunks", "failed", "none"}, busy : BOOLEAN]
Served == {o \in OpRecords : /\ o.needs # "nothing" => o.client \in Workers
                             /\ \E p \in Operations : o.client = p.client /\ o.answer = p.answer}
TaskRecords == [op : SUBSET Served, left : 0 .. MaxPages + 3,
                phase : {"new", "queued", "loading", "limited", "sent", "killed", "cancelled", "ended"},
                via : SUBSET Proxies, later : BOOLEAN, skipped : BOOLEAN, due : Int]
StreamFields == [phase : {"ended", "new", "connecting", "open", "closing", "waiting"},
                 helpers : Int, batch : 0 .. MaxTrades, cause : {"over", "failed", "cancelled"},
                 stop : BOOLEAN, cancel : BOOLEAN]
(* A coroutine without a connection has an empty batch. *)
StreamRecords == {s \in StreamFields : s.phase \notin {"open", "closing"} => s.batch = 0}
WorkerRecords == [proxy : Proxies, client : {{}} \cup {{p} : p \in Proxies}]
SettingRecords == [at : {"idle", "closing", "streams", "tasks"}, url : Proxies,
                   next : 1 .. Len(Crew), todo : SUBSET Tasks,
                   awaits : {{}} \cup {{t} : t \in Tasks}]

Types ==
    /\ proxy \in Proxies
    /\ worker \in [Workers -> WorkerRecords]
    /\ setting \in [Clients -> SettingRecords]
    /\ apart \in BOOLEAN
    /\ task \in [Tasks -> TaskRecords]
    /\ tracked \subseteq Tasks
    /\ kept \in [Stores -> BOOLEAN]
    /\ queue \in [Stores -> Seq(Tasks)]
    /\ stream \in StreamRecords
    /\ owed \in -MaxTrades .. MaxTrades

(* A request by itself: it owes the event of its end until it has ended, it
   knows its operation once it waits for anything, it waits for the limiter or
   for a response only when requests are left, and no client serves it while
   it waits for something else.                                              *)
Sound(T) ==
    /\ T.due = (IF T.phase = "ended" THEN 0 ELSE 1)
    /\ T.phase \in {"queued", "loading", "limited", "sent"} => \E o \in Served : T.op = {o}
    /\ T.phase \in {"queued", "loading"} => \A o \in T.op : o.needs \in Stores
    /\ T.phase \in {"limited", "sent"} => T.left > 0
    /\ T.phase \notin {"loading", "sent"} => T.via = {}
TasksSound == \A t \in Tasks : Sound(task[t])

Has(q, t) == \E i \in 1 .. Len(q) : q[i] = t

(* Who waits for a store is in the queue of its lock; who downloads it heads
   the queue, and it is not there yet.  This is why there is one download.   *)
Queues ==
    \A t \in Tasks : \A k \in Stores :
        /\ task[t].phase \in {"queued", "loading"} /\ Op(t).needs = k => Has(queue[k], t)
        /\ task[t].phase = "loading" /\ Op(t).needs = k => queue[k][1] = t /\ ~kept[k]

Given(w) == worker[w].proxy = proxy /\ worker[w].client \subseteq {proxy}

(* What a SetProxy that runs alone has done so far: the workers up to the one
   whose client it closes have its proxy, then all of them, and then a tracked
   request under way either goes through it or is still to be cancelled.
   Without this ProxyInUse is not inductive: it says nothing until the handler
   has ended.                                                                *)
Applied ==
    apart => \A c \in Clients : setting[c].at # "idle" =>
        /\ \A d \in Clients : d # c => setting[d].at = "idle"
        /\ setting[c].at = "closing" =>
              /\ setting[c].url = proxy
              /\ \A j \in 1 .. setting[c].next : Given(Crew[j])
        /\ setting[c].at \in {"streams", "tasks"} => \A w \in Workers : Given(w)
        /\ setting[c].at = "tasks" =>
              \A t \in tracked : task[t].via \subseteq {proxy} \/ t \in setting[c].todo

(* The stream a SetProxy waits for has its stop event set.                    *)
Stopping == \A c \in Clients : setting[c].at = "streams" => ~Streaming \/ stream.stop

WorkerInv == /\ Types /\ TasksSound /\ Queues /\ Applied /\ Stopping
             /\ ProxyInUse /\ TradesTold

-----------------------------------------------------------------------------
(* The table of operations.                                                  *)

Numbers == 0 .. MaxPages + 3
IsCall(r) == /\ r.requests \in SUBSET Numbers
             /\ r.client \in {"crypto", "tachibana", "own"}
             /\ r.needs \in {"nothing", "archive", "master"}
             /\ r.skips \in BOOLEAN
             /\ r.needs # "nothing" => r.client \in {"crypto", "tachibana"}
AreCalls(S) == \A r \in S : IsCall(r)

LEMMA CrewFacts ==
    /\ Len(Crew) = 2 /\ Crew[1] = "crypto" /\ Crew[2] = "tachibana"
    /\ Workers = {"crypto", "tachibana"}
BY DEF Crew, Workers, ToSet

LEMMA NumbersFacts == /\ {0, 1, 2, 3} \subseteq Numbers /\ 1 .. MaxPages \subseteq Numbers
                      /\ MaxPages \in Nat
BY PagesAssumption DEF Numbers

LEMMA Makers ==
    ASSUME NEW n, n \subseteq Numbers, NEW costs
    PROVE  /\ IsCall(Crypto(n, costs))
           /\ IsCall([Crypto(n, costs) EXCEPT !.needs = "archive"])
           /\ IsCall([Crypto(n, costs) EXCEPT !.skips = TRUE])
           /\ IsCall(TachibanaWorker(n)) /\ IsCall(Own(n)) /\ IsCall(WithMaster(n))
           /\ IsCall([Own(n) EXCEPT !.skips = TRUE])
           /\ IsCall([WithMaster(n) EXCEPT !.skips = TRUE])
BY DEF Crypto, TachibanaWorker, Own, WithMaster, IsCall

LEMMA CallNumbers ==
    /\ {} \subseteq Numbers /\ {0} \subseteq Numbers /\ {1} \subseteq Numbers /\ {2} \subseteq Numbers
    /\ {0, 1} \subseteq Numbers /\ 1 .. MaxPages \subseteq Numbers
    /\ (1 .. 3) \cap (1 .. MaxPages) \subseteq Numbers
BY NumbersFacts

LEMMA CryptoCalls ==
    ASSUME NEW costs
    PROVE  /\ IsCall(Crypto({}, costs)) /\ IsCall(Crypto({0}, costs)) /\ IsCall(Crypto({1}, costs))
           /\ IsCall(Crypto({0, 1}, costs)) /\ IsCall(Crypto((1 .. 3) \cap (1 .. MaxPages), costs))
BY CallNumbers, Makers

LEMMA BinanceCalls ==
    AreCalls({BinanceListTickers, BinanceKlines, BinanceOpenInterest, BinanceTickerStats,
              BinanceDepthSnapshot, BinanceIntradayTrades, BinanceTrades})
<1>1. IsCall(BinanceIntradayTrades) /\ IsCall(BinanceTrades)
  BY CallNumbers, Makers DEF BinanceIntradayTrades, BinanceTrades
<1>2. IsCall(BinanceListTickers) /\ IsCall(BinanceKlines) /\ IsCall(BinanceOpenInterest)
  BY CryptoCalls DEF BinanceListTickers, BinanceKlines, BinanceOpenInterest
<1>3. IsCall(BinanceTickerStats) /\ IsCall(BinanceDepthSnapshot)
  BY CryptoCalls DEF BinanceTickerStats, BinanceDepthSnapshot
<1> QED
  BY <1>1, <1>2, <1>3 DEF AreCalls

LEMMA BybitOkexCalls ==
    AreCalls({BybitListTickers, BybitKlines, BybitOpenInterest, BybitTickerStats, BybitDepthSnapshot,
     OkexListTickers, OkexKlines, OkexOpenInterest, OkexTickerStats, OkexDepthSnapshot})
BY CryptoCalls DEF AreCalls, BybitListTickers, BybitKlines, BybitOpenInterest, BybitTickerStats,
   BybitDepthSnapshot, OkexListTickers, OkexKlines, OkexOpenInterest, OkexTickerStats, OkexDepthSnapshot

LEMMA MexcCalls ==
    AreCalls({MexcListTickers, MexcKlines, MexcOpenInterest, MexcTickerStats, MexcDepthSnapshot})
BY CryptoCalls DEF AreCalls, MexcListTickers, MexcKlines, MexcOpenInterest, MexcTickerStats, MexcDepthSnapshot

LEMMA HyperliquidCalls ==
    /\ AreCalls(HyperliquidListTickers) /\ AreCalls(HyperliquidTickerStats)
    /\ AreCalls({HyperliquidKlines, HyperliquidOpenInterest, HyperliquidDepthSnapshot})
<1>1. IsCall(HyperliquidPerpetuals)
  BY CallNumbers, Makers DEF HyperliquidPerpetuals
<1>2. IsCall(HyperliquidSpot) /\ IsCall(Crypto({0}, {1}))
  BY CryptoCalls DEF HyperliquidSpot
<1> QED
  BY <1>1, <1>2, CryptoCalls DEF AreCalls, HyperliquidListTickers, HyperliquidTickerStats,
     HyperliquidKlines, HyperliquidOpenInterest, HyperliquidDepthSnapshot

LEMMA TachibanaCalls ==
    AreCalls({TachibanaListTickers, TachibanaKlines, TachibanaTickerStats, TachibanaOpenInterest,
     TachibanaDepthSnapshot, ListKabuTickers})
BY CallNumbers, Makers DEF AreCalls, TachibanaListTickers, TachibanaKlines, TachibanaTickerStats,
   TachibanaOpenInterest, TachibanaDepthSnapshot, ListKabuTickers

LEMMA OrderCalls ==
    AreCalls({FetchOrderList, FetchPositions, SubmitOrder, ModifyOrder, CancelOrder, CancelAllOrders,
     KabuSendOrder, KabuCancelOrder, KabuFetchOrders, KabuFetchPositions, KabuFetchWallets})
BY CallNumbers, Makers DEF AreCalls, FetchOrderList, FetchPositions, SubmitOrder, ModifyOrder, CancelOrder,
   CancelAllOrders, KabuSendOrder, KabuCancelOrder, KabuFetchOrders, KabuFetchPositions, KabuFetchWallets

LEMMA OwnCalls ==
    /\ IsCall(Own({0}))
    /\ IsCall(Own({n + m : n \in FetchBuyingPower.requests, m \in FetchCreditBuyingPower.requests}))
<1> DEFINE sums == {n + m : n \in FetchBuyingPower.requests, m \in FetchCreditBuyingPower.requests}
<1>1. sums \subseteq Numbers
  BY NumbersFacts DEF FetchBuyingPower, FetchCreditBuyingPower, Own, Crypto
<1>2. {0} \subseteq Numbers
  BY NumbersFacts
<1> HIDE DEF sums
<1>3. IsCall(Own(sums)) /\ IsCall(Own({0}))
  BY <1>1, <1>2, Makers
<1> QED
  BY <1>3 DEF sums

Typed == {o \in OpRecords : o.needs # "nothing" => o.client \in {"crypto", "tachibana"}}

LEMMA AnsweredTyped ==
    ASSUME NEW calls, AreCalls(calls), NEW answer \in {"one", "chunks", "failed", "none"}
    PROVE  Answered(calls, answer) \subseteq Typed
<1> SUFFICES ASSUME NEW r \in calls
             PROVE  [requests |-> r.requests, client |-> r.client, needs |-> r.needs, skips |-> r.skips,
                     answer |-> answer, busy |-> FALSE] \in Typed
  BY DEF Answered
<1>1. IsCall(r)
  BY DEF AreCalls
<1> QED
  BY <1>1 DEF IsCall, Typed, OpRecords, Numbers

LEMMA GatedTyped == ASSUME NEW S \in SUBSET Typed PROVE Gated(S) \subseteq Typed
BY DEF Gated, Typed, OpRecords

LEMMA OperationsTyped == Operations \subseteq Typed
<1>1. DoListTickers \cup DoGetTickerMetadata \subseteq Typed
  <2>1. AreCalls(ListTickers)
    BY BinanceCalls, BybitOkexCalls, MexcCalls, HyperliquidCalls, TachibanaCalls DEF AreCalls, ListTickers
  <2>2. AreCalls(ListTickers \cup {ListKabuTickers})
    BY <2>1, TachibanaCalls DEF AreCalls
  <2> QED
    BY <2>1, <2>2, AnsweredTyped DEF DoListTickers, DoGetTickerMetadata
<1>2. DoFetchKlines \cup DoFetchOpenInterest \cup DoFetchTickerStats \subseteq Typed
  <2>1. AreCalls({BinanceKlines, BybitKlines, OkexKlines, MexcKlines, HyperliquidKlines, TachibanaKlines})
    BY BinanceCalls, BybitOkexCalls, MexcCalls, HyperliquidCalls, TachibanaCalls DEF AreCalls
  <2>2. AreCalls({BinanceOpenInterest, BybitOpenInterest, OkexOpenInterest, MexcOpenInterest,
                  HyperliquidOpenInterest, TachibanaOpenInterest})
    BY BinanceCalls, BybitOkexCalls, MexcCalls, HyperliquidCalls, TachibanaCalls DEF AreCalls
  <2>3. AreCalls({BinanceTickerStats, BybitTickerStats, OkexTickerStats, MexcTickerStats,
                  TachibanaTickerStats} \cup HyperliquidTickerStats)
    BY BinanceCalls, BybitOkexCalls, MexcCalls, HyperliquidCalls, TachibanaCalls DEF AreCalls
  <2> QED
    BY <2>1, <2>2, <2>3, AnsweredTyped DEF DoFetchKlines, DoFetchOpenInterest, DoFetchTickerStats
<1>3. DoFetchTrades \cup DoRequestDepthSnapshot \subseteq Typed
  <2>1. AreCalls({BinanceTrades, BinanceIntradayTrades, Crypto({}, {1})})
    BY BinanceCalls, CryptoCalls DEF AreCalls
  <2>2. AreCalls({BinanceDepthSnapshot, OkexDepthSnapshot, MexcDepthSnapshot, HyperliquidDepthSnapshot,
                  TachibanaDepthSnapshot})
    BY BinanceCalls, BybitOkexCalls, MexcCalls, HyperliquidCalls, TachibanaCalls DEF AreCalls
  <2>3. AreCalls({BybitDepthSnapshot})
    BY BybitOkexCalls DEF AreCalls
  <2> QED
    BY <2>1, <2>2, <2>3, AnsweredTyped DEF DoFetchTrades, DoRequestDepthSnapshot
<1>4. DoSubmitOrder \cup DoModifyOrder \cup DoCancelOrder \cup DoCancelAllOrders \subseteq Typed
  <2>1. /\ AreCalls({SubmitOrder}) /\ AreCalls({KabuSendOrder}) /\ AreCalls({ModifyOrder})
        /\ AreCalls({CancelOrder}) /\ AreCalls({KabuCancelOrder}) /\ AreCalls({CancelAllOrders})
    BY OrderCalls DEF AreCalls
  <2>2. /\ Answered({SubmitOrder}, "none") \cup Answered({KabuSendOrder}, "none") \subseteq Typed
        /\ Answered({CancelOrder}, "none") \cup Answered({KabuCancelOrder}, "none") \subseteq Typed
        /\ Answered({ModifyOrder}, "none") \subseteq Typed
        /\ Answered({CancelAllOrders}, "failed") \subseteq Typed
    BY <2>1, AnsweredTyped
  <2> QED
    BY <2>2, GatedTyped
       DEF DoSubmitOrder, DoSubmitOrderKabu, DoModifyOrder, DoCancelOrder, DoCancelOrderKabu, DoCancelAllOrders
<1>5. DoGetOrderList \cup DoGetBuyingPower \cup DoGetPositions \subseteq Typed
  <2> DEFINE power == Own({n + m : n \in FetchBuyingPower.requests, m \in FetchCreditBuyingPower.requests})
  <2> HIDE DEF power
  <2>1. /\ AreCalls({FetchOrderList, Own({0})}) /\ AreCalls({Own({0})}) /\ AreCalls({KabuFetchOrders})
        /\ AreCalls({power}) /\ AreCalls({KabuFetchWallets})
        /\ AreCalls({FetchPositions}) /\ AreCalls({KabuFetchPositions})
    BY OrderCalls, OwnCalls DEF AreCalls, power
  <2>2. /\ Answered({FetchOrderList, Own({0})}, "one") \subseteq Typed
        /\ Answered({Own({0})}, "one") \cup Answered({Own({0})}, "none") \subseteq Typed
        /\ Answered({KabuFetchOrders}, "one") \cup Answered({KabuFetchWallets}, "one") \subseteq Typed
        /\ Answered({power}, "one") \subseteq Typed
        /\ Answered({FetchPositions}, "one") \subseteq Typed
        /\ Answered({KabuFetchPositions}, "one") \subseteq Typed
    BY <2>1, AnsweredTyped
  <2>3. /\ Gated(Answered({FetchOrderList, Own({0})}, "one")) \subseteq Typed
        /\ Gated(Answered({power}, "one")) \subseteq Typed
        /\ Gated(Answered({FetchPositions}, "one")) \subseteq Typed
    BY <2>2, GatedTyped
  <2>4. DoGetBuyingPower = Gated(Answered({power}, "one")) \cup DoGetBuyingPowerReplay \cup DoGetBuyingPowerKabu
    BY DEF DoGetBuyingPower, power
  <2> QED
    BY <2>2, <2>3, <2>4
       DEF DoGetOrderList, DoGetOrderListReplay, DoGetOrderListKabu,
           DoGetBuyingPowerReplay, DoGetBuyingPowerKabu, DoGetPositions, DoGetPositionsKabu
<1>6. DoLoadStrategyScenario \cup DoSaveStrategyScenario \subseteq Typed
  <2>1. AreCalls({Own({0})})
    BY OwnCalls DEF AreCalls
  <2> QED
    BY <2>1, AnsweredTyped DEF DoLoadStrategyScenario, DoSaveStrategyScenario
<1> QED
  BY <1>1, <1>2, <1>3, <1>4, <1>5, <1>6 DEF Operations

LEMMA OperationsServed == Operations \subseteq Served
BY OperationsTyped, CrewFacts DEF Served, Typed

-----------------------------------------------------------------------------
(* Queues, clients and the ends of requests.                               *)

LEMMA WithoutKeeps ==
    ASSUME NEW S, NEW q \in Seq(S), NEW t
    PROVE  /\ Without(q, t) \in Seq(S)
           /\ \A u : u # t /\ Has(q, u) => Has(Without(q, t), u)
           /\ Len(q) > 0 /\ q[1] # t => Without(q, t)[1] = q[1]
<1>1. CASE t \notin ToSet(q)
  BY <1>1 DEF Without
<1>2. CASE t \in ToSet(q)
  <2> DEFINE i == CHOOSE j \in DOMAIN q : q[j] = t
             n == Len(q)
             a == SubSeq(q, 1, i - 1)
             b == SubSeq(q, i + 1, n)
  <2>1. n \in Nat /\ DOMAIN q = 1 .. n /\ \A j \in 1 .. n : q[j] \in S
    BY LenProperties, ElementOfSeq
  <2>2. i \in 1 .. n /\ q[i] = t
    BY <1>2, <2>1 DEF ToSet
  <2>3. Without(q, t) = a \o b
    BY <1>2 DEF Without, RemoveAt
  <2> HIDE DEF i, n
  <2>4. /\ a \in Seq(S) /\ Len(a) = i - 1 /\ \A j \in 1 .. i - 1 : a[j] = q[j]
        /\ b \in Seq(S) /\ Len(b) = n - i /\ \A j \in 1 .. n - i : b[j] = q[i + j]
    <3>1. 1 \in 1 .. n + 1 /\ i - 1 \in 0 .. n /\ i + 1 \in 1 .. n + 1 /\ n \in 0 .. n
      BY <2>1, <2>2
    <3>2. a \in Seq(S) /\ Len(a) = i - 1 /\ \A j \in 1 .. i - 1 : a[j] = q[j]
      BY <2>1, <2>2, <3>1, SubSeqProperties DEF n
    <3>3. b \in Seq(S) /\ Len(b) = n - i /\ \A j \in 1 .. n - i : b[j] = q[i + j]
      <4>1. /\ b \in Seq(S) /\ Len(b) = IF i + 1 <= n THEN n - (i + 1) + 1 ELSE 0
            /\ \A j \in 1 .. n - (i + 1) + 1 : b[j] = q[i + 1 + j - 1]
        BY <2>1, <2>2, <3>1, SubSeqProperties DEF n
      <4>2. n - (i + 1) + 1 = n - i /\ Len(b) = n - i
        BY <2>1, <2>2, <4>1
      <4>3. \A j \in 1 .. n - i : i + 1 + j - 1 = i + j
        BY <2>1, <2>2
      <4> QED
        BY <4>1, <4>2, <4>3
    <3> QED
      BY <3>2, <3>3
  <2> HIDE DEF a, b
  <2>5. /\ a \o b \in Seq(S) /\ Len(a \o b) = n - 1
        /\ \A j \in 1 .. n - 1 : (a \o b)[j] = IF j <= i - 1 THEN a[j] ELSE b[j - (i - 1)]
    <3>1. /\ a \o b \in Seq(S) /\ Len(a \o b) = Len(a) + Len(b)
          /\ \A j \in 1 .. Len(a) + Len(b) : (a \o b)[j] = IF j <= Len(a) THEN a[j] ELSE b[j - Len(a)]
      BY <2>4, ConcatProperties
    <3>2. Len(a) = i - 1 /\ Len(a) + Len(b) = n - 1
      BY <2>1, <2>2, <2>4
    <3> QED
      BY <3>1, <3>2
  <2>6. /\ \A j \in 1 .. i - 1 : j \in 1 .. n - 1 /\ (a \o b)[j] = q[j]
        /\ \A j \in i + 1 .. n : j - 1 \in 1 .. n - 1 /\ (a \o b)[j - 1] = q[j]
    <3>1. ASSUME NEW j \in 1 .. i - 1 PROVE j \in 1 .. n - 1 /\ (a \o b)[j] = q[j]
      <4>1. j \in 1 .. n - 1 /\ j <= i - 1
        BY <2>1, <2>2
      <4> QED
        BY <2>4, <2>5, <4>1
    <3>2. ASSUME NEW j \in i + 1 .. n PROVE j - 1 \in 1 .. n - 1 /\ (a \o b)[j - 1] = q[j]
      <4>1. j - 1 \in 1 .. n - 1 /\ ~(j - 1 <= i - 1) /\ j - 1 - (i - 1) \in 1 .. n - i
            /\ i + (j - 1 - (i - 1)) = j
        BY <2>1, <2>2
      <4> QED
        BY <2>4, <2>5, <4>1
    <3> QED
      BY <3>1, <3>2
  <2>7. ASSUME NEW u, u # t, NEW j \in 1 .. n, q[j] = u
        PROVE  Has(a \o b, u)
    <3>1. CASE j <= i - 1
      <4>0. j \in 1 .. i - 1
        BY <2>1, <2>2, <3>1
      <4>1. j \in 1 .. n - 1 /\ (a \o b)[j] = q[j]
        BY <2>6, <4>0
      <4> QED
        BY <2>5, <2>7, <4>1 DEF Has
    <3>2. CASE j > i
      <4>0. j \in i + 1 .. n
        BY <2>1, <2>2, <3>2
      <4>1. j - 1 \in 1 .. n - 1 /\ (a \o b)[j - 1] = q[j]
        BY <2>6, <4>0
      <4> QED
        BY <2>5, <2>7, <4>1 DEF Has
    <3> QED
      BY <2>1, <2>2, <2>7, <3>1, <3>2
  <2>8. n > 0 /\ q[1] # t => (a \o b)[1] = q[1]
    <3>1. q[1] # t => 1 \in 1 .. i - 1
      BY <2>1, <2>2
    <3> QED
      BY <2>6, <3>1
  <2> QED
    BY <2>3, <2>5, <2>7, <2>8 DEF Has, n
<1> QED
  BY <1>1, <1>2

LEMMA ClientsTyped ==
    ASSUME Types, NEW w \in Workers
    PROVE  /\ Client(w) \in {{p} : p \in Proxies}
           /\ Given(w) => Client(w) \subseteq {proxy}
           /\ Through(w) => /\ worker' \in [Workers -> WorkerRecords]
                            /\ \A v \in Workers : /\ worker'[v].proxy = worker[v].proxy
                                                  /\ worker'[v].client \in {worker[v].client, Client(v)}
<1>1. worker[w] \in WorkerRecords
  BY DEF Types
<1>2. Client(w) \in {{p} : p \in Proxies}
  BY <1>1 DEF Client, WorkerRecords
<1>3. Given(w) => Client(w) \subseteq {proxy}
  BY DEF Given, Client
<1>4. ASSUME Through(w)
      PROVE  /\ worker' \in [Workers -> WorkerRecords]
             /\ \A v \in Workers : /\ worker'[v].proxy = worker[v].proxy
                                   /\ worker'[v].client \in {worker[v].client, Client(v)}
  BY <1>1, <1>2, <1>4 DEF Types, Through, WorkerRecords
<1> QED
  BY <1>2, <1>3, <1>4

LEMMA SlotTyped == Slot \in TaskRecords /\ Slot.via = {} /\ Slot.phase = "ended"
<1>1. 0 \in 0 .. MaxPages + 3
  BY NumbersFacts DEF Numbers
<1> QED
  BY <1>1 DEF Slot, TaskRecords

LEMMA EndSound ==
    LET E == [Slot EXCEPT !.due = 0]
    IN E \in TaskRecords /\ Sound(E) /\ E.via = {} /\ E.phase = "ended"
BY SlotTyped DEF TaskRecords, Sound

LEMMA EndsSound ==
    ASSUME NEW n \in Int, NEW silent \in BOOLEAN, n = 1 \/ (silent /\ n = 0)
    PROVE  Ended(n, silent) \in TaskRecords /\ Sound(Ended(n, silent)) /\ Ended(n, silent).via = {}
           /\ Ended(n, silent).phase = "ended"
<1>1. Ended(n, silent) = [Slot EXCEPT !.due = 0]
  BY DEF Ended
<1> QED
  BY <1>1, EndSound

(* An answer in chunks has one that is marked as the last. *)
LEMMA OneLast == \A n \in 0 .. 2 : Lasts(n) = 1
<1>1. ASSUME NEW n \in 0 .. 2 PROVE Lasts(n) = 1
  <2> DEFINE m == IF n = 0 THEN 1 ELSE n
  <2>1. m \in 1 .. 2
    BY <1>1
  <2>2. IsLast(n) = [i \in 1 .. m |-> i >= n]
    BY DEF IsLast
  <2>3. \A i \in 1 .. m : i >= n <=> i = m
    BY <1>1
  <2> DEFINE marked == {i \in DOMAIN IsLast(n) : IsLast(n)[i]}
  <2>4. marked = {m}
    <3>1. DOMAIN IsLast(n) = 1 .. m /\ \A i \in 1 .. m : IsLast(n)[i] = (i >= n)
      BY <2>2
    <3> HIDE DEF m
    <3>2. \A i : i \in marked <=> i \in 1 .. m /\ i = m
      BY <2>3, <3>1
    <3>3. m \in 1 .. m
      BY <2>1
    <3> QED
      BY <3>2, <3>3
  <2> QED
    BY <2>4, FS_Singleton DEF Lasts
<1> QED
  BY <1>1

LEMMA RepliesSound ==
    ASSUME NEW o \in Served, NEW skipped \in BOOLEAN, NEW n \in Replies(o, skipped)
    PROVE  n = 1 \/ (n = 0 /\ o.answer \in {"failed", "none"})
BY OneLast DEF Replies, Served, OpRecords

-----------------------------------------------------------------------------
(* A step of one task.                                                     *)

Sends(S) == \/ UNCHANGED worker /\ S.via = {}
            \/ \E w \in Workers : Through(w) /\ S.via = Client(w)

Becomes(t, S) == task' = [task EXCEPT ![t] = S]

LEMMA TaskStep ==
    ASSUME WorkerInv, NEW t \in Tasks, NEW S \in TaskRecords, Sound(S), Sends(S), Becomes(t, S),
           tracked' \subseteq tracked \cup {t}, UNCHANGED <<proxy, setting, apart, stream, owed>>
    PROVE  /\ worker' \in [Workers -> WorkerRecords] /\ task' \in [Tasks -> TaskRecords]
           /\ tracked' \subseteq Tasks
           /\ TasksSound' /\ Applied' /\ Stopping' /\ ProxyInUse' /\ TradesTold'
<1>1. worker' \in [Workers -> WorkerRecords]
      /\ \A v \in Workers : /\ worker'[v].proxy = worker[v].proxy
                            /\ worker'[v].client \in {worker[v].client, Client(v)}
  BY ClientsTyped DEF Sends, WorkerInv, Types
<1>2. task' \in [Tasks -> TaskRecords] /\ task'[t] = S
      /\ \A u \in Tasks : u # t => task'[u] = task[u]
  BY DEF Becomes, WorkerInv, Types
<1>3. TasksSound'
  BY <1>2 DEF WorkerInv, TasksSound, Sound
<1>4. \A w \in Workers : Given(w) => Given(w)'
  BY <1>1, ClientsTyped DEF WorkerInv, Given
<1>5. (\A w \in Workers : Given(w)) => S.via \subseteq {proxy}
  BY ClientsTyped DEF Sends, WorkerInv
<1>6. /\ tracked' \subseteq Tasks
      /\ \A u \in tracked' : u # t => u \in tracked
  BY DEF WorkerInv, Types
<1>7. Applied'
  <2> SUFFICES ASSUME apart, NEW c \in Clients, setting[c].at # "idle"
               PROVE  /\ \A d \in Clients : d # c => setting[d].at = "idle"
                      /\ setting[c].at = "closing" =>
                            /\ setting[c].url = proxy
                            /\ \A j \in 1 .. setting[c].next : Given(Crew[j])'
                      /\ setting[c].at \in {"streams", "tasks"} => \A w \in Workers : Given(w)'
                      /\ setting[c].at = "tasks" =>
                            \A u \in tracked' : task'[u].via \subseteq {proxy} \/ u \in setting[c].todo
    BY DEF Applied
  <2>1. \A d \in Clients : d # c => setting[d].at = "idle"
    BY DEF WorkerInv, Applied
  <2>2. ASSUME setting[c].at = "closing"
        PROVE  /\ setting[c].url = proxy
               /\ \A j \in 1 .. setting[c].next : Given(Crew[j])'
    <3>1. setting[c].next \in 1 .. Len(Crew)
      BY DEF WorkerInv, Types, SettingRecords
    <3>2. \A j \in 1 .. setting[c].next : Crew[j] \in Workers
      BY <3>1, CrewFacts
    <3>3. setting[c].url = proxy /\ \A j \in 1 .. setting[c].next : Given(Crew[j])
      BY <2>2 DEF WorkerInv, Applied
    <3> QED
      BY <1>4, <3>2, <3>3
  <2>3. ASSUME setting[c].at \in {"streams", "tasks"}
        PROVE  \A w \in Workers : Given(w) /\ Given(w)'
    BY <1>4, <2>3 DEF WorkerInv, Applied
  <2>4. ASSUME setting[c].at = "tasks", NEW u \in tracked'
        PROVE  task'[u].via \subseteq {proxy} \/ u \in setting[c].todo
    BY <1>2, <1>5, <1>6, <2>3, <2>4 DEF WorkerInv, Applied
  <2> QED
    BY <2>1, <2>2, <2>3, <2>4
<1>8. ProxyInUse'
  <2> SUFFICES ASSUME apart, \A c \in Clients : setting[c].at = "idle"
               PROVE  /\ \A w \in Workers : Given(w)'
                      /\ \A u \in tracked' : task'[u].via \subseteq {proxy}
    BY DEF ProxyInUse, Given
  <2>1. /\ \A w \in Workers : Given(w)
        /\ \A u \in tracked : task[u].via \subseteq {proxy}
    BY DEF WorkerInv, ProxyInUse, Given
  <2> QED
    BY <1>2, <1>4, <1>5, <1>6, <2>1
<1> QED
  BY <1>1, <1>2, <1>3, <1>6, <1>7, <1>8 DEF WorkerInv, Stopping, Streaming, TradesTold

(* Proceed is such a step.                                                 *)
LEMMA ProceedStep ==
    ASSUME Types, NEW t \in Tasks, NEW o \in Served, NEW T \in TaskRecords,
           T.op = {o}, T.due = 1, Proceed(t, T)
    PROVE  \E S \in TaskRecords : /\ Becomes(t, S) /\ Sound(S) /\ Sends(S)
                                  /\ S.phase \in {"ended", "limited", "sent"}
<1>1. (CHOOSE p \in T.op : TRUE) = o
  OBVIOUS
<1>2. o.client \in {"crypto", "tachibana", "own"} /\ o.answer \in {"one", "chunks", "failed", "none"}
  BY DEF Served, OpRecords
<1>3. T.left \in Nat /\ T.skipped \in BOOLEAN
  BY NumbersFacts DEF TaskRecords
<1>4. CASE T.left = 0
  <2>1. PICK n \in Replies(o, T.skipped) :
            task' = [task EXCEPT ![t] = Ended(n, o.answer \in {"failed", "none"})]
    BY <1>1, <1>4 DEF Proceed
  <2>2. UNCHANGED worker
    BY <1>1, <1>4 DEF Proceed
  <2>3. n = 1 \/ (n = 0 /\ o.answer \in {"failed", "none"})
    BY <1>3, RepliesSound
  <2> DEFINE S == Ended(n, o.answer \in {"failed", "none"})
  <2>4. S \in TaskRecords /\ Sound(S) /\ S.via = {} /\ S.phase = "ended"
    <3>1. n \in Int /\ (o.answer \in {"failed", "none"}) \in BOOLEAN
      BY <2>3
    <3> QED
      BY <2>3, <3>1, EndsSound
  <2> HIDE DEF S
  <2> QED
    BY <2>1, <2>2, <2>4 DEF Becomes, Sends, S
<1>5. ASSUME T.left > 0, o.client \in {"crypto", "own"}
      PROVE  \E S \in TaskRecords : /\ Becomes(t, S) /\ Sound(S) /\ Sends(S)
                                    /\ S.phase \in {"ended", "limited", "sent"}
  <2> DEFINE ph == IF o.client = "crypto" THEN "limited" ELSE "sent"
             S == [T EXCEPT !.phase = ph, !.via = {}]
  <2>1. Becomes(t, S) /\ UNCHANGED worker
    <3>1. T.left # 0
      BY <1>3, <1>5
    <3>2. CASE o.client = "crypto"
      <4>1. /\ task' = [task EXCEPT ![t] = [T EXCEPT !.phase = "limited", !.via = {}]]
            /\ UNCHANGED worker
        BY <1>1, <1>5, <3>1, <3>2 DEF Proceed
      <4> QED
        BY <3>2, <4>1 DEF Becomes
    <3>3. CASE o.client = "own"
      <4>1. /\ task' = [task EXCEPT ![t] = [T EXCEPT !.phase = "sent", !.via = {}]]
            /\ UNCHANGED worker
        BY <1>1, <1>5, <3>1, <3>3 DEF Proceed
      <4> QED
        BY <3>3, <4>1 DEF Becomes
    <3> QED
      BY <1>5, <3>2, <3>3
  <2>2. S \in TaskRecords /\ S.via = {} /\ S.phase \in {"limited", "sent"} /\ Sound(S)
    BY <1>3, <1>5 DEF TaskRecords, Sound
  <2> QED
    BY <2>1, <2>2 DEF Sends
<1>6. ASSUME T.left > 0, o.client = "tachibana"
      PROVE  \E S \in TaskRecords : /\ Becomes(t, S) /\ Sound(S) /\ Sends(S)
                                    /\ S.phase \in {"ended", "limited", "sent"}
  <2> DEFINE S == [T EXCEPT !.phase = "sent", !.via = Client("tachibana")]
  <2>1. "tachibana" \in Workers
    BY CrewFacts
  <2>2. Becomes(t, S) /\ Through("tachibana")
    <3>1. T.left # 0
      BY <1>3, <1>6
    <3>2. /\ Through("tachibana")
          /\ task' = [task EXCEPT ![t] = [T EXCEPT !.phase = "sent", !.via = Client("tachibana")]]
      BY <1>1, <1>6, <3>1 DEF Proceed
    <3> QED
      BY <3>2 DEF Becomes
  <2>3. Client("tachibana") \in SUBSET Proxies
    BY <2>1, ClientsTyped
  <2>4. S \in TaskRecords /\ S.via = Client("tachibana") /\ S.phase = "sent" /\ Sound(S)
    BY <1>3, <1>6, <2>3 DEF TaskRecords, Sound
  <2> QED
    BY <2>1, <2>2, <2>4 DEF Sends
<1> QED
  BY <1>2, <1>3, <1>4, <1>5, <1>6

LEMMA ContinueStep ==
    ASSUME Types, NEW t \in Tasks, NEW o \in Served, NEW numbers \in SUBSET Numbers,
           Continue(t, o, numbers)
    PROVE  \E S \in TaskRecords : /\ Becomes(t, S) /\ Sound(S) /\ Sends(S)
                                  /\ S.phase \in {"ended", "limited", "sent"}
<1> DEFINE p == [o EXCEPT !.requests = {}, !.needs = "nothing", !.busy = FALSE]
<1>1. PICK n \in numbers : Proceed(t, [Slot EXCEPT !.op = {p}, !.left = n, !.due = 1])
  BY DEF Continue
<1>2. p \in Served
  BY DEF Served, OpRecords
<1> HIDE DEF p
<1>3. [Slot EXCEPT !.op = {p}, !.left = n, !.due = 1] \in TaskRecords
  <2>1. {p} \in SUBSET Served /\ n \in 0 .. MaxPages + 3 /\ 1 \in Int
    BY <1>1, <1>2 DEF Numbers
  <2> QED
    BY <2>1, SlotTyped DEF TaskRecords
<1>4. [Slot EXCEPT !.op = {p}, !.left = n, !.due = 1].op = {p}
      /\ [Slot EXCEPT !.op = {p}, !.left = n, !.due = 1].due = 1
  BY DEF Slot
<1> QED
  BY <1>1, <1>2, <1>3, <1>4, ProceedStep

(* The queues of the stores when one task takes a step. *)
LEMMA QueuesStep ==
    ASSUME WorkerInv, NEW t \in Tasks, NEW S \in TaskRecords, Becomes(t, S),
           \A k \in Stores : \A u \in Tasks : u # t /\ Has(queue[k], u) => Has(queue'[k], u),
           \A k \in Stores : \A u \in Tasks :
              u # t /\ Has(queue[k], u) /\ queue[k][1] = u /\ ~kept[k] => queue'[k][1] = u /\ ~kept'[k],
           S.phase \in {"queued", "loading"} =>
              \E o \in Served : S.op = {o} /\ Has(queue'[o.needs], t)
                                /\ (S.phase = "loading" => queue'[o.needs][1] = t /\ ~kept'[o.needs])
    PROVE  Queues'
<1>1. task'[t] = S /\ \A u \in Tasks : u # t => task'[u] = task[u]
  BY DEF Becomes, WorkerInv, Types
<1> SUFFICES ASSUME NEW u \in Tasks, NEW k \in Stores,
                    task'[u].phase \in {"queued", "loading"}, Op(u)'.needs = k
             PROVE  /\ Has(queue'[k], u)
                    /\ task'[u].phase = "loading" => queue'[k][1] = u /\ ~kept'[k]
  BY DEF Queues
<1>2. CASE u = t
  <2>1. PICK o \in Served : S.op = {o} /\ Has(queue'[o.needs], t)
                            /\ (S.phase = "loading" => queue'[o.needs][1] = t /\ ~kept'[o.needs])
    BY <1>1, <1>2
  <2>2. Op(u)' = o
    BY <1>1, <1>2, <2>1 DEF Op
  <2> QED
    BY <1>1, <1>2, <2>1, <2>2
<1>3. CASE u # t
  <2>1. Op(u)' = Op(u) /\ task'[u].phase = task[u].phase
    BY <1>1, <1>3 DEF Op
  <2> QED
    BY <1>3, <2>1 DEF WorkerInv, Queues
<1> QED
  BY <1>2, <1>3

LEMMA QueueKept ==
    ASSUME WorkerInv, NEW t \in Tasks, NEW S \in TaskRecords, Becomes(t, S),
           S.phase \notin {"queued", "loading"}, UNCHANGED <<queue, kept>>
    PROVE  Queues'
BY QueuesStep

LEMMA QueueLeft ==
    ASSUME WorkerInv, NEW t \in Tasks, NEW S \in TaskRecords, Becomes(t, S),
           S.phase \notin {"queued", "loading"}, NEW k \in Stores, NEW there \in BOOLEAN,
           Has(queue[k], t), queue[k][1] = t, LeaveStore(t, k, there)
    PROVE  Queues' /\ queue' \in [Stores -> Seq(Tasks)] /\ kept' \in [Stores -> BOOLEAN]
<1>1. queue \in [Stores -> Seq(Tasks)] /\ kept \in [Stores -> BOOLEAN] /\ queue[k] \in Seq(Tasks)
  BY DEF WorkerInv, Types
<1>2. /\ queue'[k] = Tail(queue[k]) /\ \A m \in Stores : m # k => queue'[m] = queue[m] /\ kept'[m] = kept[m]
  BY <1>1 DEF LeaveStore
<1>3. Len(queue[k]) \in Nat /\ Len(queue[k]) >= 1
  BY <1>1, LenProperties DEF Has
<1>4. /\ Tail(queue[k]) \in Seq(Tasks) /\ Len(Tail(queue[k])) = Len(queue[k]) - 1
      /\ \A i \in 1 .. Len(Tail(queue[k])) : Tail(queue[k])[i] = queue[k][i + 1]
  BY <1>1, <1>3, HeadTailProperties
<1>5. ASSUME NEW u \in Tasks, u # t, NEW i \in 1 .. Len(queue[k]), queue[k][i] = u
      PROVE  Has(queue'[k], u)
  <2>1. i - 1 \in 1 .. Len(Tail(queue[k])) /\ i - 1 + 1 = i
    BY <1>3, <1>4, <1>5
  <2>2. Tail(queue[k])[i - 1] = u
    BY <1>4, <1>5, <2>1
  <2> QED
    BY <1>2, <2>1, <2>2 DEF Has
<1>6. ASSUME NEW m \in Stores, NEW u \in Tasks, u # t, Has(queue[m], u)
      PROVE  Has(queue'[m], u)
  <2>1. CASE m = k
    BY <1>5, <1>6, <2>1 DEF Has
  <2>2. CASE m # k
    BY <1>2, <1>6, <2>2
  <2> QED
    BY <2>1, <2>2
<1>7. queue' \in [Stores -> Seq(Tasks)] /\ kept' \in [Stores -> BOOLEAN]
  BY <1>1, <1>4 DEF LeaveStore
<1>8. Queues'
  BY <1>2, <1>6, QueuesStep
<1> QED
  BY <1>7, <1>8

(* What a task that waits for a store, or loads it, is known to have. *)
LEMMA InStore ==
    ASSUME WorkerInv, NEW t \in Tasks, task[t].phase \in {"queued", "loading"}
    PROVE  /\ Op(t) \in Served /\ task[t].op = {Op(t)} /\ Op(t).needs \in Stores
           /\ Op(t).client \in Workers /\ Op(t).requests \in SUBSET Numbers
           /\ Has(queue[Op(t).needs], t)
           /\ task[t].phase = "loading" =>
                 queue[Op(t).needs][1] = t /\ ~kept[Op(t).needs]
<1>1. Sound(task[t])
  BY DEF WorkerInv, TasksSound
<1>2. PICK o \in Served : task[t].op = {o}
  BY <1>1 DEF Sound
<1>3. Op(t) = o
  BY <1>2 DEF Op
<1>4. o.needs \in Stores
  BY <1>1, <1>2 DEF Sound
<1>5. o.client \in Workers /\ o.requests \in SUBSET Numbers
  BY <1>4 DEF Stores, Served, OpRecords, Numbers
<1> QED
  BY <1>2, <1>3, <1>4, <1>5 DEF WorkerInv, Queues

LEMMA SpawnStep == ASSUME WorkerInv, NEW t \in Tasks, Spawn(t) PROVE WorkerInv'
<1> DEFINE S == [Slot EXCEPT !.phase = "new", !.due = 1]
<1>1. Becomes(t, S) /\ UNCHANGED worker /\ tracked' = tracked \cup {t}
  BY DEF Spawn, Becomes
<1>2. S \in TaskRecords /\ S.via = {} /\ S.phase = "new" /\ Sound(S)
  <2>1. S \in TaskRecords /\ S.via = {} /\ S.phase = "new" /\ S.due = 1
    <3>1. S \in TaskRecords
      <4>1. 1 \in Int /\ "new" \in {"new", "queued", "loading", "limited", "sent", "killed", "cancelled", "ended"}
        OBVIOUS
      <4> QED
        BY <4>1, SlotTyped DEF TaskRecords
    <3>2. S.via = {} /\ S.phase = "new" /\ S.due = 1
      BY DEF Slot
    <3> QED
      BY <3>1, <3>2
  <2> HIDE DEF S
  <2> QED
    BY <2>1 DEF Sound
<1> HIDE DEF S
<1>3. UNCHANGED <<proxy, setting, apart, stream, owed, queue, kept>>
  BY DEF Spawn, streamVars
<1>4. /\ worker' \in [Workers -> WorkerRecords] /\ task' \in [Tasks -> TaskRecords]
      /\ TasksSound' /\ Applied' /\ Stopping' /\ ProxyInUse' /\ TradesTold'
  BY <1>1, <1>2, <1>3, TaskStep DEF Sends
<1>5. Queues'
  BY <1>1, <1>2, <1>3, QueueKept
<1> QED
  BY <1>1, <1>3, <1>4, <1>5 DEF WorkerInv, Types

LEMMA RefuseStep ==
    ASSUME WorkerInv, tracked' \subseteq tracked, NEW t \in Tasks, NEW o \in Operations, Refuse(t, o) PROVE WorkerInv'
<1>1. PICK n \in {0, 1} : /\ n = 0 => o.busy
                          /\ Becomes(t, Ended(n, o.busy))
  BY DEF Refuse, Becomes
<1>2. o.busy \in BOOLEAN
  BY OperationsServed DEF Served, OpRecords
<1> DEFINE S == Ended(n, o.busy)
<1>3. S \in TaskRecords /\ S.via = {} /\ S.phase = "ended" /\ Sound(S)
  BY <1>1, <1>2, EndsSound
<1> HIDE DEF S
<1>4. Becomes(t, S) /\ UNCHANGED <<worker, proxy, setting, apart, stream, owed, queue, kept>>
  BY <1>1 DEF Refuse, streamVars, S
<1>5. /\ worker' \in [Workers -> WorkerRecords] /\ task' \in [Tasks -> TaskRecords]
      /\ TasksSound' /\ Applied' /\ Stopping' /\ ProxyInUse' /\ TradesTold'
  BY <1>3, <1>4, TaskStep DEF Sends
<1>6. Queues'
  BY <1>3, <1>4, QueueKept
<1> QED
  BY <1>4, <1>5, <1>6 DEF WorkerInv, Types

LEMMA BeginStep ==
    ASSUME WorkerInv, tracked' \subseteq tracked, NEW t \in Tasks, NEW o \in Operations, Begin(t, o) PROVE WorkerInv'
<1>1. o \in Served /\ o.requests \in SUBSET Numbers
  BY OperationsServed DEF Served, OpRecords, Numbers
<1>2. task[t] \in TaskRecords /\ task[t].phase = "new" /\ Sound(task[t])
  BY DEF Begin, WorkerInv, Types, TasksSound
<1>3. UNCHANGED <<proxy, setting, apart, stream, owed, kept>>
  BY DEF Begin, streamVars
<1>4. CASE o.needs = "archive" \/ (o.needs = "master" /\ ~kept["master"])
  <2> DEFINE S == [task[t] EXCEPT !.op = {o}, !.phase = "queued"]
  <2>1. Becomes(t, S) /\ UNCHANGED worker
    BY <1>4 DEF Begin, Becomes
  <2>2. o.needs \in Stores
    BY <1>4 DEF Stores
  <2>3. S \in TaskRecords /\ S.via = {} /\ S.phase = "queued" /\ S.op = {o} /\ Sound(S)
    <3>1. {o} \in SUBSET Served
      BY <1>1
    <3>2. S \in TaskRecords /\ S.via = {} /\ S.phase = "queued" /\ S.op = {o} /\ S.due = 1
      BY <1>2, <3>1 DEF TaskRecords, Sound
    <3> HIDE DEF S
    <3> QED
      BY <1>1, <2>2, <3>2 DEF Sound
  <2> HIDE DEF S
  <2>4. /\ worker' \in [Workers -> WorkerRecords] /\ task' \in [Tasks -> TaskRecords]
        /\ TasksSound' /\ Applied' /\ Stopping' /\ ProxyInUse' /\ TradesTold'
    BY <1>3, <2>1, <2>3, TaskStep DEF Sends
  <2>5. queue' = [queue EXCEPT ![o.needs] = Append(@, t)] /\ queue \in [Stores -> Seq(Tasks)]
    BY <1>4 DEF Begin, WorkerInv, Types
  <2>6. ASSUME NEW k \in Stores
        PROVE  /\ queue[k] \in Seq(Tasks) /\ queue'[k] \in Seq(Tasks)
               /\ \A u \in Tasks : Has(queue[k], u) => Has(queue'[k], u) /\ queue'[k][1] = queue[k][1]
               /\ k = o.needs => Has(queue'[k], t)
    <3>1. queue[k] \in Seq(Tasks) /\ Len(queue[k]) \in Nat
      BY <2>5, LenProperties
    <3> DEFINE q == queue[k]
               r == Append(q, t)
    <3>2. /\ r \in Seq(Tasks) /\ Len(r) = Len(q) + 1 /\ r[Len(q) + 1] = t
          /\ \A i \in 1 .. Len(q) : r[i] = q[i]
      BY <3>1, AppendProperties
    <3>3. \A u \in Tasks : Has(q, u) => Has(r, u) /\ r[1] = q[1]
      <4> SUFFICES ASSUME NEW u \in Tasks, NEW i \in 1 .. Len(q), q[i] = u
                   PROVE  Has(r, u) /\ r[1] = q[1]
        BY DEF Has
      <4>1. i \in 1 .. Len(r) /\ 1 \in 1 .. Len(q) /\ r[i] = u
        BY <3>1, <3>2
      <4> QED
        BY <3>2, <4>1 DEF Has
    <3>4. Has(r, t)
      <4>1. Len(q) + 1 \in 1 .. Len(r)
        BY <3>1, <3>2
      <4> QED
        BY <3>2, <4>1 DEF Has
    <3>5. queue'[k] = IF k = o.needs THEN r ELSE q
      BY <2>5
    <3> HIDE DEF q, r
    <3> QED
      BY <3>1, <3>2, <3>3, <3>4, <3>5 DEF q
  <2>7. queue' \in [Stores -> Seq(Tasks)]
    BY <2>2, <2>5, <2>6
  <2>8. Queues'
    <3>1. \E p \in Served : S.op = {p} /\ Has(queue'[p.needs], t)
                            /\ (S.phase = "loading" => queue'[p.needs][1] = t /\ ~kept'[p.needs])
      BY <1>1, <2>2, <2>3, <2>6
    <3> QED
      BY <1>3, <2>1, <2>3, <2>6, <3>1, QueuesStep
  <2> QED
    BY <1>3, <2>4, <2>7, <2>8 DEF WorkerInv, Types
<1>5. CASE ~(o.needs = "archive" \/ (o.needs = "master" /\ ~kept["master"]))
  <2>1. Continue(t, o, o.requests) /\ UNCHANGED queue
    BY <1>5 DEF Begin
  <2>2. PICK S \in TaskRecords : /\ Becomes(t, S) /\ Sound(S) /\ Sends(S)
                                 /\ S.phase \in {"ended", "limited", "sent"}
    BY <1>1, <2>1, ContinueStep DEF WorkerInv
  <2>3. /\ worker' \in [Workers -> WorkerRecords] /\ task' \in [Tasks -> TaskRecords]
        /\ TasksSound' /\ Applied' /\ Stopping' /\ ProxyInUse' /\ TradesTold'
    BY <1>3, <2>2, TaskStep
  <2>4. Queues'
    BY <1>3, <2>1, <2>2, QueueKept
  <2> QED
    BY <1>3, <2>1, <2>3, <2>4 DEF WorkerInv, Types
<1> QED
  BY <1>4, <1>5

(* A task leaves its store and goes on. *)
LEMMA LeaveStep ==
    ASSUME WorkerInv, tracked' \subseteq tracked, NEW t \in Tasks, task[t].phase \in {"queued", "loading"},
           queue[Op(t).needs][1] = t, NEW there \in BOOLEAN, LeaveStore(t, Op(t).needs, there),
           NEW S \in TaskRecords, Becomes(t, S), Sound(S), Sends(S),
           S.phase \in {"ended", "limited", "sent"},
           UNCHANGED <<proxy, setting, apart, stream, owed>>
    PROVE  WorkerInv'
<1>1. /\ worker' \in [Workers -> WorkerRecords] /\ task' \in [Tasks -> TaskRecords]
      /\ TasksSound' /\ Applied' /\ Stopping' /\ ProxyInUse' /\ TradesTold'
  BY TaskStep
<1>2. Queues' /\ queue' \in [Stores -> Seq(Tasks)] /\ kept' \in [Stores -> BOOLEAN]
  BY InStore, QueueLeft
<1> QED
  BY <1>1, <1>2 DEF WorkerInv, Types

LEMMA UseStoreStep ==
    ASSUME WorkerInv, NEW t \in Tasks, task[t].phase \in {"queued", "loading"}, UseStore(t)
    PROVE  \E S \in TaskRecords : /\ Becomes(t, S) /\ Sound(S) /\ Sends(S)
                                  /\ S.phase \in {"ended", "limited", "sent"}
<1>1. Op(t) \in Served /\ Op(t).requests \in SUBSET Numbers /\ {0} \in SUBSET Numbers
  BY InStore, CallNumbers
<1>2. Continue(t, Op(t), {0}) \/ Continue(t, Op(t), Op(t).requests)
  BY DEF UseStore
<1> QED
  BY <1>1, <1>2, ContinueStep DEF WorkerInv

LEMMA EnterStoreStep ==
    ASSUME WorkerInv, tracked' \subseteq tracked, NEW t \in Tasks, EnterStore(t) PROVE WorkerInv'
<1> DEFINE o == Op(t)
           k == Op(t).needs
<1>1. task[t].phase = "queued" /\ Head(queue[k]) = t
      /\ UNCHANGED <<proxy, setting, apart, stream, owed>>
  BY DEF EnterStore, streamVars
<1>2. /\ o \in Served /\ task[t].op = {o} /\ k \in Stores /\ o.client \in Workers
      /\ Has(queue[k], t)
  BY <1>1, InStore
<1>3. queue[k][1] = t
  BY <1>1
<1> HIDE DEF o, k
<1>4. CASE LeaveStore(t, k, TRUE) /\ UseStore(t)
  <2>1. PICK S \in TaskRecords : /\ Becomes(t, S) /\ Sound(S) /\ Sends(S)
                                 /\ S.phase \in {"ended", "limited", "sent"}
    BY <1>1, <1>4, UseStoreStep
  <2> QED
    BY <1>1, <1>3, <1>4, <2>1, LeaveStep DEF k
<1>5. ASSUME ~kept[k], Through(o.client),
             task' = [task EXCEPT ![t].phase = "loading", ![t].via = Client(o.client)],
             UNCHANGED <<bucket, queue, kept>>
      PROVE  WorkerInv'
  <2> DEFINE S == [task[t] EXCEPT !.phase = "loading", !.via = Client(o.client)]
  <2>1. Becomes(t, S)
    BY <1>5 DEF Becomes
  <2>2. task[t] \in TaskRecords /\ Sound(task[t])
    BY DEF WorkerInv, Types, TasksSound
  <2>3. Client(o.client) \in SUBSET Proxies
    BY <1>2, ClientsTyped DEF WorkerInv
  <2>4. /\ S \in TaskRecords /\ S.phase = "loading" /\ S.via = Client(o.client) /\ S.op = {o}
        /\ S.due = 1
    BY <1>1, <1>2, <2>2, <2>3 DEF TaskRecords, Sound
  <2> HIDE DEF S
  <2>5. Sound(S)
    BY <1>2, <2>4 DEF Sound, k, o
  <2>6. Sends(S)
    BY <1>2, <1>5, <2>4 DEF Sends
  <2>7. /\ worker' \in [Workers -> WorkerRecords] /\ task' \in [Tasks -> TaskRecords]
        /\ TasksSound' /\ Applied' /\ Stopping' /\ ProxyInUse' /\ TradesTold'
    BY <1>1, <2>1, <2>4, <2>5, <2>6, TaskStep
  <2>8. Queues'
    <3>1. o.needs = k
      BY DEF o, k
    <3>2. \E p \in Served : S.op = {p} /\ Has(queue'[p.needs], t)
                            /\ (S.phase = "loading" => queue'[p.needs][1] = t /\ ~kept'[p.needs])
      BY <1>2, <1>3, <1>5, <2>4, <3>1
    <3> QED
      BY <1>5, <2>1, <2>4, <3>2, QueuesStep
  <2> QED
    BY <1>1, <1>5, <2>7, <2>8 DEF WorkerInv, Types
<1> QED
  BY <1>4, <1>5 DEF EnterStore, o, k

LEMMA LoadStep ==
    ASSUME WorkerInv, tracked' \subseteq tracked, NEW t \in Tasks, LoadDone(t) \/ LoadFailed(t) PROVE WorkerInv'
<1>1. task[t].phase = "loading" /\ UNCHANGED <<proxy, setting, apart, stream, owed>>
  BY DEF LoadDone, LoadFailed, streamVars
<1>2. /\ Op(t) \in Served /\ Op(t).needs \in Stores /\ Op(t).requests \in SUBSET Numbers
      /\ queue[Op(t).needs][1] = t
  BY <1>1, InStore
<1>3. CASE LoadDone(t)
  <2>1. LeaveStore(t, Op(t).needs, TRUE) /\ UseStore(t)
    BY <1>3 DEF LoadDone
  <2>2. PICK S \in TaskRecords : /\ Becomes(t, S) /\ Sound(S) /\ Sends(S)
                                 /\ S.phase \in {"ended", "limited", "sent"}
    BY <1>1, <2>1, UseStoreStep
  <2> QED
    BY <1>1, <1>2, <2>1, <2>2, LeaveStep
<1>4. CASE LoadFailed(t)
  <2>1. kept[Op(t).needs] \in BOOLEAN /\ LeaveStore(t, Op(t).needs, kept[Op(t).needs])
    BY <1>2, <1>4 DEF LoadFailed, WorkerInv, Types
  <2>2. \E S \in TaskRecords : /\ Becomes(t, S) /\ Sound(S) /\ Sends(S)
                               /\ S.phase \in {"ended", "limited", "sent"}
    <3>1. CASE Op(t).needs = "archive"
      BY <1>2, <1>4, <3>1, ContinueStep DEF LoadFailed, WorkerInv
    <3>2. CASE Op(t).needs # "archive"
      <4>1. task' = [task EXCEPT ![t] = Ended(1, FALSE)] /\ UNCHANGED worker
        BY <1>4, <3>2 DEF LoadFailed
      <4>2. Ended(1, FALSE) = [Slot EXCEPT !.due = 0]
        BY DEF Ended
      <4> QED
        BY <4>1, <4>2, EndSound DEF Becomes, Sends
    <3> QED
      BY <3>1, <3>2
  <2>3. PICK S \in TaskRecords : /\ Becomes(t, S) /\ Sound(S) /\ Sends(S)
                                 /\ S.phase \in {"ended", "limited", "sent"}
    BY <2>2
  <2> QED
    BY <1>1, <1>2, <2>1, <2>3, LeaveStep
<1> QED
  BY <1>3, <1>4

(* A task that goes on without a store. *)
LEMMA GoesOn ==
    ASSUME WorkerInv, tracked' \subseteq tracked, NEW t \in Tasks,
           NEW S \in TaskRecords, Becomes(t, S), Sound(S), Sends(S),
           S.phase \in {"ended", "limited", "sent"},
           UNCHANGED <<proxy, setting, apart, queue, kept, stream, owed>>
    PROVE  WorkerInv'
<1>1. /\ worker' \in [Workers -> WorkerRecords] /\ task' \in [Tasks -> TaskRecords]
      /\ TasksSound' /\ Applied' /\ Stopping' /\ ProxyInUse' /\ TradesTold'
  BY TaskStep
<1>2. Queues'
  BY QueueKept
<1> QED
  BY <1>1, <1>2 DEF WorkerInv, Types

LEMMA AcquiredStep ==
    ASSUME WorkerInv, tracked' \subseteq tracked, NEW t \in Tasks, Acquired(t) PROVE WorkerInv'
<1> DEFINE S == [task[t] EXCEPT !.phase = "sent", !.via = Client("crypto")]
<1>1. Becomes(t, S) /\ Through("crypto")
  BY DEF Acquired, Becomes
<1>2. task[t] \in TaskRecords /\ Sound(task[t]) /\ task[t].phase = "limited"
  BY DEF Acquired, WorkerInv, Types, TasksSound
<1>3. "crypto" \in Workers /\ Client("crypto") \in SUBSET Proxies
  BY CrewFacts, ClientsTyped DEF WorkerInv
<1>4. /\ S \in TaskRecords /\ S.phase = "sent" /\ S.via = Client("crypto") /\ S.op = task[t].op
      /\ S.due = 1 /\ S.left > 0
  BY <1>2, <1>3 DEF TaskRecords, Sound
<1> HIDE DEF S
<1>5. Sound(S)
  BY <1>2, <1>4 DEF Sound
<1>6. UNCHANGED <<proxy, setting, apart, queue, kept, stream, owed>>
  BY DEF Acquired, streamVars
<1> QED
  BY <1>1, <1>3, <1>4, <1>5, <1>6, GoesOn DEF Sends

LEMMA AnswerStep ==
    ASSUME WorkerInv, tracked' \subseteq tracked, NEW t \in Tasks, ResponseArrives(t) \/ RequestFails(t) PROVE WorkerInv'
<1>1. task[t].phase = "sent" /\ UNCHANGED <<proxy, setting, apart, queue, kept, stream, owed>>
  BY DEF ResponseArrives, RequestFails, streamVars
<1>2. task[t] \in TaskRecords /\ Sound(task[t])
  BY DEF WorkerInv, Types, TasksSound
<1>3. PICK o \in Served : task[t].op = {o}
  BY <1>1, <1>2 DEF Sound
<1>4. Op(t) = o /\ o.skips \in BOOLEAN /\ o.answer \in {"one", "chunks", "failed", "none"}
  BY <1>3 DEF Op, Served, OpRecords
<1>5. task[t].left \in 1 .. MaxPages + 3 /\ task[t].left - 1 \in 0 .. MaxPages + 3 /\ task[t].due = 1
  BY <1>1, <1>2, NumbersFacts DEF Sound, TaskRecords
<1>6. CASE ResponseArrives(t)
  <2> DEFINE T == [task[t] EXCEPT !.left = @ - 1, !.via = {}, !.later = Op(t).skips]
  <2>1. Proceed(t, T)
    BY <1>6 DEF ResponseArrives
  <2>2. T \in TaskRecords /\ T.op = {o} /\ T.due = 1
    BY <1>2, <1>3, <1>4, <1>5 DEF TaskRecords
  <2> HIDE DEF T
  <2>3. PICK S \in TaskRecords : /\ Becomes(t, S) /\ Sound(S) /\ Sends(S)
                                 /\ S.phase \in {"ended", "limited", "sent"}
    BY <2>1, <2>2, ProceedStep DEF WorkerInv
  <2> QED
    BY <1>1, <2>3, GoesOn
<1>7. CASE RequestFails(t)
  <2>1. CASE \E n \in {0, 1} : /\ n = 0 => o.answer = "none"
                               /\ task' = [task EXCEPT ![t] = Ended(n, o.answer = "none")]
                               /\ UNCHANGED worker
    <3>1. PICK n \in {0, 1} : /\ n = 0 => o.answer = "none"
                              /\ task' = [task EXCEPT ![t] = Ended(n, o.answer = "none")]
                              /\ UNCHANGED worker
      BY <2>1
    <3> DEFINE S == Ended(n, o.answer = "none")
    <3>2. S \in TaskRecords /\ S.via = {} /\ S.phase = "ended" /\ Sound(S)
      <4>1. S = [Slot EXCEPT !.due = 0]
        BY <3>1 DEF Ended
      <4> HIDE DEF S
      <4> QED
        BY <4>1, EndSound
    <3> HIDE DEF S
    <3>3. Becomes(t, S) /\ Sends(S)
      BY <3>1, <3>2 DEF Becomes, Sends, S
    <3> QED
      BY <1>1, <3>2, <3>3, GoesOn
  <2> DEFINE T == [task[t] EXCEPT !.left = @ - 1, !.via = {}, !.skipped = o.answer = "failed"]
  <2>2. CASE Proceed(t, T)
    <3>1. T \in TaskRecords /\ T.op = {o} /\ T.due = 1
      BY <1>2, <1>3, <1>4, <1>5 DEF TaskRecords
    <3> HIDE DEF T
    <3>2. PICK S \in TaskRecords : /\ Becomes(t, S) /\ Sound(S) /\ Sends(S)
                                   /\ S.phase \in {"ended", "limited", "sent"}
      BY <2>2, <3>1, ProceedStep DEF WorkerInv
    <3> QED
      BY <1>1, <3>2, GoesOn
  <2> QED
    BY <1>4, <1>7, <2>1, <2>2 DEF RequestFails
<1> QED
  BY <1>6, <1>7

LEMMA EndsCancelledStep ==
    ASSUME WorkerInv, tracked' \subseteq tracked, NEW t \in Tasks, EndsCancelled(t) PROVE WorkerInv'
<1> DEFINE S == IF task[t].phase = "killed" THEN Ended(0, TRUE) ELSE Ended(1, FALSE)
<1>1. Becomes(t, S) /\ UNCHANGED <<proxy, worker, setting, apart, kept, stream, owed>>
      /\ queue' = [k \in Stores |-> Without(queue[k], t)]
  BY DEF EndsCancelled, Becomes, streamVars
<1>2. S \in TaskRecords /\ S.via = {} /\ S.phase = "ended" /\ Sound(S)
  <2>1. S = [Slot EXCEPT !.due = 0]
    BY DEF Ended
  <2> QED
    BY <2>1, EndSound
<1> HIDE DEF S
<1>3. /\ worker' \in [Workers -> WorkerRecords] /\ task' \in [Tasks -> TaskRecords]
      /\ TasksSound' /\ Applied' /\ Stopping' /\ ProxyInUse' /\ TradesTold'
  BY <1>1, <1>2, TaskStep DEF Sends
<1>4. ASSUME NEW k \in Stores
      PROVE  /\ queue'[k] \in Seq(Tasks)
             /\ \A u \in Tasks : u # t /\ Has(queue[k], u) => Has(queue'[k], u)
             /\ \A u \in Tasks : u # t /\ Has(queue[k], u) /\ queue[k][1] = u => queue'[k][1] = u
  <2>1. queue[k] \in Seq(Tasks) /\ queue'[k] = Without(queue[k], t)
    BY <1>1 DEF WorkerInv, Types
  <2>2. \A u \in Tasks : Has(queue[k], u) => Len(queue[k]) > 0
    BY <2>1, LenProperties DEF Has
  <2> QED
    BY <2>1, <2>2, WithoutKeeps
<1>5. queue' \in [Stores -> Seq(Tasks)]
  BY <1>1, <1>4
<1>6. Queues'
  BY <1>1, <1>2, <1>4, QueuesStep
<1> QED
  BY <1>1, <1>3, <1>5, <1>6 DEF WorkerInv, Types

LEMMA TasksStep == ASSUME WorkerInv, NEW t \in Tasks, TaskSteps(t) PROVE WorkerInv'
<1>1. tracked' \subseteq tracked
  BY DEF TaskSteps, Discards
<1> QED
  BY <1>1, RefuseStep, BeginStep, EnterStoreStep, LoadStep, AcquiredStep, AnswerStep,
     EndsCancelledStep DEF TaskSteps

LEMMA InvalidateStep == ASSUME WorkerInv, InvalidateMaster PROVE WorkerInv'
<1>1. /\ UNCHANGED <<proxy, worker, setting, apart, tracked, task, queue, stream, owed>>
      /\ kept' = [kept EXCEPT !["master"] = FALSE] /\ kept \in [Stores -> BOOLEAN]
  BY DEF InvalidateMaster, streamVars, WorkerInv, Types
<1>2. kept' \in [Stores -> BOOLEAN] /\ \A k \in Stores : ~kept[k] => ~kept'[k]
  BY <1>1
<1>3. Queues'
  BY <1>1, <1>2 DEF WorkerInv, Queues, Op
<1> QED
  BY <1>1, <1>2, <1>3 DEF WorkerInv, Types, TasksSound, Sound, Applied, Given, Stopping, Streaming,
     ProxyInUse, TradesTold

-----------------------------------------------------------------------------
(* The stream.                                                             *)

LEMMA StreamStep ==
    ASSUME WorkerInv, stream' \in StreamRecords, owed' \in -MaxTrades .. MaxTrades,
           TradesTold', Stopping', UNCHANGED <<proxy, worker, setting, apart, requestVars>>
    PROVE  WorkerInv'
<1>1. UNCHANGED <<task, tracked, bucket, queue, kept>>
  BY DEF requestVars
<1>2. TasksSound' /\ Queues'
  BY <1>1 DEF WorkerInv, TasksSound, Sound, Queues, Op
<1>3. Applied' /\ ProxyInUse'
  BY <1>1 DEF WorkerInv, Applied, Given, ProxyInUse
<1> QED
  BY <1>1, <1>2, <1>3 DEF WorkerInv, Types

LEMMA ClosedTyped == Closed \in StreamRecords /\ Closed.phase = "ended"
<1>1. 0 \in 0 .. MaxTrades /\ 0 \in Int
  BY WorkerAssumption
<1> QED
  BY <1>1 DEF Closed, StreamRecords, StreamFields

LEMMA AfterTyped ==
    ASSUME NEW s \in StreamRecords
    PROVE  /\ Again(s) \in StreamRecords /\ Again(s).phase \in {"ended", "connecting"}
           /\ s.stop => Again(s).phase = "ended"
           /\ Again(s).phase = "ended" \/ Again(s).stop = s.stop
           /\ s.batch = 0 => AfterFinally(s) \in StreamRecords
           /\ AfterFinally(s).phase \in {"ended", "connecting", "waiting"}
           /\ AfterFinally(s).phase = "ended" \/ AfterFinally(s).stop = s.stop
           /\ s.stop => AfterFinally(s).phase = "ended"
<1> DEFINE r == Connecting(s)
           w == [s EXCEPT !.phase = "waiting", !.cause = "over"]
<1>1. 0 \in 0 .. MaxTrades
  BY WorkerAssumption
<1>2. r \in StreamRecords /\ r.phase = "connecting" /\ r.stop = s.stop
  BY <1>1 DEF Connecting, StreamRecords, StreamFields
<1>3. (s.batch = 0 => w \in StreamRecords) /\ w.phase = "waiting" /\ w.stop = s.stop
  BY DEF StreamRecords, StreamFields
<1>4. Again(s) = IF s.stop THEN Closed ELSE r
  BY DEF Again
<1>5. s.cause \in {"over", "failed", "cancelled"}
  BY DEF StreamRecords, StreamFields
<1>6. /\ s.cause = "over" => AfterFinally(s) = Again(s)
      /\ s.cause = "failed" => AfterFinally(s) = IF s.stop THEN Closed ELSE w
      /\ s.cause = "cancelled" => AfterFinally(s) = Closed
  BY DEF AfterFinally
<1> HIDE DEF r, w
<1> QED
  BY <1>2, <1>3, <1>4, <1>5, <1>6, ClosedTyped

(* The end of a connection, or of a helper of it. *)
LEMMA LeavesStep ==
    ASSUME WorkerInv, stream.phase \in {"open", "closing"}, NEW s \in StreamRecords,
           s.batch = stream.batch, s.stop = stream.stop, Leave(s)
    PROVE  WorkerInv' /\ (stream'.phase = "connecting" => ~stream.stop /\ Streaming)
<1>0. Streaming
  BY DEF Streaming
<1>1. owed = stream.batch /\ stream.batch \in 0 .. MaxTrades /\ owed \in -MaxTrades .. MaxTrades
  BY DEF WorkerInv, TradesTold, Types, StreamRecords, StreamFields
<1>2. \A c \in Clients : setting[c].at = "streams" => stream.stop
  BY DEF WorkerInv, Stopping, Streaming
<1>3. 0 \in -MaxTrades .. MaxTrades /\ 0 \in 0 .. MaxTrades
  BY WorkerAssumption
<1>4. CASE s.helpers = 0
  <2> DEFINE r == [s EXCEPT !.batch = 0]
             z == AfterFinally(r)
  <2>1. owed' = owed - stream.batch /\ Stream(z)
    BY <1>4 DEF Leave, Flush
  <2>2. r \in StreamRecords /\ r.stop = stream.stop /\ r.batch = 0
    BY <1>3 DEF StreamRecords, StreamFields
  <2>3. /\ z \in StreamRecords /\ z.phase \in {"ended", "connecting", "waiting"}
        /\ stream.stop => z.phase = "ended"
    BY <2>2, AfterTyped
  <2> HIDE DEF z
  <2>4. owed' = 0 /\ stream' = z /\ UNCHANGED <<proxy, worker, setting, apart, requestVars>>
    BY <1>1, <2>1 DEF Stream
  <2>5. TradesTold' /\ Stopping'
    BY <1>2, <2>3, <2>4 DEF TradesTold, Stopping, Streaming
  <2> QED
    BY <1>0, <1>3, <2>3, <2>4, <2>5, StreamStep
<1>5. CASE s.helpers # 0
  <2> DEFINE z == [s EXCEPT !.phase = "closing"]
  <2>1. Stream(z) /\ owed' = owed
    BY <1>5 DEF Leave
  <2>2. z \in StreamRecords /\ z.stop = stream.stop /\ z.batch = stream.batch /\ z.phase = "closing"
    BY DEF StreamRecords, StreamFields
  <2> HIDE DEF z
  <2>3. stream' = z /\ UNCHANGED <<proxy, worker, setting, apart, requestVars>>
    BY <2>1 DEF Stream
  <2>4. TradesTold' /\ Stopping'
    BY <1>1, <1>2, <2>1, <2>2, <2>3 DEF TradesTold, Stopping, Streaming
  <2> QED
    BY <1>1, <2>1, <2>2, <2>3, <2>4, StreamStep
<1> QED
  BY <1>4, <1>5

(* A step of the stream that leaves its stop event alone. *)
LEMMA MovesStep ==
    ASSUME WorkerInv, NEW z \in StreamRecords, z.phase = "ended" \/ z.stop = stream.stop, Streaming,
           Stream(z), owed' \in -MaxTrades .. MaxTrades,
           owed' = IF z.phase \in {"open", "closing"} THEN z.batch ELSE 0
    PROVE  WorkerInv'
<1>1. stream' = z /\ UNCHANGED <<proxy, worker, setting, apart, requestVars>>
  BY DEF Stream
<1>2. TradesTold' /\ Stopping'
  BY <1>1 DEF WorkerInv, TradesTold, Stopping, Streaming
<1> QED
  BY <1>1, <1>2, StreamStep

LEMMA ConnectsStep ==
    ASSUME WorkerInv, Connect \/ Connected \/ ConnectFails \/ FlushPeriodically \/ Frame
    PROVE  WorkerInv' /\ (stream'.phase = "connecting" /\ stream.phase # "connecting" => ~stream.stop /\ Streaming)
<1>1. /\ stream \in StreamRecords /\ owed \in -MaxTrades .. MaxTrades
      /\ owed = IF stream.phase \in {"open", "closing"} THEN stream.batch ELSE 0
  BY DEF WorkerInv, Types, TradesTold
<1>2. 0 \in -MaxTrades .. MaxTrades /\ 0 \in 0 .. MaxTrades /\ MaxTrades \in Nat
  BY WorkerAssumption
<1>3. CASE Connect
  <2>1. Stream(Again(stream)) /\ owed' = 0 /\ Streaming
    BY <1>1, <1>3 DEF Connect, Streaming
  <2>2. /\ Again(stream) \in StreamRecords /\ Again(stream).phase \in {"ended", "connecting"}
        /\ stream.stop => Again(stream).phase = "ended"
        /\ Again(stream).phase = "ended" \/ Again(stream).stop = stream.stop
    BY <1>1, AfterTyped
  <2>3. WorkerInv'
    BY <1>2, <2>1, <2>2, MovesStep
  <2> QED
    BY <2>1, <2>2, <2>3 DEF Stream
<1>4. CASE Connected
  <2>1. PICK n \in TradeHelpers \cup KlineHelpers : Stream([stream EXCEPT !.phase = "open", !.helpers = n])
    BY <1>4 DEF Connected
  <2>2. n \in Int
    BY DEF TradeHelpers, KlineHelpers, BinanceTradeHelpers, BybitTradeHelpers, OkexTradeHelpers,
       HyperliquidTradeHelpers, MexcTradeHelpers, BinanceKlineHelpers, BybitKlineHelpers,
       OkexKlineHelpers, HyperliquidKlineHelpers, MexcKlineHelpers
  <2> DEFINE z == [stream EXCEPT !.phase = "open", !.helpers = n]
  <2>3. z \in StreamRecords /\ z.phase = "open" /\ z.stop = stream.stop /\ z.batch = stream.batch
    BY <1>1, <2>2 DEF StreamRecords, StreamFields
  <2> HIDE DEF z
  <2>4. Stream(z) /\ stream.phase = "connecting" /\ owed' = owed /\ owed = 0 /\ Streaming
    BY <1>1, <1>4, <2>1 DEF Connected, Streaming, z
  <2>5. stream.batch = 0
    BY <1>1, <2>4 DEF StreamRecords
  <2> QED
    BY <1>1, <1>2, <2>3, <2>4, <2>5, MovesStep DEF Stream
<1>5. CASE ConnectFails
  <2> DEFINE z == [stream EXCEPT !.phase = "waiting"]
  <2>1. z \in StreamRecords /\ z.phase = "waiting" /\ z.stop = stream.stop
    BY <1>1, <1>5 DEF StreamRecords, StreamFields, ConnectFails
  <2>2. Stream(z) /\ owed' = 0 /\ Streaming
    BY <1>1, <1>5 DEF ConnectFails, Streaming
  <2> HIDE DEF z
  <2> QED
    BY <1>2, <2>1, <2>2, MovesStep DEF Stream
<1>6. CASE FlushPeriodically
  <2> DEFINE z == [stream EXCEPT !.batch = 0]
  <2>1. z \in StreamRecords /\ z.phase = "open" /\ z.stop = stream.stop /\ z.batch = 0
    BY <1>1, <1>2, <1>6 DEF StreamRecords, StreamFields, FlushPeriodically
  <2>2. Stream(z) /\ owed' = 0 /\ Streaming
    <3>1. Stream(z) /\ owed' = owed - stream.batch /\ stream.phase = "open"
      BY <1>6 DEF FlushPeriodically, Flush
    <3>2. owed = stream.batch
      BY <1>1, <3>1
    <3> QED
      BY <1>1, <3>1, <3>2 DEF Streaming, StreamRecords, StreamFields
  <2> HIDE DEF z
  <2> QED
    BY <1>2, <2>1, <2>2, MovesStep DEF Stream
<1>7. CASE Frame
  <2> DEFINE z == [stream EXCEPT !.batch = @ + 1]
  <2>1. stream.phase = "open" /\ stream.batch < MaxTrades /\ Stream(z) /\ owed' = owed + 1
    BY <1>7 DEF Frame
  <2>2. stream.batch \in 0 .. MaxTrades /\ owed = stream.batch
    BY <1>1, <2>1 DEF StreamRecords, StreamFields
  <2>3. stream.batch + 1 \in 0 .. MaxTrades /\ owed + 1 \in -MaxTrades .. MaxTrades
    BY <1>2, <2>1, <2>2
  <2>4. /\ z \in StreamRecords /\ z.phase = "open" /\ z.stop = stream.stop
        /\ z.batch = stream.batch + 1
    BY <1>1, <2>1, <2>3 DEF StreamRecords, StreamFields
  <2> HIDE DEF z
  <2> QED
    BY <2>1, <2>2, <2>3, <2>4, MovesStep DEF Stream, Streaming
<1> QED
  BY <1>3, <1>4, <1>5, <1>6, <1>7

LEMMA EndingsStep ==
    ASSUME WorkerInv, ConnectionEnds \/ HelperEnds \/ StreamCancelled
    PROVE  WorkerInv' /\ (stream'.phase = "connecting" => ~stream.stop /\ Streaming)
<1>1. stream \in StreamRecords /\ stream.helpers \in Int
  BY DEF WorkerInv, Types, StreamRecords, StreamFields
<1>2. CASE ConnectionEnds
  <2>1. PICK cause \in {"over", "failed"} : Leave([stream EXCEPT !.cause = cause])
    BY <1>2 DEF ConnectionEnds
  <2> DEFINE s == [stream EXCEPT !.cause = cause]
  <2>2. s \in StreamRecords /\ s.batch = stream.batch /\ s.stop = stream.stop
    BY <1>1 DEF StreamRecords, StreamFields
  <2> HIDE DEF s
  <2> QED
    BY <1>2, <2>1, <2>2, LeavesStep DEF ConnectionEnds, s
<1>3. CASE HelperEnds
  <2> DEFINE s == [stream EXCEPT !.helpers = @ - 1, !.cancel = FALSE]
  <2>1. s \in StreamRecords /\ s.batch = stream.batch /\ s.stop = stream.stop
    <3>1. stream.helpers - 1 \in Int
      BY <1>1
    <3> QED
      BY <1>1, <3>1 DEF StreamRecords, StreamFields
  <2>2. Leave(s) /\ stream.phase = "closing"
    BY <1>3 DEF HelperEnds
  <2> HIDE DEF s
  <2> QED
    BY <2>1, <2>2, LeavesStep
<1>4. CASE StreamCancelled /\ stream.phase = "open"
  <2> DEFINE s == [stream EXCEPT !.cause = "cancelled", !.cancel = FALSE]
  <2>1. s \in StreamRecords /\ s.batch = stream.batch /\ s.stop = stream.stop
    BY <1>1 DEF StreamRecords, StreamFields
  <2>2. Leave(s)
    BY <1>4 DEF StreamCancelled
  <2> HIDE DEF s
  <2> QED
    BY <1>4, <2>1, <2>2, LeavesStep
<1>5. CASE StreamCancelled /\ stream.phase # "open"
  <2>1. stream.phase \in {"new", "connecting", "waiting"} /\ Stream(Closed) /\ owed' = owed
    BY <1>5 DEF StreamCancelled
  <2>2. owed' = 0 /\ 0 \in -MaxTrades .. MaxTrades
    BY <2>1, WorkerAssumption DEF WorkerInv, TradesTold
  <2> QED
    BY <2>1, <2>2, ClosedTyped, MovesStep DEF Streaming, Stream
<1> QED
  BY <1>2, <1>3, <1>4, <1>5

LEMMA OpenStreamStep == ASSUME WorkerInv, OpenStream PROVE WorkerInv' /\ stream'.phase = "new"
<1> DEFINE z == [Closed EXCEPT !.phase = "new"]
<1>1. z \in StreamRecords /\ z.phase = "new"
  BY ClosedTyped DEF StreamRecords, StreamFields
<1>2. stream' = z /\ UNCHANGED <<proxy, worker, setting, apart, requestVars, owed>>
  BY DEF OpenStream
<1> HIDE DEF z
<1>3. owed' = 0 /\ owed' \in -MaxTrades .. MaxTrades
  BY <1>2 DEF OpenStream, WorkerInv, TradesTold, Types, Streaming
<1>4. TradesTold' /\ Stopping'
  BY <1>1, <1>2, <1>3 DEF OpenStream, TradesTold, Stopping
<1> QED
  BY <1>1, <1>2, <1>3, <1>4, StreamStep

-----------------------------------------------------------------------------
(* SetProxy.                                                               *)

LEMMA IdleTyped ==
    /\ Idle \in SettingRecords /\ Idle.at = "idle" /\ Idle.todo = {} /\ Idle.awaits = {}
    /\ [Idle EXCEPT !.at = "streams"] \in SettingRecords
    /\ \A url \in Proxies : \A j \in 1 .. 2 :
          [Idle EXCEPT !.at = "closing", !.url = url, !.next = j] \in SettingRecords
    /\ \A S \in SUBSET Tasks : [Idle EXCEPT !.at = "tasks", !.todo = S] \in SettingRecords
<1>1. "direct" \in Proxies /\ 1 .. Len(Crew) = 1 .. 2
  BY WorkerAssumption, CrewFacts
<1> QED
  <2>1. Idle \in SettingRecords
    BY <1>1 DEF Idle, SettingRecords
  <2>2. Idle.at = "idle" /\ Idle.todo = {} /\ Idle.awaits = {}
    BY DEF Idle
  <2>3. [Idle EXCEPT !.at = "streams"] \in SettingRecords
    BY <2>1 DEF SettingRecords
  <2>4. ASSUME NEW url \in Proxies, NEW j \in 1 .. 2
        PROVE  [Idle EXCEPT !.at = "closing", !.url = url, !.next = j] \in SettingRecords
    BY <1>1, <2>1 DEF SettingRecords
  <2>5. ASSUME NEW S \in SUBSET Tasks
        PROVE  [Idle EXCEPT !.at = "tasks", !.todo = S] \in SettingRecords
    BY <2>1 DEF SettingRecords
  <2> QED
    BY <2>1, <2>2, <2>3, <2>4, <2>5

(* _cancel_all_streams, its second half, by a handler after its streams.   *)
LEMMA CancelTasksStep ==
    ASSUME WorkerInv, NEW c \in Clients, CancelTasks(c), proxy' \in Proxies, apart' \in BOOLEAN,
           worker' \in [Workers -> WorkerRecords],
           apart' => /\ \A d \in Clients : d # c => setting[d].at = "idle"
                     /\ \A w \in Workers : Given(w)',
           UNCHANGED <<requestVars, streamVars>>
    PROVE  WorkerInv'
<1> DEFINE s == IF tracked = {} THEN Idle ELSE [Idle EXCEPT !.at = "tasks", !.todo = tracked]
<1>1. UNCHANGED <<task, tracked, bucket, queue, kept, stream, owed>>
  BY DEF requestVars, streamVars
<1>2. /\ s \in SettingRecords /\ s.at \in {"idle", "tasks"}
      /\ s.at = "idle" => tracked = {}
      /\ s.at = "tasks" => s.todo = tracked
  BY IdleTyped DEF Idle, WorkerInv, Types
<1>3. setting' = [setting EXCEPT ![c] = s] /\ setting \in [Clients -> SettingRecords]
  BY DEF CancelTasks, WorkerInv, Types
<1> HIDE DEF s
<1>4. /\ setting' \in [Clients -> SettingRecords] /\ setting'[c] = s
      /\ \A d \in Clients : d # c => setting'[d] = setting[d]
  BY <1>2, <1>3
<1>6. Applied'
  BY <1>1, <1>2, <1>4 DEF Applied
<1>7. ProxyInUse'
  BY <1>1, <1>2, <1>4 DEF ProxyInUse, Given
<1>8. Stopping'
  BY <1>1, <1>2, <1>4 DEF WorkerInv, Stopping, Streaming
<1>9. TasksSound' /\ Queues' /\ TradesTold'
  BY <1>1 DEF WorkerInv, TasksSound, Sound, Queues, Op, TradesTold
<1> QED
  BY <1>1, <1>4, <1>6, <1>7, <1>8, <1>9 DEF WorkerInv, Types

LEMMA CancelStreamStep ==
    ASSUME WorkerInv, NEW c \in Clients, CancelStream(c), proxy' \in Proxies, apart' \in BOOLEAN,
           worker' \in [Workers -> WorkerRecords],
           apart' => /\ \A d \in Clients : d # c => setting[d].at = "idle"
                     /\ \A w \in Workers : Given(w)',
           UNCHANGED <<requestVars, owed>>
    PROVE  WorkerInv' /\ stream'.phase = stream.phase
<1>1. CASE ~Streaming
  BY <1>1, CancelTasksStep DEF CancelStream, streamVars
<1>2. CASE Streaming
  <2> DEFINE s == [Idle EXCEPT !.at = "streams"]
             z == [stream EXCEPT !.stop = TRUE, !.cancel = TRUE]
  <2>1. stream' = z /\ setting' = [setting EXCEPT ![c] = s]
    BY <1>2 DEF CancelStream
  <2>2. UNCHANGED <<task, tracked, bucket, queue, kept, owed>>
    BY DEF requestVars
  <2>3. s \in SettingRecords /\ s.at = "streams"
    BY IdleTyped DEF Idle
  <2>4. z \in StreamRecords /\ z.stop /\ z.phase = stream.phase /\ z.batch = stream.batch
    BY DEF WorkerInv, Types, StreamRecords, StreamFields
  <2> HIDE DEF s, z
  <2>5. /\ setting' \in [Clients -> SettingRecords] /\ setting'[c] = s
        /\ \A d \in Clients : d # c => setting'[d] = setting[d]
    BY <2>1, <2>3 DEF WorkerInv, Types
  <2>6. Applied' /\ ProxyInUse'
    BY <2>3, <2>5 DEF Applied, ProxyInUse
  <2>7. Stopping' /\ TradesTold'
    BY <2>1, <2>2, <2>4 DEF WorkerInv, Stopping, TradesTold
  <2>8. TasksSound' /\ Queues'
    BY <2>2 DEF WorkerInv, TasksSound, Sound, Queues, Op
  <2> QED
    BY <2>1, <2>2, <2>4, <2>5, <2>6, <2>7, <2>8 DEF WorkerInv, Types
<1> QED
  BY <1>1, <1>2

(* What SetWorkers does from Crew[i] on.                                   *)
Renewed(url) == [proxy |-> url, client |-> {}]
Closes(url, n) == [Idle EXCEPT !.at = "closing", !.url = url, !.next = n]

WorkersAre(c, url, i, W) ==
    /\ worker' \in [Workers -> WorkerRecords]
    /\ \A j \in 1 .. 2 : j < i => worker'[Crew[j]] = W[Crew[j]]
    /\ \/ /\ CancelStream(c)
          /\ \A j \in 1 .. 2 : i <= j => worker'[Crew[j]] = Renewed(url)
       \/ \E n \in 1 .. 2 :
             /\ setting' = [setting EXCEPT ![c] = Closes(url, n)]
             /\ UNCHANGED stream
             /\ \A j \in 1 .. 2 : i <= j /\ j <= n => worker'[Crew[j]] = Renewed(url)

LEMMA WorkersSet ==
    ASSUME NEW c \in Clients, NEW url \in Proxies, NEW i \in 1 .. 3,
           NEW W \in [Workers -> WorkerRecords], SetWorkers(c, url, i, W)
    PROVE  WorkersAre(c, url, i, W)
<1> DEFINE open == {j \in i .. Len(Crew) : W[Crew[j]].client # {}}
           last == IF open = {} THEN Len(Crew) ELSE Min(open)
           given == {Crew[j] : j \in i .. last}
<1>1. /\ worker' = [w \in Workers |-> IF w \in given THEN Renewed(url) ELSE W[w]]
      /\ IF open = {}
         THEN CancelStream(c)
         ELSE setting' = [setting EXCEPT ![c] = Closes(url, last)] /\ UNCHANGED stream
  BY DEF SetWorkers, Renewed, Closes
<1>2. open \subseteq 1 .. 2 /\ \A j \in open : i <= j
  BY CrewFacts
<1> HIDE DEF open
<1>3. open # {} => Min(open) \in open
  <2>1. CASE open # {}
    <3>1. 1 \in open \/ open = {2}
      <4>1. \A j \in open : j = 1 \/ j = 2
        BY <1>2
      <4> QED
        BY <2>1, <4>1
    <3>2. \E x \in open : \A y \in open : x <= y
      <4>1. CASE 1 \in open
        <5>1. \A y \in open : 1 <= y
          BY <1>2
        <5> QED
          BY <4>1, <5>1
      <4>2. CASE open = {2}
        BY <4>2
      <4> QED
        BY <3>1, <4>1, <4>2
    <3> QED
      BY <3>2 DEF Min
  <2> QED
    BY <2>1
<1>4. last \in 1 .. 2 /\ (open = {} => last = 2) /\ (open # {} => i <= last)
  <2>1. CASE open = {}
    BY <2>1, CrewFacts
  <2>2. CASE open # {}
    BY <1>2, <1>3, <2>2
  <2> QED
    BY <2>1, <2>2
<1> HIDE DEF last
<1>5. ASSUME NEW j \in 1 .. 2 PROVE Crew[j] \in Workers /\ (Crew[j] \in given <=> i <= j /\ j <= last)
  <2>1. i .. last \subseteq 1 .. 2
    BY <1>4
  <2>2. \A m \in 1 .. 2 : Crew[m] = Crew[j] => m = j
    BY CrewFacts
  <2>3. Crew[j] \in given <=> j \in i .. last
    BY <2>1, <2>2
  <2>4. j \in i .. last <=> i <= j /\ j <= last
    BY <1>4
  <2> QED
    BY <2>3, <2>4, CrewFacts
<1> HIDE DEF given
<1>6. Renewed(url) \in WorkerRecords
  BY DEF WorkerRecords, Renewed
<1>7. worker' \in [Workers -> WorkerRecords]
  BY <1>1, <1>6
<1>8. ASSUME NEW j \in 1 .. 2
      PROVE  worker'[Crew[j]] = IF i <= j /\ j <= last THEN Renewed(url) ELSE W[Crew[j]]
  BY <1>1, <1>5
<1>9. \A j \in 1 .. 2 : j < i => worker'[Crew[j]] = W[Crew[j]]
  BY <1>8
<1>10. CASE open = {}
  <2>1. CancelStream(c) /\ \A j \in 1 .. 2 : i <= j => worker'[Crew[j]] = Renewed(url)
    BY <1>1, <1>4, <1>8, <1>10
  <2> QED
    BY <1>7, <1>9, <2>1 DEF WorkersAre
<1>11. CASE open # {}
  <2>1. /\ setting' = [setting EXCEPT ![c] = Closes(url, last)] /\ UNCHANGED stream
        /\ \A j \in 1 .. 2 : i <= j /\ j <= last => worker'[Crew[j]] = Renewed(url)
    BY <1>1, <1>8, <1>11
  <2> QED
    BY <1>4, <1>7, <1>9, <2>1 DEF WorkersAre
<1> QED
  BY <1>10, <1>11

LEMMA SetStep ==
    ASSUME WorkerInv, NEW c \in Clients, NEW url \in Proxies, NEW i \in 1 .. 3,
           NEW W \in [Workers -> WorkerRecords], SetWorkers(c, url, i, W),
           proxy' \in Proxies, apart' \in BOOLEAN,
           apart' => /\ proxy' = url
                     /\ \A d \in Clients : d # c => setting[d].at = "idle"
                     /\ \A j \in 1 .. 2 : j < i => W[Crew[j]].proxy = url /\ W[Crew[j]].client \subseteq {url},
           UNCHANGED <<requestVars, owed>>
    PROVE  WorkerInv' /\ stream'.phase = stream.phase
<1>1. worker' \in [Workers -> WorkerRecords] /\ \A j \in 1 .. 2 : j < i => worker'[Crew[j]] = W[Crew[j]]
  BY WorkersSet DEF WorkersAre
<1>2. ASSUME CancelStream(c),
             \A j \in 1 .. 2 : i <= j => worker'[Crew[j]] = Renewed(url)
      PROVE  WorkerInv' /\ stream'.phase = stream.phase
  <2>1. apart' => \A j \in 1 .. 2 : worker'[Crew[j]].proxy = url /\ worker'[Crew[j]].client \subseteq {url}
    BY <1>1, <1>2 DEF Renewed
  <2>2. apart' => \A w \in Workers : Given(w)'
    BY <2>1, CrewFacts DEF Given
  <2> QED
    BY <1>1, <1>2, <2>2, CancelStreamStep
<1>3. ASSUME NEW last \in 1 .. 2,
             setting' = [setting EXCEPT ![c] = Closes(url, last)],
             UNCHANGED stream,
             \A j \in 1 .. 2 : i <= j /\ j <= last =>
                          worker'[Crew[j]] = Renewed(url)
      PROVE  WorkerInv' /\ stream'.phase = stream.phase
  <2> DEFINE s == Closes(url, last)
  <2>1. s \in SettingRecords /\ s.at = "closing" /\ s.url = url /\ s.next = last
    BY IdleTyped DEF Idle, Closes
  <2> HIDE DEF s
  <2>2. /\ setting' \in [Clients -> SettingRecords] /\ setting'[c] = s
        /\ \A d \in Clients : d # c => setting'[d] = setting[d]
    BY <1>3, <2>1 DEF WorkerInv, Types, s
  <2>3. UNCHANGED <<task, tracked, bucket, queue, kept, owed>>
    BY DEF requestVars
  <2>4. ASSUME apart', NEW j \in 1 .. last PROVE Given(Crew[j])'
    <3>1. j \in 1 .. 2 /\ j <= last
      BY <1>3
    <3> QED
      BY <1>1, <1>3, <2>4, <3>1 DEF Given, Renewed
  <2>5. Applied' /\ ProxyInUse'
    BY <1>3, <2>1, <2>2, <2>4, CrewFacts DEF Applied, ProxyInUse
  <2>6. Stopping' /\ TradesTold'
    BY <1>3, <2>1, <2>2, <2>3 DEF WorkerInv, Stopping, Streaming, TradesTold
  <2>7. TasksSound' /\ Queues'
    BY <2>3 DEF WorkerInv, TasksSound, Sound, Queues, Op
  <2> QED
    BY <1>1, <1>3, <2>2, <2>3, <2>5, <2>6, <2>7 DEF WorkerInv, Types
<1> QED
  BY <1>2, <1>3, WorkersSet DEF WorkersAre

LEMMA SetProxyStep ==
    ASSUME WorkerInv, NEW c \in Clients, NEW url \in Proxies, SetProxy(c, url)
    PROVE  WorkerInv' /\ stream'.phase = stream.phase
<1>1. /\ SetWorkers(c, url, 1, worker) /\ proxy' = url
      /\ apart' = \A d \in Clients \ {c} : setting[d].at = "idle"
      /\ UNCHANGED <<requestVars, owed>>
  BY DEF SetProxy
<1>2. worker \in [Workers -> WorkerRecords]
  BY DEF WorkerInv, Types
<1>3. apart' \in BOOLEAN /\ (apart' => \A d \in Clients : d # c => setting[d].at = "idle")
  BY <1>1
<1>4. \A j \in 1 .. 2 : ~(j < 1)
  OBVIOUS
<1> QED
  BY <1>1, <1>2, <1>3, <1>4, SetStep

LEMMA ClientClosedStep ==
    ASSUME WorkerInv, NEW c \in Clients, ClientClosed(c)
    PROVE  WorkerInv' /\ stream'.phase = stream.phase
<1> DEFINE n == setting[c].next
           W == [worker EXCEPT ![Crew[n]].client = {}]
           url == setting[c].url
<1>1. /\ setting[c].at = "closing" /\ SetWorkers(c, url, n + 1, W)
      /\ UNCHANGED <<proxy, apart, requestVars, owed>>
  BY DEF ClientClosed
<1>2. worker \in [Workers -> WorkerRecords] /\ setting[c] \in SettingRecords /\ apart \in BOOLEAN
  BY DEF WorkerInv, Types
<1>3. n \in 1 .. 2 /\ n + 1 \in 1 .. 3 /\ url \in Proxies
  BY <1>2, CrewFacts DEF SettingRecords
<1>4. /\ Crew[n] \in Workers /\ W \in [Workers -> WorkerRecords]
      /\ W[Crew[n]].proxy = worker[Crew[n]].proxy /\ W[Crew[n]].client = {}
      /\ \A w \in Workers : w # Crew[n] => W[w] = worker[w]
  <2>1. Crew[n] \in Workers
    BY <1>3, CrewFacts
  <2>2. worker[Crew[n]] \in WorkerRecords
    BY <1>2, <2>1
  <2> QED
    BY <1>2, <2>1, <2>2 DEF WorkerRecords
<1>5. ASSUME apart
      PROVE  /\ proxy' = url
             /\ \A d \in Clients : d # c => setting[d].at = "idle"
             /\ \A j \in 1 .. 2 : j < n + 1 => W[Crew[j]].proxy = url /\ W[Crew[j]].client \subseteq {url}
  <2>1. /\ url = proxy /\ \A j \in 1 .. n : Given(Crew[j])
        /\ \A d \in Clients : d # c => setting[d].at = "idle"
    BY <1>1, <1>5 DEF WorkerInv, Applied
  <2>2. ASSUME NEW j \in 1 .. 2, j < n + 1
        PROVE  W[Crew[j]].proxy = url /\ W[Crew[j]].client \subseteq {url}
    <3>1. j \in 1 .. n /\ Crew[j] \in Workers
      BY <1>3, <2>2, CrewFacts
    <3>2. Given(Crew[j])
      BY <2>1, <3>1
    <3> HIDE DEF W, n, url
    <3> QED
      BY <1>4, <2>1, <3>1, <3>2 DEF Given
  <2> QED
    BY <1>1, <2>1, <2>2
<1> HIDE DEF W, n, url
<1> QED
  BY <1>1, <1>2, <1>3, <1>4, <1>5, SetStep DEF WorkerInv, Types

LEMMA StreamGoneStep ==
    ASSUME WorkerInv, NEW c \in Clients, StreamGone(c)
    PROVE  WorkerInv' /\ stream'.phase = stream.phase
<1>1. /\ CancelTasks(c) /\ setting[c].at = "streams"
      /\ UNCHANGED <<proxy, worker, apart, requestVars, streamVars>>
  BY DEF StreamGone
<1>2. proxy \in Proxies /\ apart \in BOOLEAN /\ worker \in [Workers -> WorkerRecords]
  BY DEF WorkerInv, Types
<1>3. apart => /\ \A d \in Clients : d # c => setting[d].at = "idle"
               /\ \A w \in Workers : Given(w)
  BY <1>1 DEF WorkerInv, Applied
<1>4. apart' => /\ \A d \in Clients : d # c => setting[d].at = "idle"
                /\ \A w \in Workers : Given(w)'
  BY <1>1, <1>3 DEF Given
<1> QED
  BY <1>1, <1>2, <1>4, CancelTasksStep DEF streamVars

LEMMA CancelTaskStep ==
    ASSUME WorkerInv, NEW c \in Clients, NEW t \in Tasks, CancelTask(c, t)
    PROVE  WorkerInv' /\ stream' = stream
<1> DEFINE S == IF Alive(t) THEN Cancelling(task[t]) ELSE task[t]
<1>1. /\ setting[c].at = "tasks" /\ setting' = [setting EXCEPT ![c].awaits = {t}]
      /\ UNCHANGED <<proxy, worker, apart, tracked, bucket, queue, kept, stream, owed>>
  BY DEF CancelTask, streamVars
<1>2. task \in [Tasks -> TaskRecords] /\ setting \in [Clients -> SettingRecords] /\ Sound(task[t])
  BY DEF WorkerInv, Types, TasksSound
<1>3. S \in TaskRecords /\ Sound(S) /\ S.via \subseteq task[t].via
      /\ (S = task[t] \/ S.phase \notin {"queued", "loading"})
  <2>1. CASE ~Alive(t)
    BY <1>2, <2>1
  <2>2. CASE Alive(t)
    <3> DEFINE ph == IF task[t].phase \in {"new", "killed"} THEN "killed" ELSE "cancelled"
               z == [Slot EXCEPT !.phase = ph, !.due = 1]
    <3>1. S = z
      BY <2>2 DEF Cancelling
    <3>2. ph \in {"killed", "cancelled"} /\ 1 \in Int
      OBVIOUS
    <3> HIDE DEF ph
    <3>3. z \in TaskRecords
      BY <3>2, SlotTyped DEF TaskRecords
    <3>4. z.via = {} /\ z.phase = ph /\ z.due = 1
      BY DEF Slot
    <3> HIDE DEF z, S
    <3> QED
      BY <3>1, <3>2, <3>3, <3>4 DEF Sound
  <2> QED
    BY <2>1, <2>2
<1>4. Becomes(t, S)
  BY <1>2 DEF CancelTask, Becomes
<1> HIDE DEF S
<1>5. /\ task' \in [Tasks -> TaskRecords] /\ task'[t] = S
      /\ \A u \in Tasks : u # t => task'[u] = task[u]
  BY <1>2, <1>3, <1>4 DEF Becomes
<1>6. /\ setting' \in [Clients -> SettingRecords]
      /\ \A d \in Clients : /\ setting'[d].at = setting[d].at /\ setting'[d].todo = setting[d].todo
                            /\ setting'[d].url = setting[d].url /\ setting'[d].next = setting[d].next
  BY <1>1, <1>2 DEF SettingRecords
<1>7. TasksSound'
  BY <1>3, <1>5 DEF WorkerInv, TasksSound, Sound
<1>8. Queues'
  <2>1. CASE S = task[t]
    <3>1. \A u \in Tasks : task'[u] = task[u]
      BY <1>5, <2>1
    <3> QED
      BY <1>1, <3>1 DEF WorkerInv, Queues, Op
  <2>2. CASE S.phase \notin {"queued", "loading"}
    BY <1>1, <1>3, <1>4, <2>2, QueueKept
  <2> QED
    BY <1>3, <2>1, <2>2
<1>9. \A u \in tracked : task'[u].via \subseteq task[u].via
  BY <1>3, <1>5 DEF WorkerInv, Types
<1>10. Applied' /\ ProxyInUse'
  BY <1>1, <1>6, <1>9 DEF WorkerInv, Applied, ProxyInUse, Given
<1>11. Stopping' /\ TradesTold'
  BY <1>1, <1>6 DEF WorkerInv, Stopping, Streaming, TradesTold
<1> QED
  BY <1>1, <1>5, <1>6, <1>7, <1>8, <1>10, <1>11 DEF WorkerInv, Types

LEMMA TaskGoneStep ==
    ASSUME WorkerInv, NEW c \in Clients, TaskGone(c)
    PROVE  WorkerInv' /\ stream' = stream
<1>1. PICK t \in setting[c].awaits :
        /\ ~Alive(t)
        /\ setting' = [setting EXCEPT ![c] =
                         IF @.todo = {t} THEN Idle ELSE [@ EXCEPT !.todo = setting[c].todo \ {t}, !.awaits = {}]]
        /\ tracked' = IF setting[c].todo = {t} THEN {} ELSE tracked
  BY Zenon DEF TaskGone
<1> DEFINE s == IF setting[c].todo = {t} THEN Idle
                ELSE [setting[c] EXCEPT !.todo = setting[c].todo \ {t}, !.awaits = {}]
<1>2. setting[c].at = "tasks" /\ UNCHANGED <<proxy, worker, apart, task, bucket, queue, kept, stream, owed>>
  BY DEF TaskGone, streamVars
<1>3. setting \in [Clients -> SettingRecords] /\ setting[c] \in SettingRecords
  BY DEF WorkerInv, Types
<1>4. t \in Tasks /\ task[t].via = {}
  <2>1. t \in Tasks
    BY <1>1, <1>3 DEF SettingRecords
  <2> QED
    BY <1>1, <2>1 DEF WorkerInv, TasksSound, Sound, Alive
<1>5. /\ s \in SettingRecords /\ s.at \in {"idle", "tasks"}
      /\ s.at = "idle" => setting[c].todo = {t}
      /\ s.at = "tasks" => s.todo = setting[c].todo \ {t}
  <2>1. CASE setting[c].todo = {t}
    BY <2>1, IdleTyped
  <2>2. CASE setting[c].todo # {t}
    <3>1. s = [setting[c] EXCEPT !.todo = setting[c].todo \ {t}, !.awaits = {}]
      BY <2>2
    <3> HIDE DEF s
    <3> QED
      BY <1>2, <1>3, <3>1 DEF SettingRecords
  <2> QED
    BY <2>1, <2>2
<1> HIDE DEF s
<1>6. /\ setting' \in [Clients -> SettingRecords] /\ setting'[c] = s
      /\ \A d \in Clients : d # c => setting'[d] = setting[d]
  <2>1. setting' = [setting EXCEPT ![c] = s]
    BY <1>1 DEF s
  <2> QED
    BY <1>3, <1>5, <2>1
<1>7. ASSUME apart
      PROVE  /\ \A d \in Clients : d # c => setting[d].at = "idle"
             /\ \A w \in Workers : Given(w)
             /\ \A u \in tracked' : task[u].via \subseteq {proxy} \/ u \in setting[c].todo \ {t}
  BY <1>1, <1>2, <1>4, <1>7 DEF WorkerInv, Applied
<1>8. Applied' /\ ProxyInUse'
  BY <1>2, <1>5, <1>6, <1>7 DEF Applied, ProxyInUse, Given
<1>9. tracked' \subseteq Tasks
  BY <1>1 DEF WorkerInv, Types
<1>10. Stopping' /\ TradesTold'
  BY <1>2, <1>5, <1>6 DEF WorkerInv, Stopping, Streaming, TradesTold
<1>11. TasksSound' /\ Queues'
  BY <1>2 DEF WorkerInv, TasksSound, Sound, Queues, Op
<1> QED
  BY <1>2, <1>6, <1>8, <1>9, <1>10, <1>11 DEF WorkerInv, Types

-----------------------------------------------------------------------------
(* The invariant.                                                          *)

LEMMA WorkerInvInit == WorkerInit => WorkerInv
<1> SUFFICES ASSUME WorkerInit PROVE WorkerInv
  OBVIOUS
<1>1. /\ proxy = "direct" /\ worker = [w \in Workers |-> [proxy |-> "direct", client |-> {}]]
      /\ setting = [c \in Clients |-> Idle] /\ apart = TRUE
      /\ task = [t \in Tasks |-> Slot] /\ tracked = {} /\ queue = [k \in Stores |-> <<>>]
      /\ kept = [k \in Stores |-> FALSE] /\ stream = Closed /\ owed = 0
  BY DEF WorkerInit
<1>2. "direct" \in Proxies /\ 0 \in -MaxTrades .. MaxTrades
  BY WorkerAssumption
<1>3. [proxy |-> "direct", client |-> {}] \in WorkerRecords
  BY <1>2 DEF WorkerRecords
<1>4. Types
  <2>1. queue \in [Stores -> Seq(Tasks)] /\ kept \in [Stores -> BOOLEAN]
    BY <1>1
  <2>2. worker \in [Workers -> WorkerRecords]
    BY <1>1, <1>3
  <2>3. setting \in [Clients -> SettingRecords] /\ task \in [Tasks -> TaskRecords]
    BY <1>1, IdleTyped, SlotTyped
  <2> QED
    BY <1>1, <1>2, <2>1, <2>2, <2>3, ClosedTyped DEF Types
<1>5. Slot.due = 0 /\ Slot.via = {} /\ Slot.phase = "ended"
  BY DEF Slot
<1>6. TasksSound /\ Queues
  BY <1>1, <1>5 DEF TasksSound, Sound, Queues
<1>7. Applied /\ ProxyInUse /\ Stopping
  BY <1>1, <1>5, IdleTyped DEF Applied, ProxyInUse, Stopping
<1>8. TradesTold
  BY <1>1, ClosedTyped DEF TradesTold
<1> QED
  BY <1>4, <1>6, <1>7, <1>8 DEF WorkerInv

(* A step that connects finds the stop event not set.                      *)
LEMMA WorkerInvStep ==
    ASSUME WorkerInv, [WorkerNext]_workerVars
    PROVE  WorkerInv' /\ (stream'.phase = "connecting" /\ stream.phase # "connecting" => ~stream.stop /\ Streaming)
<1>1. ASSUME NEW t \in Tasks, Spawn(t) \/ TaskSteps(t)
      PROVE  WorkerInv' /\ stream' = stream
  <2>1. stream' = stream
    BY <1>1 DEF Spawn, TaskSteps, Refuse, Begin, EnterStore, LoadDone, LoadFailed, Acquired,
       ResponseArrives, RequestFails, EndsCancelled, streamVars
  <2> QED
    BY <1>1, <2>1, SpawnStep, TasksStep
<1>2. CASE InvalidateMaster
  BY <1>2, InvalidateStep DEF InvalidateMaster, streamVars
<1>3. CASE OpenStream
  BY <1>3, OpenStreamStep
<1>4. CASE Frame \/ ConnectionEnds \/ StreamSteps
  BY <1>4, ConnectsStep, EndingsStep DEF StreamSteps
<1>5. ASSUME NEW c \in Clients, NEW url \in Proxies, SetProxy(c, url)
      PROVE  WorkerInv' /\ stream'.phase = stream.phase
  BY <1>5, SetProxyStep
<1>6. ASSUME NEW c \in Clients, HandlerSteps(c)
      PROVE  WorkerInv' /\ stream'.phase = stream.phase
  BY <1>6, ClientClosedStep, StreamGoneStep, CancelTaskStep, TaskGoneStep DEF HandlerSteps
<1>7. CASE UNCHANGED workerVars
  <2>1. UNCHANGED <<proxy, worker, setting, apart, task, tracked, bucket, queue, kept, stream, owed>>
    BY <1>7 DEF workerVars, requestVars, streamVars
  <2> QED
    BY <2>1 DEF WorkerInv, Types, TasksSound, Sound, Queues, Op, Applied, Given, Stopping, Streaming,
       ProxyInUse, TradesTold
<1> QED
  BY <1>1, <1>2, <1>3, <1>4, <1>5, <1>6, <1>7 DEF WorkerNext

LEMMA WorkerInvariance == WorkerSpec => []WorkerInv
BY WorkerInvInit, WorkerInvStep, PTL DEF WorkerSpec

LEMMA LoadsAlone == WorkerInv => FetchesSound
<1> SUFFICES ASSUME WorkerInv PROVE FetchesSound
  OBVIOUS
<1>1. AnsweredOnce
  BY DEF WorkerInv, TasksSound, Sound, AnsweredOnce, Alive
<1>2. ASSUME NEW k \in Stores
      PROVE  LET loading == {t \in Tasks : task[t].phase = "loading" /\ Op(t).needs = k}
             IN Cardinality(loading) <= 1 /\ (loading # {} => ~kept[k])
  <2> DEFINE loading == {t \in Tasks : task[t].phase = "loading" /\ Op(t).needs = k}
  <2>1. \A t \in loading : queue[k][1] = t /\ ~kept[k]
    BY DEF WorkerInv, Queues
  <2>2. loading = {} \/ loading = {queue[k][1]}
    BY <2>1
  <2>3. Cardinality(loading) <= 1
    <3> HIDE DEF loading
    <3>1. Cardinality({}) = 0 /\ Cardinality({queue[k][1]}) = 1
      BY FS_EmptySet, FS_Singleton
    <3> QED
      BY <2>2, <3>1
  <2> QED
    BY <2>1, <2>3
<1> QED
  BY <1>1, <1>2 DEF FetchesSound, OneDownload

(* The variables of the requests of _spawn_fetch, the streams and the SetProxy
   handlers keep their types, for any number of each: the numbers of requests
   stay in their ranges and the trades not yet told in those of a batch.       *)
THEOREM WorkerTypesAlways == WorkerSpec => []WorkerTypeOK
<1>1. WorkerInv => WorkerTypeOK
  <2> SUFFICES ASSUME WorkerInv PROVE WorkerTypeOK
    OBVIOUS
  <2>1. \A t \in Tasks :
          /\ \A o \in task[t].op : \E p \in Operations : o.client = p.client /\ o.answer = p.answer
          /\ task[t].left \in 0 .. MaxPages + 3
          /\ task[t].phase \in {"new", "queued", "loading", "limited", "sent", "killed", "cancelled", "ended"}
          /\ task[t].due \in Int
    BY DEF WorkerInv, Types, TaskRecords, Served
  <2>2. worker \in [Workers -> [proxy : Proxies, client : {{}} \cup {{p} : p \in Proxies}]]
    BY DEF WorkerInv, Types, WorkerRecords
  <2>3. setting \in [Clients -> [at : {"idle", "closing", "streams", "tasks"}, url : Proxies,
                                next : 1 .. Len(Crew) + 1, todo : SUBSET Tasks,
                                awaits : {{}} \cup {{t} : t \in Tasks}]]
    <3>1. 1 .. Len(Crew) \subseteq 1 .. Len(Crew) + 1
      BY CrewFacts
    <3> QED
      BY <3>1 DEF WorkerInv, Types, SettingRecords
  <2>4. /\ stream.phase \in {"ended", "new", "connecting", "open", "closing", "waiting"}
        /\ stream.batch \in 0 .. MaxTrades
    BY DEF WorkerInv, Types, StreamRecords, StreamFields
  <2> QED
    BY <2>1, <2>2, <2>3, <2>4 DEF WorkerInv, Types, WorkerTypeOK
<1> QED
  BY <1>1, WorkerInvariance, PTL

(* However requests are answered, fail, are passed over or are cancelled by a
   SetProxy, a task of _spawn_fetch that has ended has told its client so once
   under its request id, and the archive and the master are downloaded by one
   request at a time, only while they are not there.                          *)
THEOREM WorkerFetchesSound == WorkerSpec => []FetchesSound
BY WorkerInvariance, LoadsAlone, PTL

(* When the SetProxy handlers have ended and none ran beside another, each
   worker has the proxy of the engine, and neither a client that is kept nor a
   request in _fetch_tasks goes through another one.                          *)
THEOREM WorkerProxyInUse == WorkerSpec => []ProxyInUse
BY WorkerInvariance, PTL DEF WorkerInv

(* Every trade a stream has read is told once, before its next connection and
   before its end, or is in the batch of the connection that is open: neither
   _flush_periodically nor the finally of a connection loses or repeats one.   *)
THEOREM WorkerTradesTold == WorkerSpec => []TradesTold
BY WorkerInvariance, PTL DEF WorkerInv

(* A stream that a SetProxy awaits in _StreamHandle.cancel makes no further
   connection, even when its reader takes the cancellation for a helper's.     *)
THEOREM WorkerStoppingEndsStream == WorkerSpec => StoppingEndsStream
<1>1. ASSUME WorkerInv, [WorkerNext]_workerVars
      PROVE  [(stream'.phase = "connecting" /\ stream.phase # "connecting") =>
                \A c \in Clients : setting[c].at # "streams"]_stream
  <2> SUFFICES ASSUME stream'.phase = "connecting", stream.phase # "connecting",
                      NEW c \in Clients, setting[c].at = "streams"
               PROVE  FALSE
    OBVIOUS
  <2>1. ~stream.stop /\ Streaming
    BY <1>1, WorkerInvStep
  <2>2. ~Streaming \/ stream.stop
    BY <1>1 DEF WorkerInv, Stopping
  <2> QED
    BY <2>1, <2>2
<1> QED
  BY <1>1, WorkerInvariance, PTL DEF WorkerSpec, StoppingEndsStream

-----------------------------------------------------------------------------
(* VenueLogin, for every number of logins and attempts.  OneEventLoop
   is inductive once the types are known; ConnectedIsUsable needs to know
   besides whose token a login of kabu STATION is about to get.             *)

USE DEF Venues, LoginOrNone, Steps, Holding, historyVars

(* A login of kabu STATION that holds the lock has its object, and unless
   _clear_kabu_session ran meanwhile it is the engine's: the token it gets is
   the token of the object the commands look at.                            *)
ObjectTaken ==
    \A t \in Logins : venue[t] = Kabu /\ step[t] \in Holding =>
        /\ object[t] \in Logins
        /\ t \notin cleared => object[t] = kabuVenue

(* A new login task is a task of the bound. *)
LEMMA CreateTypes ==
    ASSUME TypeOK, NEW v \in Venues, Create(v)
    PROVE  /\ made' \in 0 .. MaxLogins /\ made + 1 \in Logins
           /\ venue' \in [Logins -> Venues]
           /\ step' \in [Logins -> Steps]
           /\ tries' \in [Logins -> 0 .. MaxTries]
<1>1. made + 1 \in Logins /\ made' \in 0 .. MaxLogins
  BY LoginAssumption DEF TypeOK, Create, Logins
<1>2. 0 \in 0 .. MaxTries
  BY LoginAssumption
<1> QED
  BY <1>1, <1>2 DEF TypeOK, Create

LEMMA InitTypes == Init => TypeOK
<1> SUFFICES ASSUME Init PROVE TypeOK
  OBVIOUS
<1>1. 0 \in 0 .. MaxLogins /\ 0 \in 0 .. MaxTries
  BY LoginAssumption
<1> QED
  BY <1>1 DEF Init, TypeOK

FlagTypes == /\ served \in BOOLEAN /\ session \in BOOLEAN /\ cache \in BOOLEAN
             /\ latched \in BOOLEAN /\ killed \in BOOLEAN /\ order \in BOOLEAN

LEMMA CommandTypes == ASSUME TypeOK, Commands PROVE TypeOK'
<1>1. CASE FirstLiveClient
  BY <1>1, CreateTypes DEF FirstLiveClient, TypeOK, stateVars, tachibanaVars, kabuVars
<1>2. CASE FirstReplayClient
  BY <1>2 DEF FirstReplayClient, TypeOK, stateVars, taskVars, tachibanaVars, kabuVars
<1>3. CASE LastClientLeaves
  BY <1>3 DEF LastClientLeaves, TypeOK
<1>4. CASE TachibanaAgain
  <2>1. CASE Locked(Tachibana)
    BY <1>4, <2>1 DEF TachibanaAgain, NoNewTask, TypeOK, clientVars, kabuVars
  <2>2. CASE ~Locked(Tachibana)
    BY <1>4, <2>2, CreateTypes DEF TachibanaAgain, TypeOK, clientVars, kabuVars
  <2> QED
    BY <2>1, <2>2
<1>5. CASE TachibanaFresh
  BY <1>5, CreateTypes DEF TachibanaFresh, TypeOK, clientVars, kabuVars
<1>6. CASE KabuAgain
  <2>1. loops' \in SUBSET Logins /\ tokens' \in SUBSET Logins
    BY <1>6 DEF KabuAgain, TypeOK
  <2>2. session' \in BOOLEAN /\ cache' \in BOOLEAN
    BY <1>6 DEF KabuAgain
  <2>3. CASE Locked(Kabu)
    BY <1>6, <2>1, <2>2, <2>3 DEF KabuAgain, NoNewTask, TypeOK, clientVars
  <2>4. CASE ~Locked(Kabu)
    BY <1>6, <2>1, <2>2, <2>4, CreateTypes DEF KabuAgain, TypeOK, clientVars
  <2> QED
    BY <2>3, <2>4
<1>7. CASE KabuFresh
  BY <1>7, CreateTypes DEF KabuFresh, TypeOK, clientVars, tachibanaVars, kabuVars
<1>8. CASE Logout
  BY <1>8 DEF Logout, TypeOK, clientVars, taskVars, kabuVars
<1>9. CASE KabuOrder
  BY <1>9 DEF KabuOrder, TypeOK, clientVars, stateVars, taskVars, tachibanaVars
<1> QED
  BY <1>1, <1>2, <1>3, <1>4, <1>5, <1>6, <1>7, <1>8, <1>9 DEF Commands

(* Another attempt is one of MaxTries. *)
LEMMA TryTypes ==
    ASSUME TypeOK, NEW t \in Logins, tries[t] + 1 < MaxTries,
           tries' = [tries EXCEPT ![t] = @ + 1]
    PROVE  tries' \in [Logins -> 0 .. MaxTries]
<1>1. tries[t] + 1 \in 0 .. MaxTries
  BY LoginAssumption DEF TypeOK
<1> QED
  BY <1>1 DEF TypeOK

LEMMA TachibanaTypes ==
    ASSUME TypeOK, NEW t \in Logins, TachibanaStep(t) PROVE TypeOK'
<1> USE DEF Goes, SameTasks, At, clientVars, stateVars, kabuVars, tachibanaVars
<1>1. CASE TakeTachibanaLock(t)
  <2>1. FlagTypes'
    BY <1>1 DEF TakeTachibanaLock, TypeOK, FlagTypes
  <2> QED
    BY <1>1, <2>1 DEF TakeTachibanaLock, TypeOK, FlagTypes
<1>2. CASE Validated(t)
  BY <1>2 DEF Validated, Succeeds, TypeOK
<1>3. CASE CacheRejected(t)
  <2>1. FlagTypes'
    BY <1>3 DEF CacheRejected, TypeOK, FlagTypes
  <2> QED
    BY <1>3, <2>1 DEF CacheRejected, TypeOK, FlagTypes
<1>4. CASE ValidateFails(t)
  BY <1>4 DEF ValidateFails, Fails, TypeOK
<1>5. CASE DialogAnswered(t)
  BY <1>5 DEF DialogAnswered, TypeOK
<1>6. CASE DialogEnds(t)
  BY <1>6 DEF DialogEnds, Fails, TypeOK
<1>7. CASE LoggedIn(t)
  BY <1>7 DEF LoggedIn, Succeeds, TypeOK
<1>8. CASE PasswordRefused(t)
  <2>1. FlagTypes' /\ tries' \in [Logins -> 0 .. MaxTries]
    BY <1>8, TryTypes DEF PasswordRefused, TypeOK, FlagTypes
  <2> QED
    BY <1>8, <2>1 DEF PasswordRefused, TypeOK, FlagTypes
<1>9. CASE LoginFails(t)
  BY <1>9 DEF LoginFails, Fails, TypeOK
<1> QED
  BY <1>1, <1>2, <1>3, <1>4, <1>5, <1>6, <1>7, <1>8, <1>9 DEF TachibanaStep

LEMMA KabuTypes ==
    ASSUME TypeOK, ObjectTaken, NEW t \in Logins, KabuStep(t) PROVE TypeOK'
<1> USE DEF Goes, SameTasks, At, clientVars, stateVars, tachibanaVars
<1>1. CASE TakeKabuLock(t)
  BY <1>1 DEF TakeKabuLock, TypeOK
<1>2. CASE KabuAnswered(t)
  BY <1>2 DEF KabuAnswered, TypeOK, kabuVars
<1>3. CASE KabuLoginFails(t)
  BY <1>3 DEF KabuLoginFails, TypeOK, kabuVars
<1>4. CASE KabuDown(t)
  <2>1. FlagTypes'
    BY <1>4 DEF KabuDown, TypeOK, FlagTypes, kabuVars
  <2>2. tries' \in [Logins -> 0 .. MaxTries]
    BY <1>4, TryTypes DEF KabuDown
  <2> QED
    BY <1>4, <2>1, <2>2 DEF KabuDown, TypeOK, FlagTypes, kabuVars
<1>5. CASE KabuLoggedIn(t)
  <2>1. FlagTypes' /\ step' \in [Logins -> Steps]
    BY <1>5 DEF KabuLoggedIn, TypeOK, FlagTypes
  <2>2. tokens' \in SUBSET Logins
    BY <1>5 DEF KabuLoggedIn, TypeOK, ObjectTaken
  <2> QED
    BY <1>5, <2>1, <2>2 DEF KabuLoggedIn, TypeOK, FlagTypes
<1> QED
  BY <1>1, <1>2, <1>3, <1>4, <1>5 DEF KabuStep

LEMMA CreateObjects ==
    ASSUME TypeOK, ObjectTaken, NEW v \in Venues, Create(v),
           UNCHANGED <<object, kabuVenue, cleared>>
    PROVE  ObjectTaken'
<1> SUFFICES ASSUME NEW t \in Logins, venue'[t] = Kabu, step'[t] \in Holding
             PROVE  object[t] \in Logins /\ (t \notin cleared => object[t] = kabuVenue)
  BY DEF ObjectTaken
<1>1. t # made + 1
  BY DEF Create, TypeOK
<1> QED
  BY <1>1 DEF Create, TypeOK, ObjectTaken

(* Only TakeKabuLock lets a login of kabu STATION hold the lock. *)
LEMMA StepObjects ==
    ASSUME TypeOK, ObjectTaken, [Next]_vars PROVE ObjectTaken'
<1> USE DEF At, Goes, SameTasks, clientVars, stateVars, taskVars, tachibanaVars, kabuVars, NoNewTask
<1>1. CASE Commands
  <2>1. CASE FirstLiveClient
    BY <2>1, CreateObjects DEF FirstLiveClient
  <2>2. CASE FirstReplayClient \/ Logout \/ KabuOrder
    BY <2>2 DEF FirstReplayClient, Logout, KabuOrder, ObjectTaken
  <2>3. CASE LastClientLeaves
    BY <2>3 DEF LastClientLeaves, TypeOK, ObjectTaken
  <2>4. CASE TachibanaAgain
    BY <2>4, CreateObjects DEF TachibanaAgain, ObjectTaken
  <2>5. CASE TachibanaFresh
    BY <2>5, CreateObjects DEF TachibanaFresh
  <2>6. CASE KabuAgain
    BY <2>6, CreateObjects DEF KabuAgain, ObjectTaken
  <2>7. CASE KabuFresh
    BY <2>7, CreateObjects DEF KabuFresh
  <2> QED
    BY <1>1, <2>1, <2>2, <2>3, <2>4, <2>5, <2>6, <2>7 DEF Commands
<1>2. ASSUME NEW t \in Logins, TachibanaStep(t) PROVE ObjectTaken'
  <2>1. venue[t] # Kabu /\ UNCHANGED <<venue, object, kabuVenue, cleared>>
    BY <1>2, LoginAssumption
    DEF TachibanaStep, TakeTachibanaLock, Validated, CacheRejected, ValidateFails, DialogAnswered,
        DialogEnds, LoggedIn, PasswordRefused, LoginFails, Fails, Succeeds
  <2>2. \A u \in Logins : u # t => step'[u] = step[u]
    BY <1>2
    DEF TypeOK, TachibanaStep, TakeTachibanaLock, Validated, CacheRejected, ValidateFails,
        DialogAnswered, DialogEnds, LoggedIn, PasswordRefused, LoginFails, Fails, Succeeds
  <2> QED
    BY <2>1, <2>2 DEF ObjectTaken
<1>3. ASSUME NEW t \in Logins, KabuStep(t) PROVE ObjectTaken'
  <2>1. CASE TakeKabuLock(t)
    <3>1. object'[t] \in Logins /\ object'[t] = kabuVenue' /\ cleared' = cleared
          /\ \A u \in Logins : u # t => object'[u] = object[u]
      BY <2>1 DEF TakeKabuLock, TypeOK
    <3>2. venue' = venue /\ \A u \in Logins : u # t => step'[u] = step[u]
      BY <2>1 DEF TakeKabuLock, TypeOK
    <3>3. \A u \in Logins : u # t /\ venue[u] = Kabu => step[u] \notin Holding
      BY <2>1 DEF TakeKabuLock, Locked
    <3> QED
      BY <3>1, <3>2, <3>3 DEF ObjectTaken
  <2>2. CASE KabuAnswered(t) \/ KabuLoginFails(t) \/ KabuDown(t) \/ KabuLoggedIn(t)
    <3>1. UNCHANGED <<venue, object, kabuVenue, cleared>>
      BY <2>2 DEF KabuAnswered, KabuLoginFails, KabuDown, KabuLoggedIn
    <3>2. \A u \in Logins : step'[u] \in Holding => step[u] \in Holding
      BY <2>2 DEF KabuAnswered, KabuLoginFails, KabuDown, KabuLoggedIn, TypeOK
    <3> QED
      BY <3>1, <3>2 DEF ObjectTaken
  <2> QED
    BY <1>3, <2>1, <2>2 DEF KabuStep
<1>4. CASE CacheStale \/ KabuOrderAnswered \/ ClearKabuSession \/ PushDies
           \/ (\E t \in Logins : LoopEnds(t)) \/ UNCHANGED vars
  BY <1>4
  DEF CacheStale, KabuOrderAnswered, ClearKabuSession, PushDies, LoopEnds, vars, ObjectTaken
<1> QED
  BY <1>1, <1>2, <1>3, <1>4 DEF Next

LEMMA StepTypes == ASSUME TypeOK, ObjectTaken, [Next]_vars PROVE TypeOK'
<1> USE DEF clientVars, stateVars, taskVars, tachibanaVars
<1>1. CASE CacheStale \/ KabuOrderAnswered \/ ClearKabuSession \/ PushDies
  <2>1. CASE CacheStale
    <3>1. FlagTypes'
      BY <2>1 DEF CacheStale, TypeOK, FlagTypes, kabuVars
    <3> QED
      BY <2>1, <3>1 DEF CacheStale, TypeOK, FlagTypes, kabuVars
  <2>2. CASE KabuOrderAnswered
    <3>1. FlagTypes'
      BY <2>2 DEF KabuOrderAnswered, TypeOK, FlagTypes, kabuVars
    <3> QED
      BY <2>2, <3>1 DEF KabuOrderAnswered, TypeOK, FlagTypes, kabuVars
  <2>3. CASE ClearKabuSession
    <3>1. FlagTypes'
      BY <2>3 DEF ClearKabuSession, TypeOK, FlagTypes, kabuVars
    <3> QED
      BY <2>3, <3>1 DEF ClearKabuSession, TypeOK, FlagTypes, kabuVars
  <2>4. CASE PushDies
    <3>1. FlagTypes'
      BY <2>4 DEF PushDies, TypeOK, FlagTypes, kabuVars
    <3> QED
      BY <2>4, <3>1 DEF PushDies, TypeOK, FlagTypes, kabuVars
  <2> QED
    BY <1>1, <2>1, <2>2, <2>3, <2>4
<1>2. CASE \E t \in Logins : LoopEnds(t)
  BY <1>2 DEF LoopEnds, TypeOK, kabuVars
<1>3. CASE UNCHANGED vars
  BY <1>3 DEF vars, TypeOK, kabuVars
<1> QED
  BY <1>1, <1>2, <1>3, CommandTypes, TachibanaTypes, KabuTypes DEF Next

IInv == TypeOK /\ ObjectTaken

LEMMA IInvAlways == Spec => []IInv
<1>1. Init => IInv
  BY InitTypes DEF Init, IInv, ObjectTaken
<1>2. IInv /\ [Next]_vars => IInv'
  BY StepTypes, StepObjects DEF IInv
<1> QED
  BY <1>1, <1>2, PTL DEF Spec

(* Whatever the order of logins, failures, logouts and orders, every variable
   stays in its type: no login makes more than MaxTries attempts, and a token
   is always the token of an object some login made.                        *)
THEOREM LoginTypesAlways == Spec => []TypeOK
<1>1. IInv => TypeOK
  BY DEF IInv
<1> QED
  BY <1>1, IInvAlways, PTL

-----------------------------------------------------------------------------
LEMMA StepUsable ==
    ASSUME IInv, ConnectedIsUsable, [Next]_vars PROVE ConnectedIsUsable'
<1> USE DEF At, Goes, SameTasks, clientVars, stateVars, taskVars, tachibanaVars, kabuVars,
            ConnectedIsUsable, IInv
<1>1. CASE Commands
  BY <1>1 DEF Commands, FirstLiveClient, FirstReplayClient, LastClientLeaves, TachibanaAgain,
      TachibanaFresh, KabuAgain, KabuFresh, Logout, KabuOrder
<1>2. ASSUME NEW t \in Logins, TachibanaStep(t) PROVE ConnectedIsUsable'
  BY <1>2 DEF TachibanaStep, TakeTachibanaLock, Validated, CacheRejected, ValidateFails,
      DialogAnswered, DialogEnds, LoggedIn, PasswordRefused, LoginFails, Fails, Succeeds
<1>3. ASSUME NEW t \in Logins, KabuStep(t) PROVE ConnectedIsUsable'
  <2>1. CASE TakeKabuLock(t)
    (* NoLogin is no object that holds a token. *)
    <3>1. kabuVenue \in tokens => kabuVenue # NoLogin
      BY LoginAssumption DEF TypeOK, Logins
    <3> QED
      BY <2>1, <3>1 DEF TakeKabuLock
  <2>2. CASE KabuLoggedIn(t)
    <3>1. t \notin cleared => object[t] = kabuVenue
      BY <2>2 DEF KabuLoggedIn, ObjectTaken
    <3> QED
      BY <2>2, <3>1 DEF KabuLoggedIn
  <2>3. CASE KabuAnswered(t) \/ KabuLoginFails(t) \/ KabuDown(t)
    BY <2>3 DEF KabuAnswered, KabuLoginFails, KabuDown
  <2> QED
    BY <1>3, <2>1, <2>2, <2>3 DEF KabuStep
<1>4. CASE CacheStale \/ KabuOrderAnswered \/ ClearKabuSession \/ PushDies
           \/ (\E t \in Logins : LoopEnds(t)) \/ UNCHANGED vars
  BY <1>4 DEF CacheStale, KabuOrderAnswered, ClearKabuSession, PushDies, LoopEnds, vars
<1> QED
  BY <1>1, <1>2, <1>3, <1>4 DEF Next

(* However the logins of both brokers, a logout and an expired token overlap,
   the venue the engine says it is connected to has what its commands need:
   Tachibana its session, kabu STATION its object with a token, but for a
   login under way while _clear_kabu_session ran.                           *)
THEOREM ConnectedIsUsableAlways == Spec => []ConnectedIsUsable
<1>1. Init => ConnectedIsUsable
  BY DEF Init, ConnectedIsUsable
<1>2. IInv /\ ConnectedIsUsable /\ [Next]_vars => ConnectedIsUsable'
  BY StepUsable
<1> QED
  BY <1>1, <1>2, IInvAlways, PTL DEF Spec

LEMMA StepOneLoop ==
    ASSUME TypeOK, OneEventLoop, [Next]_vars PROVE OneEventLoop'
<1> USE DEF At, Goes, SameTasks, clientVars, stateVars, taskVars, tachibanaVars, kabuVars,
            OneEventLoop
<1>1. CASE Commands
  BY <1>1 DEF Commands, FirstLiveClient, FirstReplayClient, LastClientLeaves, TachibanaAgain,
      TachibanaFresh, KabuAgain, KabuFresh, Logout, KabuOrder
<1>2. ASSUME NEW t \in Logins, TachibanaStep(t) PROVE OneEventLoop'
  BY <1>2 DEF TachibanaStep, TakeTachibanaLock, Validated, CacheRejected, ValidateFails,
      DialogAnswered, DialogEnds, LoggedIn, PasswordRefused, LoginFails, Fails, Succeeds
<1>3. ASSUME NEW t \in Logins, KabuStep(t) PROVE OneEventLoop'
  BY <1>3 DEF KabuStep, TakeKabuLock, KabuAnswered, KabuLoginFails, KabuDown, KabuLoggedIn
<1>4. CASE CacheStale \/ KabuOrderAnswered \/ ClearKabuSession \/ PushDies
           \/ (\E t \in Logins : LoopEnds(t)) \/ UNCHANGED vars
  BY <1>4 DEF CacheStale, KabuOrderAnswered, ClearKabuSession, PushDies, LoopEnds, vars
<1> QED
  BY <1>1, <1>2, <1>3, <1>4 DEF Next

(* No login leaves an EVENT loop running that no command can cancel. *)
THEOREM OneEventLoopAlways == Spec => []OneEventLoop
<1>1. Init => OneEventLoop
  BY DEF Init, OneEventLoop
<1>2. TypeOK /\ OneEventLoop /\ [Next]_vars => OneEventLoop'
  BY StepOneLoop
<1> QED
  BY <1>1, <1>2, LoginTypesAlways, PTL DEF Spec
=============================================================================
