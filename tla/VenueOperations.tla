-------------------------- MODULE VenueOperations --------------------------
(***************************************************************************)
(* The requests the engine answers through _spawn_fetch, each by what it   *)
(* asks of a venue: how many HTTP requests it makes, through which client, *)
(* what the limiter charges for one of them, and how its answer is sent    *)
(* (python/engine/exchanges, and the handlers _do_... of server.py).       *)
(*                                                                         *)
(* requests  the numbers of HTTP requests an execution may make            *)
(* costs     what acquire_rest is called with; {0}: there is no limiter    *)
(* client    whose httpx client carries them: that of the crypto worker,   *)
(*           that of the Tachibana worker, or "own", opened for the call   *)
(* needs     what is loaded first, under a lock, unless it is kept already: *)
(*           the archive of a day of trades, or the master of the day      *)
(* skips     the failure of a request after the first is passed over       *)
(***************************************************************************)
EXTENDS Naturals, TLC

CONSTANT MaxPages       \* bound: HTTP requests of one execution

ASSUME PagesAssumption == MaxPages \in Nat \ {0}

Crypto(n, costs) == [requests |-> n, costs |-> costs, client |-> "crypto",
                     needs |-> "nothing", skips |-> FALSE]

TachibanaWorker(n) == [Crypto(n, {0}) EXCEPT !.client = "tachibana"]

Own(n) == [Crypto(n, {0}) EXCEPT !.client = "own"]

(* Binance: spot costs more for the lists; only a perpetual has an open    *)
(* interest; the trades of today come in pages of 1000.                    *)
BinanceListTickers == Crypto({1}, {1, 20})
BinanceKlines == Crypto({1}, {2})
BinanceOpenInterest == Crypto({0, 1}, {1, 12})
BinanceTickerStats == Crypto({1}, {40, 80})
BinanceDepthSnapshot == Crypto({1}, {20, 50})
BinanceIntradayTrades == Crypto(1 .. MaxPages, {4, 20})
BinanceTrades == [BinanceIntradayTrades EXCEPT !.needs = "archive"]

BybitListTickers == Crypto({1}, {1})
BybitKlines == Crypto({1}, {1})
BybitOpenInterest == Crypto({0, 1}, {1})
BybitTickerStats == Crypto({1}, {1})

OkexListTickers == Crypto({1}, {1})
OkexKlines == Crypto({1}, {1})
OkexOpenInterest == Crypto({0, 1}, {1})
OkexTickerStats == Crypto({1}, {1})
OkexDepthSnapshot == Crypto({1}, {1})

(* MEXC: the statistics of futures need the contract sizes, which are      *)
(* fetched before them when none is known and after them when that of the  *)
(* ticker is missing.                                                      *)
MexcListTickers == Crypto({1}, {1})
MexcKlines == Crypto({1}, {1})
MexcOpenInterest == Crypto({0}, {1})
MexcTickerStats == Crypto((1 .. 3) \cap (1 .. MaxPages), {1})
MexcDepthSnapshot == Crypto({1}, {1})

(* Hyperliquid: the perpetuals of every DEX, one request each after that   *)
(* for the list of DEXes; the DEXes that fail are left out of the answer.  *)
HyperliquidPerpetuals == [Crypto(1 .. MaxPages, {1}) EXCEPT !.skips = TRUE]
HyperliquidSpot == Crypto({1}, {1})
HyperliquidListTickers == {HyperliquidPerpetuals, HyperliquidSpot, Crypto({0}, {1})}
HyperliquidKlines == Crypto({1}, {1})
HyperliquidOpenInterest == Crypto({0}, {1})
HyperliquidTickerStats == {HyperliquidPerpetuals, HyperliquidSpot}
HyperliquidDepthSnapshot == Crypto({1}, {1})

(* Tachibana: lists and statistics of all tickers are made from the master *)
(* alone.                                                                  *)
WithMaster(n) == [TachibanaWorker(n) EXCEPT !.needs = "master"]
TachibanaListTickers == WithMaster({0})
TachibanaKlines == WithMaster({1})
TachibanaTickerStats == WithMaster({0, 1})
TachibanaOpenInterest == TachibanaWorker({})      \* NotImplementedError
TachibanaDepthSnapshot == TachibanaWorker({1})

(* Orders and account: every call opens an httpx client of its own.        *)
FetchOrderList == Own({1})
FetchBuyingPower == Own({1})
FetchCreditBuyingPower == Own({1})
FetchPositions == Own({1})
SubmitOrder == Own({1})
ModifyOrder == Own({1})
CancelOrder == Own({1})
CancelAllOrders == [Own(1 .. MaxPages) EXCEPT !.skips = TRUE]

KabuSendOrder == Own({1})
KabuCancelOrder == Own({1})
KabuFetchOrders == Own({1})
KabuFetchPositions == Own({1})
KabuFetchWallets == Own({2})

(* TokenBucket.acquire holds the lock of its bucket while it waits for the *)
(* tokens: one that costs more than the bucket holds would wait, and keep  *)
(* every later caller waiting, for ever.                                   *)
Charged == ("binance" :> {BinanceListTickers, BinanceKlines, BinanceOpenInterest,
                          BinanceTickerStats, BinanceDepthSnapshot, BinanceTrades})
        @@ ("bybit" :> {BybitListTickers, BybitKlines, BybitOpenInterest, BybitTickerStats})
        @@ ("okex" :> {OkexListTickers, OkexKlines, OkexOpenInterest, OkexTickerStats,
                       OkexDepthSnapshot})
        @@ ("mexc" :> {MexcListTickers, MexcKlines, MexcOpenInterest, MexcTickerStats,
                       MexcDepthSnapshot})
        @@ ("hyperliquid" :> (HyperliquidListTickers \cup HyperliquidTickerStats \cup
                              {HyperliquidKlines, HyperliquidOpenInterest,
                               HyperliquidDepthSnapshot}))

BinanceCapacity == 1200
BybitCapacity == 600
OkexCapacity == 20
MexcCapacity == 10
HyperliquidCapacity == 1200

Capacity == [binance |-> BinanceCapacity, bybit |-> BybitCapacity, okex |-> OkexCapacity,
             mexc |-> MexcCapacity, hyperliquid |-> HyperliquidCapacity]

ASSUME CostsFit == \A v \in DOMAIN Charged : \A r \in Charged[v] : \A c \in r.costs : c <= Capacity[v]

(***************************************************************************)
(* The commands.  answer is how the request learns of its end:             *)
(* "one"     one event with its request id                                 *)
(* "chunks"  events with its request id, the last of them marked is_last   *)
(* "failed"  an Error with its request id if some part failed, else nothing *)
(* "none"    nothing with its request id, but perhaps an Error             *)
(* busy: it may be refused without its request id, by an EngineBusy or by  *)
(* the OrderRejected of the client's own order id.                         *)
(***************************************************************************)
Answered(calls, answer) ==
    {[requests |-> r.requests, client |-> r.client, needs |-> r.needs, skips |-> r.skips,
      answer |-> answer, busy |-> FALSE] : r \in calls}

Gated(operations) == {[o EXCEPT !.busy = TRUE] : o \in operations}

ListTickers == {BinanceListTickers, BybitListTickers, OkexListTickers, MexcListTickers,
                TachibanaListTickers} \cup HyperliquidListTickers

(* kabu_station lists stocks from the master of Tachibana and has an empty *)
(* list if that fails.                                                     *)
ListKabuTickers == [TachibanaListTickers EXCEPT !.skips = TRUE]

DoListTickers == Answered(ListTickers \cup {ListKabuTickers}, "one")

DoGetTickerMetadata == Answered(ListTickers, "one")

DoFetchKlines ==
    Answered({BinanceKlines, BybitKlines, OkexKlines, MexcKlines, HyperliquidKlines, TachibanaKlines},
             "one")

(* The other workers have the fetch_trades of ExchangeWorker, which raises *)
(* NotImplementedError.                                                    *)
DoFetchTrades == Answered({BinanceTrades, BinanceIntradayTrades, Crypto({}, {1})}, "chunks")

DoFetchOpenInterest ==
    Answered({BinanceOpenInterest, BybitOpenInterest, OkexOpenInterest, MexcOpenInterest,
              HyperliquidOpenInterest, TachibanaOpenInterest}, "one")

DoFetchTickerStats ==
    Answered({BinanceTickerStats, BybitTickerStats, OkexTickerStats, MexcTickerStats,
              TachibanaTickerStats} \cup HyperliquidTickerStats, "one")

(* Bybit has no snapshot to splice: the stream reconnects and brings one.  *)
BybitDepthSnapshot == Crypto({0}, {1})
DoRequestDepthSnapshot ==
    Answered({BinanceDepthSnapshot, OkexDepthSnapshot, MexcDepthSnapshot, HyperliquidDepthSnapshot,
              TachibanaDepthSnapshot}, "one")
    \cup Answered({BybitDepthSnapshot}, "none")

(* Answered by order events, under the id the client gave the order.       *)
DoSubmitOrderKabu == Answered({KabuSendOrder}, "none")
DoSubmitOrder == Gated(Answered({SubmitOrder}, "none") \cup DoSubmitOrderKabu)
DoModifyOrder == Gated(Answered({ModifyOrder}, "none"))
DoCancelOrderKabu == Answered({KabuCancelOrder}, "none")
DoCancelOrder == Gated(Answered({CancelOrder}, "none") \cup DoCancelOrderKabu)
DoCancelAllOrders == Gated(Answered({CancelAllOrders}, "failed"))

DoGetOrderListReplay == Answered({Own({0})}, "one")
DoGetOrderListKabu == Answered({KabuFetchOrders}, "one")
DoGetOrderList ==
    Gated(Answered({FetchOrderList, Own({0})}, "one")) \cup DoGetOrderListReplay \cup DoGetOrderListKabu

DoGetBuyingPowerReplay == Answered({Own({0})}, "none")
DoGetBuyingPowerKabu == Answered({KabuFetchWallets}, "one")
DoGetBuyingPower ==
    Gated(Answered({Own({n + m : n \in FetchBuyingPower.requests,
                                 m \in FetchCreditBuyingPower.requests})}, "one"))
    \cup DoGetBuyingPowerReplay \cup DoGetBuyingPowerKabu

DoGetPositionsKabu == Answered({KabuFetchPositions}, "one")
DoGetPositions == Gated(Answered({FetchPositions}, "one")) \cup DoGetPositionsKabu

DoLoadStrategyScenario == Answered({Own({0})}, "one")
DoSaveStrategyScenario == Answered({Own({0})}, "one")

Operations ==
    UNION {DoListTickers, DoGetTickerMetadata, DoFetchKlines, DoFetchTrades, DoFetchOpenInterest,
           DoFetchTickerStats, DoRequestDepthSnapshot, DoSubmitOrder, DoModifyOrder,
           DoCancelOrder, DoCancelAllOrders, DoGetOrderList, DoGetBuyingPower, DoGetPositions,
           DoLoadStrategyScenario, DoSaveStrategyScenario}
=============================================================================
