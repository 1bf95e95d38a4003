--------------------------- MODULE VenueHandlers ---------------------------
(* What the executors of the venues do with a request, one definition per    *)
(* handler of exchanges/<venue>/executor.go, each a sequence of steps.       *)
EXTENDS HandlerSteps

(********************************** fbinance ********************************)

FbinanceUpdateSecurityList == FullUpdate("address")

FbinanceInitialize ==
    <<Listed, Take("address")>> \o FbinanceUpdateSecurityList

FbinanceOnMarketStatisticsRequest ==
    <<Task, Skip(4), Check, Free("address"), Take("address"), Read,
            Skip(4), Check, Free("address"), Take("address"), Read, Done>>

FbinanceOnMarketDataRequest == <<Check, Task>> \o ReadTask("address")

FbinanceOnAccountInformationRequest == <<Task>> \o ReadTask("address")

FbinanceOnAccountMovementRequest == <<Task>> \o ReadTask("address")

FbinanceOnTradeCaptureReportRequest == <<Task>> \o ReadTask("address")

FbinanceOnOrderStatusRequest == <<Task>> \o ReadTask("address")

FbinanceOnPositionsRequest == <<Task>> \o ReadTask("address")

FbinanceOnBalancesRequest == <<Task>> \o ReadTask("address")

FbinanceOnNewOrderSingleRequest ==
    <<Check, Free("account"), Check, Task, Check, Free("address"), Check,
      Take("account"), Take("address"), NewOrder, Done>>

\* Mutant: no return after a lost reply is answered.
FbinanceCancelGoesOn ==
    <<Task, Check, Take("address"),
      Query("order", Warned({"lost"}) ++ Refuse({"refused"})), Done>>

FbinanceOnOrderCancelRequest ==
    <<Task, Check, Take("address"), Command, Done>>

FbinanceOnOrderMassCancelRequest ==
    <<Task, Check, Free("address"), Take("address"), Command, Done>>

(********************************** binance *********************************)

BinanceUpdateSecurityList == FullUpdate("address")

BinanceInitialize ==
    <<Listed, Take("address")>> \o BinanceUpdateSecurityList

BinanceOnMarketDataRequest == <<Check, Task>> \o ReadTask("address")

BinanceOnDepositHistoryRequest ==
    <<Check, Free("address"), Take("address"), Read,
      Query("read", Refuse({"lost", "odd"})),
      Query("read", Refuse({"lost", "odd"})), Done>>

BinanceOnWithdrawalHistoryRequest ==
    <<Check, Free("address"), Take("address"),
      Query("read", Refuse({"lost", "odd"})), Done>>

BinanceOnConvertHistoryRequest ==
    <<Check, Free("address"), Take("address"),
      Query("read", Warned({"lost"}) ++ Refuse({"odd"})), Done>>

BinanceOnAccountMovementRequest ==
    [deposits |-> BinanceOnDepositHistoryRequest,
     withdrawals |-> BinanceOnWithdrawalHistoryRequest,
     exchanges |-> BinanceOnConvertHistoryRequest,
     otherMovements |-> <<Ignore>>]

BinanceOnTradeCaptureReportRequest == <<Task>> \o ReadTask("address")

BinanceOnOrderStatusRequest == <<Task>> \o ReadTask("address")

BinanceOnPositionsRequest == <<Done>>

BinanceOnBalancesRequest ==
    <<Task, Check, Free("address"), Take("address"),
      Query("read", Refuse({"lost"})), Done>>

BinanceOnNewOrderSingleRequest ==
    <<Free("account"), Task, Free("address"), Check, Warn, Crash, Check,
      Take("address"), Take("account"), Command, Done>>

\* Mutant: the limit is not looked at.
BinanceCancelUnlimited ==
    <<Task, Check, Take("address"), Command, Done>>

BinanceOnOrderCancelRequest ==
    <<Task, Check, Free("address"), Check, Take("address"), Command, Done>>

(********************************** krakenf *********************************)

KrakenfUpdateSecurityList == <<Free("address"), Listed, Sync, Publish>>

KrakenfOnHistoricalFundingRatesRequest ==
    <<Task, Check, Take("address"), Read, Done>>

\* the answers come over a socket: connected and signed in first
KrakenfOnOrderStatusRequest ==
    <<Task, Check, Read, Free("address"), Take("address"), Read, Done>>

KrakenfOnMarketStatisticsRequest == <<Decline>>

KrakenfOnNewOrderSingleRequest ==
    <<Free("address"), Check, Task, Check, Take("address"), NewOrder, Done>>

KrakenfOnBalancesRequest ==
    <<Task, Read, Free("address"), Take("address"), Read, Done>>

KrakenfOnPositionsRequest ==
    <<Task, Check, Read, Free("address"), Take("address"), Read, Done>>

KrakenfOnOrderReplaceRequest ==
    <<Task, Check, Take("address"), Command, Done>>

KrakenfOnOrderCancelRequest ==
    <<Task, Check, Take("address"), Command, Done>>

KrakenfOnOrderMassCancelRequest ==
    <<Task, Check, Take("address"), Command, Done>>

(********************************** bybitl **********************************)

BybitlUpdateSecurityList == FullUpdate("get")

BybitlOnMarketStatisticsRequest ==
    <<Warn, Build, Free("get"), Take("get"), Task,
      Query("read", Refuse({"refused", "lost"})), Done>>

BybitlOnBalancesRequest ==
    <<Check, Build, Free("get"), Take("get"), Task,
      Query("read", Refuse({"refused", "lost"})), Done>>

BybitlOnPositionsRequest ==
    <<Check, Build, Free("get"), Take("get"), Task, Read, Done>>

BybitlOnAccountInformationRequest == <<Task>> \o ReadTask("get")

\* read page by page: only the first page may be refused for the limit. The

\* limit of trades, which is waited for and never looked at, only delays
BybitlOnFundingMovementRequest ==
    <<Check, Build, Free("get"), Take("get"), Task, Read,
      Skip(2), Wait("get"), Read, Done>>

BybitlOnDepositMovementRequest ==
    <<Build, Free("get"), Take("get"), Task, Read,
      Skip(2), Wait("get"), Read, Done>>

BybitlOnWithdrawalMovementRequest ==
    <<Build, Free("get"), Take("get"), Task, Read, Skip(2), Wait("get"), Read,
      Read, Skip(2), Wait("get"), Read, Done>>

BybitlOnAccountMovementRequest ==
    [funding |-> BybitlOnFundingMovementRequest,
     deposits |-> BybitlOnDepositMovementRequest,
     withdrawals |-> BybitlOnWithdrawalMovementRequest,
     otherMovements |-> <<Ignore>>]

BybitlOnTradeCaptureReportRequest ==
    <<Check, Build, Free("get"), Take("get"), Task, Read,
      Skip(2), Wait("get"), Read, Done>>

BybitlOnOrderStatusRequest ==
    <<Check, Build, Free("get"), Take("get"), Task, Read, Done>>

BybitlOnNewOrderSingleRequest ==
    <<Check, Free("order"), Take("order"), Check, Free("post"), Take("post"),
      Task, NewOrder, Done>>

BybitlOnOrderCancelRequest ==
    <<Check, Take("order"), Check, Take("post"), Task, Command, Done>>

BybitlOnOrderMassCancelRequest ==
    <<Check, Build, Take("post"), Task, Command, Done>>

BybitlOnOrderReplaceRequest ==
    <<Free("post"), Check, Build, Take("post"), Task, Command, Done>>

(********************************** bitmex **********************************)

BitmexUpdateSecurityList == ListUpdate("address")

BitmexOnOrderStatusRequest == <<Check>> \o FetchLater("address")

BitmexOnPositionsRequest == <<Check>> \o FetchLater("address")

BitmexOnBalancesRequest == FetchLater("address")

BitmexOnNewOrderSingleRequest ==
    <<Check, Build, Free("address"), Take("address"),
      Future("order", Unsure(Trouble) ++ Drop({"redirect"})), Done>>

\* counted when the reply is there
BitmexOnOrderReplaceRequest ==
    <<Build, Free("address"), Future("order", Unsure({"lost"})),
      Take("address"), Judge(Unsure({"refused"}) ++ Refuse({"odd"})
                             ++ Drop({"redirect"})), Done>>

BitmexOnOrderCancelRequest ==
    <<Build, Free("address"), Take("address"), LaterCommand, Done>>

BitmexOnOrderMassCancelRequest ==
    <<Check, Build, Free("address"), Take("address"), LaterCommand, Done>>

(*********************************** dydx ***********************************)

\* reads look at one limit and count under another
DydxUpdateSecurityList ==
    <<Free("address"), Take("get"), Listed, Sync, Publish>>

DydxOnOrderStatusRequest ==
    <<Check, Build, Free("address"), Take("get"), Fetch, Done>>

DydxOnPositionsRequest ==
    <<Check, Build, Free("address"), Take("get"), Fetch, Done>>

DydxOnBalancesRequest ==
    <<Build, Free("address"), Take("get"), Fetch, Done>>

DydxOnNewOrderSingleRequest ==
    <<Free("address"), Free("account"), Check, Build, Take("account"),
      Future("order", Unsure(Trouble) ++ Drop({"redirect"})), Done>>

DydxOnNewOrderBulkRequest == <<Ignore>>

DydxOnOrderReplaceRequest == <<Ignore>>

DydxOnOrderBulkReplaceRequest == <<Ignore>>

\* the answer to an error status is not followed by a return
DydxOnOrderCancelRequest ==
    <<Check, Build, Free("address"), Take("address"),
      Future("order", Unsure({"lost"}) ++ Warned({"refused"})
                      ++ Refuse({"odd", "redirect"})),
      Judge(Perhaps({"refused"})), Done>>

DydxOnOrderMassCancelRequest == <<Ignore>>

(******************************* okex and okexp *****************************)

OkexUpdateSecurityList == ListUpdate("address")

OkexOnHistoricalLiquidationsRequest == <<Check>> \o FetchLater("address")

\* one socket per key, connected and signed in by the actor
OkexOnBalancesRequest ==
    <<Skip(1), Read, Task, Free("address"), Take("address"), Read, Done>>

OkexOnPositionsRequest ==
    <<Skip(1), Read, Task, Check, Free("address"), Take("address"), Read, Done>>

OkexOnHistoricalFundingRatesRequest == FetchLater("address")

OkexOnOrderStatusRequest ==
    [anOrder |-> <<Task>> \o ReadTask("address"),
     allOrders |-> <<Task, Check, Read, Read, Done>>]

OkexOnMarketStatisticsRequest == Statistics("address")

OkexpUpdateSecurityList == ListUpdate("address")

OkexpOnHistoricalLiquidationsRequest == <<Check>> \o FetchLater("address")

OkexpOnHistoricalFundingRatesRequest == <<Check>> \o FetchLater("address")

OkexpOnMarketStatisticsRequest == Statistics("address")

(************************** venues without accounts *************************)

BitfinexUpdateSecurityList == ListUpdate("list")

BitfinexOnMarketDataRequest == <<Check>> \o FetchLater("address")

BithumbUpdateSecurityList == ListUpdate("address")

BithumbgUpdateSecurityList == ListUpdate("address")

BithumbgOnMarketDataRequest ==
    [snapshots |->
        <<Free("address"), Check, Build, Take("address"), Fetch, Done>>,
     otherAggregations |-> <<Free("address"), Check, Ignore>>]

BitstampUpdateSecurityList == ListUpdate("address")

BitstampOnMarketDataRequest == <<Check>> \o FetchLater("address")

\* the limit is neither looked at nor counted under
BitzUpdateSecurityList == <<Listed, Sync, Publish>>

BybitiUpdateSecurityList == ListUpdate("address")

BybitiOnHistoricalLiquidationsRequest == <<Check>> \o FetchLater("address")

BybitiOnMarketStatisticsRequest == <<Decline>>

BybitsUpdateSecurityList == ListUpdate("address")

CoinbaseproUpdateSecurityList == ListUpdate("address")

CoinbaseproOnHistoricalLiquidationsRequest == <<Decline>>

CoinbaseproOnMarketStatisticsRequest == <<Decline>>

CoinbaseproOnMarketDataRequest ==
    <<Free("address"), Check, Build, Take("address"), Fetch, Done>>

\* the currencies first, then the instruments of each
DeribitUpdateSecurityList ==
    <<Free("address"), Take("address"), Read,
      Free("address"), Take("address"), Listed, Sync, Publish>>

DeribitOnHistoricalLiquidationsRequest == <<Decline>>

DeribitOnMarketStatisticsRequest == <<Decline>>

GateUpdateSecurityList == ListUpdate("address")

GateOnHistoricalLiquidationsRequest == <<Decline>>

GateOnMarketStatisticsRequest == <<Decline>>

GateOnMarketDataRequest == <<Check>> \o FetchLater("address")

GatefUpdateSecurityList == ListUpdate("address")

GatefOnHistoricalLiquidationsRequest == <<Decline>>

GatefOnMarketStatisticsRequest == <<Decline>>

GatefOnMarketDataRequest == <<Check>> \o FetchLater("address")

GeminiUpdateSecurityList == ListUpdate("address")

HitbtcUpdateSecurityList == ListUpdate("address")

HuobiUpdateSecurityList == ListUpdate("address")

HuobifUpdateSecurityList == ListUpdate("address")

HuobilUpdateSecurityList == ListUpdate("address")

HuobilOnMarketStatisticsRequest == Statistics("address")

HuobipUpdateSecurityList == ListUpdate("address")

HuobipOnMarketStatisticsRequest == Statistics("address")

\* the error that a reply may carry is not looked at: the list is then empty
KrakenUpdateSecurityList ==
    <<Free("address"), Take("address"), Query("list", Refuse({"odd", "lost"})),
      Sync, Publish>>

KrakenOnHistoricalLiquidationsRequest == <<Decline>>

KrakenOnMarketDataRequest == <<Check>> \o FetchLater("address")

\* counted when the reply is there
OkcoinUpdateSecurityList ==
    <<Free("address"), Query("list", Refuse({"lost"})), Take("address"),
      Judge(Refuse({"refused", "odd"})), Sync, Publish>>

UpbitUpdateSecurityList == ListUpdate("address")

UpbitOnHistoricalLiquidationsRequest == <<Decline>>

UpbitOnMarketStatisticsRequest == <<Decline>>

UpbitOnMarketDataRequest == <<Ignore>>

UpbitOnOrderStatusRequest == <<Ignore>>

UpbitOnPositionsRequest == <<Ignore>>

UpbitOnBalancesRequest == <<Ignore>>

UpbitOnNewOrderSingleRequest == <<Ignore>>

UpbitOnNewOrderBulkRequest == <<Ignore>>

UpbitOnOrderReplaceRequest == <<Ignore>>

UpbitOnOrderBulkReplaceRequest == <<Ignore>>

UpbitOnOrderCancelRequest == <<Ignore>>

UpbitOnOrderMassCancelRequest == <<Ignore>>

(***************************************************************************)
(* The executors: the handlers of the requests each takes, its update of the *)
(* list, what it does when it starts, and whether it stays up when that      *)
(* fails (it only logs the failure).                                         *)
(***************************************************************************)
\* what BaseExecutor does for all of them
OnSecurityListRequest == <<Measure, Copy>>
OnUnsupportedRequest == <<Decline>>

Executor(update, requests) ==
    [update |-> update, boot |-> update, tolerant |-> FALSE,
     requests |-> requests ++ [securityList |-> OnSecurityListRequest,
                               others |-> OnUnsupportedRequest]]
Tolerant(executor) == [executor EXCEPT !.tolerant = TRUE]
NoRequest == << >>

FbinanceExecutor ==
    [Executor(FbinanceUpdateSecurityList,
        [marketStatistics |-> FbinanceOnMarketStatisticsRequest,
         marketData |-> FbinanceOnMarketDataRequest,
         accountInformation |-> FbinanceOnAccountInformationRequest,
         accountMovement |-> FbinanceOnAccountMovementRequest,
         tradeCaptureReport |-> FbinanceOnTradeCaptureReportRequest,
         orderStatus |-> FbinanceOnOrderStatusRequest,
         positions |-> FbinanceOnPositionsRequest,
         balances |-> FbinanceOnBalancesRequest,
         newOrderSingle |-> FbinanceOnNewOrderSingleRequest,
         orderCancel |-> FbinanceOnOrderCancelRequest,
         orderMassCancel |-> FbinanceOnOrderMassCancelRequest])
        EXCEPT !.boot = FbinanceInitialize]

BinanceExecutor ==
    [Executor(BinanceUpdateSecurityList,
        [marketData |-> BinanceOnMarketDataRequest,
         tradeCaptureReport |-> BinanceOnTradeCaptureReportRequest,
         orderStatus |-> BinanceOnOrderStatusRequest,
         positions |-> BinanceOnPositionsRequest,
         balances |-> BinanceOnBalancesRequest,
         newOrderSingle |-> BinanceOnNewOrderSingleRequest,
         orderCancel |-> BinanceOnOrderCancelRequest]
        ++ BinanceOnAccountMovementRequest)
        EXCEPT !.boot = BinanceInitialize]

KrakenfExecutor ==
    Executor(KrakenfUpdateSecurityList,
        [historicalFundingRates |-> KrakenfOnHistoricalFundingRatesRequest,
         orderStatus |-> KrakenfOnOrderStatusRequest,
         marketStatistics |-> KrakenfOnMarketStatisticsRequest,
         newOrderSingle |-> KrakenfOnNewOrderSingleRequest,
         balances |-> KrakenfOnBalancesRequest,
         positions |-> KrakenfOnPositionsRequest,
         orderReplace |-> KrakenfOnOrderReplaceRequest,
         orderCancel |-> KrakenfOnOrderCancelRequest,
         orderMassCancel |-> KrakenfOnOrderMassCancelRequest])

BybitlExecutor ==
    Tolerant(Executor(BybitlUpdateSecurityList,
        [marketStatistics |-> BybitlOnMarketStatisticsRequest,
         balances |-> BybitlOnBalancesRequest,
         positions |-> BybitlOnPositionsRequest,
         accountInformation |-> BybitlOnAccountInformationRequest,
         tradeCaptureReport |-> BybitlOnTradeCaptureReportRequest,
         orderStatus |-> BybitlOnOrderStatusRequest,
         newOrderSingle |-> BybitlOnNewOrderSingleRequest,
         orderCancel |-> BybitlOnOrderCancelRequest,
         orderMassCancel |-> BybitlOnOrderMassCancelRequest,
         orderReplace |-> BybitlOnOrderReplaceRequest]
        ++ BybitlOnAccountMovementRequest))

BitmexExecutor ==
    Executor(BitmexUpdateSecurityList,
        [orderStatus |-> BitmexOnOrderStatusRequest,
         positions |-> BitmexOnPositionsRequest,
         balances |-> BitmexOnBalancesRequest,
         newOrderSingle |-> BitmexOnNewOrderSingleRequest,
         orderReplace |-> BitmexOnOrderReplaceRequest,
         orderCancel |-> BitmexOnOrderCancelRequest,
         orderMassCancel |-> BitmexOnOrderMassCancelRequest])

DydxExecutor ==
    Executor(DydxUpdateSecurityList,
        [orderStatus |-> DydxOnOrderStatusRequest,
         positions |-> DydxOnPositionsRequest,
         balances |-> DydxOnBalancesRequest,
         newOrderSingle |-> DydxOnNewOrderSingleRequest,
         newOrderBulk |-> DydxOnNewOrderBulkRequest,
         orderReplace |-> DydxOnOrderReplaceRequest,
         orderBulkReplace |-> DydxOnOrderBulkReplaceRequest,
         orderCancel |-> DydxOnOrderCancelRequest,
         orderMassCancel |-> DydxOnOrderMassCancelRequest])

OkexExecutor ==
    Executor(OkexUpdateSecurityList,
        [historicalLiquidations |-> OkexOnHistoricalLiquidationsRequest,
         balances |-> OkexOnBalancesRequest,
         positions |-> OkexOnPositionsRequest,
         historicalFundingRates |-> OkexOnHistoricalFundingRatesRequest,
         marketStatistics |-> OkexOnMarketStatisticsRequest]
        ++ OkexOnOrderStatusRequest)

OkexpExecutor ==
    Executor(OkexpUpdateSecurityList,
        [historicalLiquidations |-> OkexpOnHistoricalLiquidationsRequest,
         historicalFundingRates |-> OkexpOnHistoricalFundingRatesRequest,
         marketStatistics |-> OkexpOnMarketStatisticsRequest])

BitfinexExecutor ==
    Tolerant(Executor(BitfinexUpdateSecurityList,
        [marketData |-> BitfinexOnMarketDataRequest]))

BithumbExecutor ==
    Executor(BithumbUpdateSecurityList, NoRequest)

BithumbgExecutor ==
    Executor(BithumbgUpdateSecurityList,
        BithumbgOnMarketDataRequest)

BitstampExecutor ==
    Executor(BitstampUpdateSecurityList,
        [marketData |-> BitstampOnMarketDataRequest])

BitzExecutor ==
    Executor(BitzUpdateSecurityList, NoRequest)

BybitiExecutor ==
    Tolerant(Executor(BybitiUpdateSecurityList,
        [historicalLiquidations |-> BybitiOnHistoricalLiquidationsRequest,
         marketStatistics |-> BybitiOnMarketStatisticsRequest]))

BybitsExecutor ==
    Tolerant(Executor(BybitsUpdateSecurityList, NoRequest))

CoinbaseproExecutor ==
    Executor(CoinbaseproUpdateSecurityList,
        [historicalLiquidations |-> CoinbaseproOnHistoricalLiquidationsRequest,
         marketStatistics |-> CoinbaseproOnMarketStatisticsRequest,
         marketData |-> CoinbaseproOnMarketDataRequest])

DeribitExecutor ==
    Executor(DeribitUpdateSecurityList,
        [historicalLiquidations |-> DeribitOnHistoricalLiquidationsRequest,
         marketStatistics |-> DeribitOnMarketStatisticsRequest])

GateExecutor ==
    Executor(GateUpdateSecurityList,
        [historicalLiquidations |-> GateOnHistoricalLiquidationsRequest,
         marketStatistics |-> GateOnMarketStatisticsRequest,
         marketData |-> GateOnMarketDataRequest])

GatefExecutor ==
    Executor(GatefUpdateSecurityList,
        [historicalLiquidations |-> GatefOnHistoricalLiquidationsRequest,
         marketStatistics |-> GatefOnMarketStatisticsRequest,
         marketData |-> GatefOnMarketDataRequest])

GeminiExecutor ==
    Executor(GeminiUpdateSecurityList, NoRequest)

HitbtcExecutor ==
    Executor(HitbtcUpdateSecurityList, NoRequest)

HuobiExecutor ==
    Executor(HuobiUpdateSecurityList, NoRequest)

HuobifExecutor ==
    Executor(HuobifUpdateSecurityList, NoRequest)

HuobilExecutor ==
    Executor(HuobilUpdateSecurityList,
        [marketStatistics |-> HuobilOnMarketStatisticsRequest])

HuobipExecutor ==
    Executor(HuobipUpdateSecurityList,
        [marketStatistics |-> HuobipOnMarketStatisticsRequest])

KrakenExecutor ==
    Executor(KrakenUpdateSecurityList,
        [historicalLiquidations |-> KrakenOnHistoricalLiquidationsRequest,
         marketData |-> KrakenOnMarketDataRequest])

OkcoinExecutor ==
    Executor(OkcoinUpdateSecurityList, NoRequest)

UpbitExecutor ==
    Executor(UpbitUpdateSecurityList,
        [historicalLiquidations |-> UpbitOnHistoricalLiquidationsRequest,
         marketStatistics |-> UpbitOnMarketStatisticsRequest,
         marketData |-> UpbitOnMarketDataRequest,
         orderStatus |-> UpbitOnOrderStatusRequest,
         positions |-> UpbitOnPositionsRequest,
         balances |-> UpbitOnBalancesRequest,
         newOrderSingle |-> UpbitOnNewOrderSingleRequest,
         newOrderBulk |-> UpbitOnNewOrderBulkRequest,
         orderReplace |-> UpbitOnOrderReplaceRequest,
         orderBulkReplace |-> UpbitOnOrderBulkReplaceRequest,
         orderCancel |-> UpbitOnOrderCancelRequest,
         orderMassCancel |-> UpbitOnOrderMassCancelRequest])

Executors ==
    [fbinance |-> FbinanceExecutor,
     binance |-> BinanceExecutor,
     krakenf |-> KrakenfExecutor,
     bybitl |-> BybitlExecutor,
     bitmex |-> BitmexExecutor,
     dydx |-> DydxExecutor,
     okex |-> OkexExecutor,
     okexp |-> OkexpExecutor,
     bitfinex |-> BitfinexExecutor,
     bithumb |-> BithumbExecutor,
     bithumbg |-> BithumbgExecutor,
     bitstamp |-> BitstampExecutor,
     bitz |-> BitzExecutor,
     bybiti |-> BybitiExecutor,
     bybits |-> BybitsExecutor,
     coinbasepro |-> CoinbaseproExecutor,
     deribit |-> DeribitExecutor,
     gate |-> GateExecutor,
     gatef |-> GatefExecutor,
     gemini |-> GeminiExecutor,
     hitbtc |-> HitbtcExecutor,
     huobi |-> HuobiExecutor,
     huobif |-> HuobifExecutor,
     huobil |-> HuobilExecutor,
     huobip |-> HuobipExecutor,
     kraken |-> KrakenExecutor,
     okcoin |-> OkcoinExecutor,
     upbit |-> UpbitExecutor]
=============================================================================
