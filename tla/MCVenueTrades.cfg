SPECIFICATION Spec
CONSTANTS
    Names = {"binance", "bitfinex", "bithumb", "bithumbg", "bitmex", "bitstamp", "bitstampL2", "bitz", "bybiti", "bybitl",
             "bybits", "coinbasepro", "deribit", "dydx", "fbinance", "gate", "gatef", "gemini", "hitbtc", "huobi",
             "huobif", "huobil", "huobip", "kraken", "krakenf", "okcoin", "okex", "okexp", "upbit"}
    MaxTrades = 4
    MaxBatch = 3
    MaxTime = 5
    Age = 2
INVARIANTS TypeOK EachOnceInOrder TimestampsSound AggregatesDistinct TimerPublishes
CHECK_DEADLOCK FALSE
