SPECIFICATION FairSpec
CONSTANTS
    Names = {"binance", "bitfinex", "bithumb", "bithumbg", "bitmex", "bitstampL2", "bitstamp", "bitz", "bybiti",
             "bybitl", "bybits", "coinbasepro", "deribit", "gate", "gatef", "gemini", "hitbtc", "huobi",
             "huobif", "huobil", "huobip", "kraken", "krakenf", "okcoin", "okex", "okexp", "upbit", "dydx"}
    bid = bid
    ask = ask
    Sides = {bid, ask}
    deep = deep
    Deep = deep
    MaxChanges = 3
    MaxFaults = 2
    Patience = 1
ACTION_CONSTRAINT FirstAtBid
INVARIANTS TypeOK BookSound FollowerSound
PROPERTIES CatchesUp
CHECK_DEADLOCK FALSE
