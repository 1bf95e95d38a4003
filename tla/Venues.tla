------------------------------- MODULE Venues -------------------------------
(***************************************************************************)
(* How the market-data listener of each exchange subscribes and what it    *)
(* does with a message: the table VenueBook interprets.  The listeners are *)
(* exchanges/<venue>/listener.go (fbinance: module MarketData).            *)
(*                                                                         *)
(* <Venue>Subscribe, of subscribeInstrument:                               *)
(*   source   "stream": the exchange sends the book over the socket        *)
(*            "rest": the book is requested, from the executor             *)
(*   align    how the messages read by then are matched with the book:     *)
(*     stream "first"   the first message has to be the book               *)
(*            "patient" other messages are skipped, a change is an error   *)
(*            "search"  everything is skipped until the book               *)
(*            "buffer"  changes read before it go to the mailbox           *)
(*     rest   "none"    they are not                                       *)
(*            "next"    older changes are skipped, the next one is applied *)
(*            "exact"   one has the number of the book; a later one fails  *)
(*            "cover"   a gap fetches another book, else as "next"         *)
(*   clears   the deltas held back are forgotten                           *)
(*                                                                         *)
(* <Venue>OnMessage, of onWebsocketMessage:                                *)
(*   foreign  a message of an earlier socket is "skipped" or "taken"       *)
(*   order    what is numbered: "none", the "change" or each "message"     *)
(*   old      a change with a number passed already is "skipped" or a "gap"*)
(*   gap      a number is missing: "subscribe" again, "fail" (the actor    *)
(*            restarts) or "disconnect" (the next check subscribes)        *)
(*   body     "change": one level; "book": every level                     *)
(*   crossed  a crossed book: "subscribe", or its deltas are held back and *)
(*            it subscribes with the next order ("create") or once         *)
(*            the book has been crossed too often ("patience")             *)
(*                                                                         *)
(* <Venue>CheckSockets, of checkSockets: what is sent every few seconds    *)
(* beside the heartbeat: nothing ("none"), a "ping" (some send the         *)
(* subscription again for one), or a "list" of the subscriptions, whose    *)
(* failure is taken for that of the socket                                 *)
(***************************************************************************)

Unnumbered(foreign) ==
    [foreign |-> foreign, order |-> "none", old |-> "skipped", gap |-> "subscribe",
     body |-> "change", crossed |-> "subscribe"]
Numbered(foreign, old, gap) ==
    [Unnumbered(foreign) EXCEPT !.order = "change", !.old = old, !.gap = gap]

Checks(probe) == [probe |-> probe]

FromStream(align) == [source |-> "stream", align |-> align, clears |-> TRUE]
FromRest(align)   == [source |-> "rest", align |-> align, clears |-> TRUE]

BinanceSubscribe       == FromRest("next")
BinanceOnMessage       == Numbered("taken", "gap", "disconnect")
BinanceCheckSockets    == Checks("list")
BitfinexSubscribe      == FromStream("first")
BitfinexOnMessage      == Unnumbered("taken")
BitfinexCheckSockets   == Checks("none")
BithumbSubscribe       == FromStream("search")
BithumbOnMessage       == [Unnumbered("taken") EXCEPT !.body = "book"]
BithumbCheckSockets    == Checks("none")
BithumbgSubscribe      == FromRest("exact")
BithumbgOnMessage      == Numbered("taken", "skipped", "fail")
BithumbgCheckSockets   == Checks("ping")
BitmexSubscribe        == FromStream("first")
BitmexOnMessage        == Unnumbered("skipped")
BitmexCheckSockets     == Checks("ping")
BitstampL2Subscribe    == FromStream("first")
BitstampL2OnMessage    == [Unnumbered("taken") EXCEPT !.body = "book"]
BitstampL2CheckSockets == Checks("ping")
BitstampSubscribe      == FromRest("none")
BitstampOnMessage      == [Unnumbered("taken") EXCEPT !.crossed = "create"]
BitstampCheckSockets   == Checks("ping")
BitzSubscribe          == FromStream("first")
BitzOnMessage          == Unnumbered("taken")
BitzCheckSockets       == Checks("ping")
BybitiSubscribe        == FromStream("search")
BybitiOnMessage        == Unnumbered("skipped")
BybitiCheckSockets     == Checks("none")
BybitlSubscribe        == FromStream("search")
BybitlOnMessage        == Unnumbered("skipped")
BybitlCheckSockets     == Checks("none")
BybitsSubscribe        == FromStream("search")
BybitsOnMessage        == Unnumbered("skipped")
BybitsCheckSockets     == Checks("ping")
CoinbaseproSubscribe   == FromRest("exact")
CoinbaseproOnMessage   == Numbered("skipped", "skipped", "subscribe")
CoinbaseproCheckSockets == Checks("none")
DeribitSubscribe       == FromStream("search")
DeribitOnMessage       == Numbered("taken", "skipped", "subscribe")
DeribitCheckSockets    == Checks("none")
DydxSubscribe          == [FromStream("first") EXCEPT !.clears = FALSE]
DydxOnMessage          == [Numbered("skipped", "gap", "subscribe") EXCEPT
                            !.order = "message", !.crossed = "patience"]
DydxCheckSockets       == Checks("ping")
GateSubscribe          == FromRest("cover")
GateOnMessage          == Numbered("taken", "skipped", "fail")
GateCheckSockets       == Checks("none")
GatefSubscribe         == FromRest("cover")
GatefOnMessage         == Numbered("taken", "skipped", "fail")
GatefCheckSockets      == Checks("none")
GeminiSubscribe        == FromStream("first")
GeminiOnMessage        == Unnumbered("taken")
GeminiCheckSockets     == Checks("none")
HitbtcSubscribe        == FromStream("first")
HitbtcOnMessage        == Numbered("taken", "gap", "subscribe")
HitbtcCheckSockets     == Checks("none")
HuobiSubscribe         == FromStream("buffer")
HuobiOnMessage         == Numbered("taken", "skipped", "subscribe")
HuobiCheckSockets      == Checks("ping")
HuobifSubscribe        == FromStream("patient")
HuobifOnMessage        == Numbered("taken", "skipped", "subscribe")
HuobifCheckSockets     == Checks("none")
HuobilSubscribe        == FromStream("patient")
HuobilOnMessage        == Numbered("taken", "skipped", "subscribe")
HuobilCheckSockets     == Checks("none")
HuobipSubscribe        == FromStream("patient")
HuobipOnMessage        == Numbered("taken", "skipped", "subscribe")
HuobipCheckSockets     == Checks("none")
KrakenSubscribe        == FromStream("patient")
KrakenOnMessage        == Unnumbered("taken")
KrakenCheckSockets     == Checks("ping")
KrakenfSubscribe       == FromStream("search")
KrakenfOnMessage       == Numbered("skipped", "gap", "subscribe")
KrakenfCheckSockets    == Checks("none")
OkcoinSubscribe        == FromStream("first")
OkcoinOnMessage        == Unnumbered("taken")
OkcoinCheckSockets     == Checks("ping")
OkexSubscribe          == FromStream("first")
OkexOnMessage          == Unnumbered("skipped")
OkexCheckSockets       == Checks("ping")
OkexpSubscribe         == FromStream("first")
OkexpOnMessage         == Unnumbered("skipped")
OkexpCheckSockets      == Checks("ping")
UpbitSubscribe         == FromStream("patient")
UpbitOnMessage         == [Unnumbered("taken") EXCEPT !.body = "book"]
UpbitCheckSockets      == Checks("ping")

Rules(subscribe, onMessage, checkSockets) ==
    [subscribe |-> subscribe, onMessage |-> onMessage, checkSockets |-> checkSockets]

Venue ==
    [binance     |-> Rules(BinanceSubscribe, BinanceOnMessage, BinanceCheckSockets),
     bitfinex    |-> Rules(BitfinexSubscribe, BitfinexOnMessage, BitfinexCheckSockets),
     bithumb     |-> Rules(BithumbSubscribe, BithumbOnMessage, BithumbCheckSockets),
     bithumbg    |-> Rules(BithumbgSubscribe, BithumbgOnMessage, BithumbgCheckSockets),
     bitmex      |-> Rules(BitmexSubscribe, BitmexOnMessage, BitmexCheckSockets),
     bitstampL2  |-> Rules(BitstampL2Subscribe, BitstampL2OnMessage, BitstampL2CheckSockets),
     bitstamp    |-> Rules(BitstampSubscribe, BitstampOnMessage, BitstampCheckSockets),
     bitz        |-> Rules(BitzSubscribe, BitzOnMessage, BitzCheckSockets),
     bybiti      |-> Rules(BybitiSubscribe, BybitiOnMessage, BybitiCheckSockets),
     bybitl      |-> Rules(BybitlSubscribe, BybitlOnMessage, BybitlCheckSockets),
     bybits      |-> Rules(BybitsSubscribe, BybitsOnMessage, BybitsCheckSockets),
     coinbasepro |-> Rules(CoinbaseproSubscribe, CoinbaseproOnMessage, CoinbaseproCheckSockets),
     deribit     |-> Rules(DeribitSubscribe, DeribitOnMessage, DeribitCheckSockets),
     dydx        |-> Rules(DydxSubscribe, DydxOnMessage, DydxCheckSockets),
     gate        |-> Rules(GateSubscribe, GateOnMessage, GateCheckSockets),
     gatef       |-> Rules(GatefSubscribe, GatefOnMessage, GatefCheckSockets),
     gemini      |-> Rules(GeminiSubscribe, GeminiOnMessage, GeminiCheckSockets),
     hitbtc      |-> Rules(HitbtcSubscribe, HitbtcOnMessage, HitbtcCheckSockets),
     huobi       |-> Rules(HuobiSubscribe, HuobiOnMessage, HuobiCheckSockets),
     huobif      |-> Rules(HuobifSubscribe, HuobifOnMessage, HuobifCheckSockets),
     huobil      |-> Rules(HuobilSubscribe, HuobilOnMessage, HuobilCheckSockets),
     huobip      |-> Rules(HuobipSubscribe, HuobipOnMessage, HuobipCheckSockets),
     kraken      |-> Rules(KrakenSubscribe, KrakenOnMessage, KrakenCheckSockets),
     krakenf     |-> Rules(KrakenfSubscribe, KrakenfOnMessage, KrakenfCheckSockets),
     okcoin      |-> Rules(OkcoinSubscribe, OkcoinOnMessage, OkcoinCheckSockets),
     okex        |-> Rules(OkexSubscribe, OkexOnMessage, OkexCheckSockets),
     okexp       |-> Rules(OkexpSubscribe, OkexpOnMessage, OkexpCheckSockets),
     upbit       |-> Rules(UpbitSubscribe, UpbitOnMessage, UpbitCheckSockets)]
=============================================================================
