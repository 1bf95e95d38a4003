---------------------------- MODULE VenueTrades ----------------------------
(***************************************************************************)
(* How the market-data listeners publish the trades of their exchange:     *)
(* trades of one taker become an aggregate, the timestamps of aggregates   *)
(* increase.  exchanges/<venue>/listener.go, the trade branch of           *)
(* onWebsocketMessage, and postAggTrade.                                   *)
(*                                                                         *)
(* <Venue>Trades:                                                          *)
(*   flush  "batch": runs of trades of a message are aggregates            *)
(*          "sides": one aggregate of its buys, one of its sells           *)
(*          "single": the exchange aggregates                              *)
(*          "stash": a timer publishes what is older than 20 ms            *)
(*          "event": the next event publishes                              *)
(*   key    what the trades of an aggregate share: "time" (and side),      *)
(*          "shifted" (the time, one more for a buy), taker's "order",     *)
(*          or "trade" (nothing: a trade id is compared with an order id)  *)
(*   id     AggregateID is the "key", or the id of the "first" trade       *)
(*   late   the timer, less the age it asks for                            *)
(*   timer  per "aggregate" or per "message"                               *)
(*   bump   the timestamp is made later than the one before                *)
(***************************************************************************)
EXTENDS Integers, Sequences, FiniteSets, SequencesExt

Batch(key, id) == [flush |-> "batch", key |-> key, id |-> id, late |-> 0,
                   timer |-> "aggregate", bump |-> TRUE]
Stash(key, late) == [Batch(key, "key") EXCEPT !.flush = "stash", !.late = late]
BySide == [Batch("time", "first") EXCEPT !.flush = "sides"]

BinanceTrades     == [Stash("trade", 1) EXCEPT !.id = "first"]
BitfinexTrades    == Stash("time", 1)
BithumbTrades     == Stash("time", 0)
BithumbgTrades    == [Batch("trade", "first") EXCEPT !.flush = "single", !.bump = FALSE]
BitmexTrades      == Batch("time", "key")
BitstampL2Trades  == Stash("order", 0)
BitstampTrades    == Stash("order", 0)
BitzTrades        == BySide
BybitiTrades      == Batch("time", "first")
BybitlTrades      == Batch("time", "first")
BybitsTrades      == Batch("time", "first")
CoinbaseproTrades == [Batch("order", "key") EXCEPT !.flush = "event"]
DeribitTrades     == Batch("shifted", "first")
DydxTrades        == Batch("time", "key")
FbinanceTrades    == [Batch("trade", "first") EXCEPT !.flush = "single"]
GateTrades        == Stash("time", 0)
GatefTrades       == [Stash("time", 0) EXCEPT !.timer = "message"]
GeminiTrades      == Stash("time", 1)
HitbtcTrades      == Batch("time", "first")
HuobiTrades       == Batch("time", "first")
HuobifTrades      == Batch("time", "first")
HuobilTrades      == Batch("time", "first")
HuobipTrades      == Batch("time", "first")
KrakenTrades      == BySide
KrakenfTrades     == Stash("time", 0)
OkcoinTrades      == Batch("time", "key")
OkexTrades        == Stash("time", 0)
OkexpTrades       == Stash("time", 0)
UpbitTrades       == Stash("time", 0)

VenueTrade ==
    [binance |-> BinanceTrades, bitfinex |-> BitfinexTrades, bithumb |-> BithumbTrades,
     bithumbg |-> BithumbgTrades, bitmex |-> BitmexTrades, bitstampL2 |-> BitstampL2Trades,
     bitstamp |-> BitstampTrades, bitz |-> BitzTrades, bybiti |-> BybitiTrades,
     bybitl |-> BybitlTrades, bybits |-> BybitsTrades, coinbasepro |-> CoinbaseproTrades,
     deribit |-> DeribitTrades, dydx |-> DydxTrades, fbinance |-> FbinanceTrades,
     gate |-> GateTrades, gatef |-> GatefTrades, gemini |-> GeminiTrades,
     hitbtc |-> HitbtcTrades, huobi |-> HuobiTrades, huobif |-> HuobifTrades,
     huobil |-> HuobilTrades, huobip |-> HuobipTrades, kraken |-> KrakenTrades,
     krakenf |-> KrakenfTrades, okcoin |-> OkcoinTrades, okex |-> OkexTrades,
     okexp |-> OkexpTrades, upbit |-> UpbitTrades]

CONSTANTS
    Names,          \* the venues of the instance
    MaxTrades,      \* bound on the trades
    MaxBatch,       \* bound on the trades of a message
    MaxTime,        \* bound on the clock, in milliseconds
    Age             \* the age at which a stashed aggregate is complete (20 in the code)

ASSUME TradeBounds ==
    /\ Names \subseteq DOMAIN VenueTrade
    /\ MaxTrades \in Nat /\ MaxBatch \in Nat /\ MaxTime \in Nat \ {0} /\ Age \in Nat

VARIABLES
    rules,          \* of the venue
    now,            \* the clock
    trades,         \* external: the trades of the exchange, in order
    stash,          \* stashedTrades, oldest first
    open,           \* aggTrade # nil: it is the last of the stash
    lastTs,         \* lastAggTradeTs
    timers,         \* when the timers under way are due, in order
    published       \* the aggregates sent, in order

vars == <<rules, now, trades, stash, open, lastTs, timers, published>>

Sides == {"buy", "sell"}

\* Mutant: the side is not compared.
KeySideless(x) ==
    CASE rules.key \in {"time", "shifted"} -> <<x.time>>
      [] rules.key = "order"   -> <<x.order>>
      [] rules.key = "trade"   -> <<x.n, "trade">>

Key(x) ==
    CASE rules.key = "time"    -> <<x.time, x.side>>
      [] rules.key = "shifted" -> <<x.time + (IF x.side = "buy" THEN 1 ELSE 0)>>
      [] rules.key = "order"   -> <<x.order>>
      [] rules.key = "trade"   -> <<x.n, "trade">>

New(x, ts) == [id |-> IF rules.id = "key" THEN Key(x) ELSE <<x.n>>, key |-> Key(x), ts |-> ts,
               at |-> now, side |-> x.side, trades |-> <<x.n>>]

With(agg, x) == [agg EXCEPT !.trades = Append(@, x.n)]

TypeOK ==
    /\ now \in 1..MaxTime /\ lastTs \in Nat /\ open \in BOOLEAN
    /\ \A i \in 1..Len(trades) : trades[i].n = i /\ trades[i].side \in Sides
    /\ \A i \in 1..Len(timers) : timers[i] \in Nat
    /\ open => stash # <<>>

Init ==
    /\ rules \in {VenueTrade[v] : v \in Names}
    /\ now = 1 /\ trades = <<>>
    /\ stash = <<>> /\ open = FALSE /\ lastTs = 0 /\ timers = <<>> /\ published = <<>>

\* External: time, which outruns no timer by more than a millisecond.
Tick ==
    /\ now < MaxTime /\ now' = now + 1
    /\ \A i \in 1..Len(timers) : timers[i] >= now
    /\ UNCHANGED <<rules, trades, stash, open, lastTs, timers, published>>
----------------------------------------------------------------------------
(***************************************************************************)
(* A message with trades: of a new taker each, or one more of the last.    *)
(***************************************************************************)
First == [n |-> 1, time |-> 0, order |-> 0, side |-> "buy"]

Following(x) ==
    {[x EXCEPT !.n = @ + 1]} \cup
    {[n |-> x.n + 1, time |-> t, order |-> x.order + 1, side |-> s] :
        t \in {x.time, x.time + 1}, s \in Sides}

\* The trades that can be next.
NextTrades(q) == IF q = <<>> THEN {First} ELSE Following(Last(q))

\* What a message has: m more trades.
Messages ==
    LET grown[m \in 0..MaxBatch] ==
            IF m = 0 THEN {<<>>}
            ELSE UNION {{Append(q, y) : y \in NextTrades(trades \o q)} : q \in grown[m - 1]}
    IN  UNION {grown[m] : m \in {k \in 1..MaxBatch : Len(trades) + k <= MaxTrades}}

Stamp(ts, last) == IF rules.bump /\ ts <= last THEN last + 1 ELSE ts

\* Mutant: a trade that belongs to the aggregate is left out of it.
GatherEager(acc, x) ==
    IF acc.open /\ Last(acc.stash).key = Key(x) THEN acc
    ELSE LET ts == Stamp(now, acc.last) IN
         [out    |-> IF rules.flush = "event" THEN acc.out \o acc.stash ELSE acc.out,
          stash  |-> Append(IF rules.flush = "event" THEN <<>> ELSE acc.stash, New(x, ts)),
          open   |-> TRUE,
          last   |-> ts,
          timers |-> IF rules.flush = "stash" /\ rules.timer = "aggregate"
                     THEN Append(acc.timers, now + Age + rules.late) ELSE acc.timers]

\* A trade joins the aggregate in the making or begins another; where events
\* publish, that completes the one before.
Gather(acc, x) ==
    IF acc.open /\ Last(acc.stash).key = Key(x)
    THEN [acc EXCEPT !.stash[Len(acc.stash)] = With(@, x)]
    ELSE LET ts == Stamp(now, acc.last) IN
         [out    |-> IF rules.flush = "event" THEN acc.out \o acc.stash ELSE acc.out,
          stash  |-> Append(IF rules.flush = "event" THEN <<>> ELSE acc.stash, New(x, ts)),
          open   |-> TRUE,
          last   |-> ts,
          timers |-> IF rules.flush = "stash" /\ rules.timer = "aggregate"
                     THEN Append(acc.timers, now + Age + rules.late) ELSE acc.timers]

Gathered(message) ==
    FoldLeft(Gather, [out |-> published, stash |-> stash, open |-> open, last |-> lastTs,
                      timers |-> timers], message)

\* The aggregates of a message are published with it.
PublishBatch(message) ==
    LET acc == Gathered(message) IN
    /\ published' = acc.out \o acc.stash /\ lastTs' = acc.last
    /\ UNCHANGED <<stash, open, timers>>

\* They wait for a timer, or for an event.
Stashes(message) ==
    LET acc == Gathered(message) IN
    /\ published' = acc.out /\ stash' = acc.stash /\ open' = acc.open /\ lastTs' = acc.last
    /\ timers' = IF rules.timer = "message" THEN Append(acc.timers, now + Age + rules.late)
                 ELSE acc.timers

\* The buys, then the sells, whatever their order was.
Sort(acc, x) == [acc EXCEPT ![x.side] = Append(@, x)]

Joined(q, ts) == [New(q[1], ts) EXCEPT !.trades = [i \in DOMAIN q |-> q[i].n]]

PublishSides(message) ==
    LET of    == FoldLeft(Sort, [side \in Sides |-> <<>>], message)
        first == Stamp(now, lastTs)
        then  == IF of["buy"] = <<>> THEN first ELSE Stamp(now, first)
        buys  == IF of["buy"] = <<>> THEN <<>> ELSE <<Joined(of["buy"], first)>>
        sells == IF of["sell"] = <<>> THEN <<>> ELSE <<Joined(of["sell"], then)>>
    IN  /\ published' = published \o buys \o sells
        /\ lastTs' = IF of["sell"] = <<>> THEN first ELSE then
        /\ UNCHANGED <<stash, open, timers>>

OnTrades ==
    \E message \in Messages :
        /\ trades' = trades \o message
        /\ \/ rules.flush \in {"batch", "single"} /\ PublishBatch(message)
           \/ rules.flush = "sides" /\ PublishSides(message)
           \/ rules.flush \in {"stash", "event"} /\ Stashes(message)
        /\ UNCHANGED <<rules, now>>

\* Mutant: the aggregate that was published last is still the current one.
PostOpen ==
    /\ rules.flush = "stash" /\ timers # <<>> /\ Head(timers) <= now
    /\ timers' = Tail(timers)
    /\ LET old == {i \in 0..Len(stash) : \A j \in 1..i : now - stash[j].ts > Age}
           n == CHOOSE i \in old : \A j \in old : j <= i
       IN  /\ published' = published \o SubSeq(stash, 1, n)
           /\ stash' = SubSeq(stash, n + 1, Len(stash))
           /\ open' = open
    /\ UNCHANGED <<rules, now, trades, lastTs>>

\* Mutant: a timer publishes an aggregate of any age.
PostYoung ==
    /\ rules.flush = "stash" /\ timers # <<>> /\ Head(timers) <= now
    /\ timers' = Tail(timers)
    /\ stash # <<>>
    /\ published' = Append(published, Head(stash)) /\ stash' = Tail(stash)
    /\ open' = (open /\ stash' # <<>>)
    /\ UNCHANGED <<rules, now, trades, lastTs>>

\* Mutant: an aggregate has to be one millisecond older.
PostLate ==
    /\ rules.flush = "stash" /\ timers # <<>> /\ Head(timers) <= now
    /\ timers' = Tail(timers)
    /\ LET old == {i \in 0..Len(stash) : \A j \in 1..i : now - stash[j].ts > Age + 1}
           n == CHOOSE i \in old : \A j \in old : j <= i
       IN  /\ published' = published \o SubSeq(stash, 1, n)
           /\ stash' = SubSeq(stash, n + 1, Len(stash))
           /\ open' = (open /\ stash' # <<>>)
    /\ UNCHANGED <<rules, now, trades, lastTs>>

\* postAggTrade when a timer fires: from the front of the stash, until one is
\* not old enough.
Post ==
    /\ rules.flush = "stash" /\ timers # <<>> /\ Head(timers) <= now
    /\ timers' = Tail(timers)
    /\ LET old == {i \in 0..Len(stash) : \A j \in 1..i : now - stash[j].ts > Age}
           n == CHOOSE i \in old : \A j \in old : j <= i
       IN  /\ published' = published \o SubSeq(stash, 1, n)
           /\ stash' = SubSeq(stash, n + 1, Len(stash))
           /\ open' = (open /\ stash' # <<>>)
    /\ UNCHANGED <<rules, now, trades, lastTs>>

\* An order is opened, changed, done or received: the aggregate is complete.
OnOtherEvent ==
    /\ rules.flush = "event" /\ stash # <<>>
    /\ published' = published \o stash /\ stash' = <<>> /\ open' = FALSE
    /\ UNCHANGED <<rules, now, trades, lastTs, timers>>

Next == Tick \/ OnTrades \/ Post \/ OnOtherEvent

Spec == Init /\ [][Next]_vars
----------------------------------------------------------------------------
(***************************************************************************)
(* Properties.                                                             *)
(***************************************************************************)
Aggregated == published \o stash

\* No trade is lost, published twice, or overtaken by a later one (of its side,
\* where a message is split by sides).
EachOnceInOrder ==
    /\ \A n \in 1..Len(trades) : \E i \in DOMAIN Aggregated : n \in Range(Aggregated[i].trades)
    /\ \A i, j \in DOMAIN Aggregated :
        \A k \in DOMAIN Aggregated[i].trades, l \in DOMAIN Aggregated[j].trades :
            LET m == Aggregated[i].trades[k]
                n == Aggregated[j].trades[l]
            IN  /\ {m, n} \subseteq 1..Len(trades)
                /\ i < j \/ (i = j /\ k < l) =>
                      /\ m # n
                      /\ rules.flush # "sides" \/ trades[m].side = trades[n].side => m < n

\* "ensure increasing timestamp" (exchanges/gemini/listener.go): two aggregates
\* never have the same one, also if they come in one message; and the one the
\* stash begins with is never ahead of the clock: its unsigned age cannot wrap.
TimestampsSound ==
    /\ rules.bump => \A i \in 1..Len(Aggregated) - 1 : Aggregated[i].ts < Aggregated[i + 1].ts
    /\ rules.flush = "stash" /\ stash # <<>> => stash[1].ts <= now

\* "do that so new agg trade if side changes" (exchanges/huobi/listener.go): the
\* side of an aggregate is that of its trades.  (deribit adds one to the time of a
\* buy and compares nothing else: a buy and the sell of one millisecond later
\* become one aggregate.)  And "duplicate aggregate ID" fails a listener's test
\* (exchanges/tests/utils.go): where the id is a trade's, no two aggregates share
\* one; where it is a time and a side, a buy, a sell and a buy at one time do.
AggregatesDistinct ==
    /\ rules.key # "shifted" =>
           \A i \in DOMAIN Aggregated : \A n \in Range(Aggregated[i].trades) :
               trades[n].side = Aggregated[i].side
    /\ rules.id = "first" =>
           \A i, j \in DOMAIN Aggregated : i # j => Aggregated[i].id # Aggregated[j].id

\* "start the timer on trade creation, it will publish the trade in 20 ms"
\* (exchanges/gemini/listener.go).  Where the timer is later than the age asked
\* for, it does, unless the timestamp was moved to come after another's: such an
\* aggregate stays until a timer of a later trade.
TimerPublishes ==
    rules.flush = "stash" /\ rules.late > 0 /\ timers = <<>> /\ stash # <<>> =>
        stash[1].ts > stash[1].at
=============================================================================
