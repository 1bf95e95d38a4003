--------------------------- MODULE AccountListener ---------------------------
(***************************************************************************)
(* exchanges/fbinance/account.go: the actor that keeps one Account in step *)
(* with the exchange.  It shares the Account with its own earlier          *)
(* incarnations (the actor's producer captures it), talks to the exchange  *)
(* by two channels that are not ordered with each other                    *)
(*    - REST requests through the exchange's executor, each with a future  *)
(*      of ten seconds; an answer that comes later is lost, the request    *)
(*      may be carried out all the same;                                   *)
(*    - the user data stream, a websocket with one event per change;       *)
(* and repairs itself by failing: a panic restarts the actor, Restarting   *)
(* cancels everything, Started fetches positions and orders and syncs.     *)
(*                                                                         *)
(* The actor handles one message at a time.  Its mailbox is not modelled   *)
(* as one queue: requests, continuations of futures and ticks reach it in  *)
(* any order, the events of one socket in the order they were sent.        *)
(* Continuations are system messages: they also run between a panic and    *)
(* the restart, and those of earlier incarnations run in later ones.       *)
(*                                                                         *)
(* One security; positions are counted in lots, cost and balances are      *)
(* left out.  Replace requests are not handled by this listener (TODO).    *)
(***************************************************************************)
EXTENDS AccountOps, Sequences, SequencesExt

CONSTANTS
    MaxCancels,     \* bound on the cancel requests users send
    MaxFaults       \* bound on lost answers, lost sockets, failed fetches

ASSUME ListenerBounds == IsFiniteSet(ClIDs) /\ MaxCancels \in Nat /\ MaxFaults \in Nat

VARIABLES
    acct,       \* the orders of the Account
    pos,        \* the position of the Account
    phase,      \* where the actor is in its life cycle
    fetched,    \* the position Initialize has fetched
    future,     \* per order, what the futures of its two requests hold
    owed,       \* requests whose sender has not been answered
    socket,     \* the user data stream, with the events not handled yet
    exch,       \* external: the orders at the exchange
    exchPos,    \* external: the position at the exchange
    cancels,    \* cancel requests on their way to the exchange
    mass,       \* a mass cancel request is on its way to the exchange
    seamless,   \* ghost: since Sync the stream carried each fill, once
    sent,       \* cancel requests sent, for the bound
    hasty,      \* ghost: an order was canceled before it was confirmed
    faults      \* faults so far, for the bound

actor == <<phase, fetched, future, owed>>
world == <<exch, exchPos, cancels, mass>>
count == <<sent, hasty, faults>>
vars  == <<acct, pos, actor, socket, world, seamless, count>>

NewAnswers    == {"New", "Filled", "Expired", "refused", "timeout"}
CancelAnswers == {"ok", "unknown", "refused", "timeout"}

Event == [ev : {"new", "trade", "canceled", "expired"}, c : ClIDs, id : ExIDs, qty : 0..MaxLots]

\* An order at the exchange; "Sent" is a request that has not arrived.
ExchangeOrder ==
    [ at : {"None", "Sent", "Live", "Done"}, side : Sides, type : Types,
      id : ExIDs \cup {NoID}, leaves : 0..MaxLots, cum : 0..MaxLots ]

TypeOK ==
    /\ acct \in AccountType
    /\ {pos, fetched, exchPos} \subseteq Int
    /\ phase \in {"subscribe", "positions", "orders", "running", "failed"}
    /\ future \in [ClIDs -> [new : {"none", "waiting"} \cup NewAnswers,
                             cancel : {"none", "waiting"} \cup CancelAnswers]]
    /\ owed \subseteq {"new", "cancel"} \X ClIDs
    /\ socket.up \in BOOLEAN /\ socket.q \in Seq(Event)
    /\ exch \in [ClIDs -> ExchangeOrder]
    /\ cancels \subseteq ClIDs
    /\ {mass, seamless, hasty} \subseteq BOOLEAN
    /\ sent \in 0..MaxCancels /\ faults \in 0..MaxFaults

NoSocket == [up |-> FALSE, q |-> <<>>]

Init ==
    /\ acct = NewAccount /\ pos = 0
    /\ phase = "subscribe" /\ fetched = 0
    /\ future = [c \in ClIDs |-> [new |-> "none", cancel |-> "none"]]
    /\ owed = {}
    /\ socket = NoSocket
    /\ exch = [c \in ClIDs |-> [at |-> "None", side |-> "Buy", type |-> "Limit",
                                id |-> NoID, leaves |-> 0, cum |-> 0]]
    /\ exchPos = 0 /\ cancels = {} /\ mass = FALSE
    /\ seamless = FALSE /\ hasty = FALSE /\ sent = 0 /\ faults = 0

Signed(side, qty) == IF side = "Buy" THEN qty ELSE -qty

Live(c) == exch[c].at = "Live"

Fault == faults < MaxFaults /\ faults' = faults + 1 /\ UNCHANGED <<sent, hasty>>
----------------------------------------------------------------------------
(***************************************************************************)
(* External: the exchange and the executor in front of it.                 *)
(***************************************************************************)

\* The stream carries what happens while it is up.
Emit(events) ==
    socket' = IF socket.up THEN [socket EXCEPT !.q = @ \o events] ELSE socket

Answer(request, c, a) ==
    future' = IF future[c][request] = "waiting"
              THEN [future EXCEPT ![c][request] = a] ELSE future

Happened(kind, c, id, qty) == [ev |-> kind, c |-> c, id |-> id, qty |-> qty]

FreshID(x) == \A d \in ClIDs : exch[d].id # x

\* A new order rests, executes at once or expires at once (fill or kill); its
\* answer carries its status.
Accept(c) ==
    /\ exch[c].at = "Sent"
    /\ \E x \in ExIDs :
        /\ FreshID(x)
        /\ \/ /\ exch[c].type = "Limit"
              /\ exch' = [exch EXCEPT ![c] = [@ EXCEPT !.at = "Live", !.id = x]]
              /\ Emit(<<Happened("new", c, x, 0)>>)
              /\ Answer("new", c, "New")
              /\ exchPos' = exchPos
           \/ /\ exch' = [exch EXCEPT ![c] = [@ EXCEPT !.at = "Done", !.id = x, !.leaves = 0,
                                                   !.cum = exch[c].leaves]]
              /\ Emit(<<Happened("new", c, x, 0), Happened("trade", c, x, exch[c].leaves)>>)
              /\ Answer("new", c, "Filled")
              /\ exchPos' = exchPos + Signed(exch[c].side, exch[c].leaves)
           \/ /\ exch' = [exch EXCEPT ![c] = [@ EXCEPT !.at = "Done", !.id = x]]
              /\ Emit(<<Happened("new", c, x, 0), Happened("expired", c, x, 0)>>)
              /\ Answer("new", c, "Expired")
              /\ exchPos' = exchPos
    /\ UNCHANGED <<acct, pos, phase, fetched, owed, cancels, mass, seamless, count>>

\* The executor (rate limits, HTTP errors) or the exchange refuses a request.
RefuseNew(c) ==
    /\ exch[c].at = "Sent"
    /\ exch' = [exch EXCEPT ![c].at = "Done"]
    /\ Answer("new", c, "refused")
    /\ UNCHANGED <<acct, pos, phase, fetched, owed, socket, exchPos, cancels, mass,
                   seamless, count>>

\* A cancel request that arrives before its order is of an unknown order.
CarryOutCancel(c) ==
    /\ c \in cancels
    /\ cancels' = cancels \ {c}
    /\ IF Live(c)
       THEN /\ exch' = [exch EXCEPT ![c].at = "Done"]
            /\ Emit(<<Happened("canceled", c, exch[c].id, 0)>>)
            /\ Answer("cancel", c, "ok")
       ELSE Answer("cancel", c, "unknown") /\ UNCHANGED <<exch, socket>>
    /\ UNCHANGED <<acct, pos, phase, fetched, owed, exchPos, mass, seamless, count>>

RefuseCancel(c) ==
    /\ c \in cancels
    /\ cancels' = cancels \ {c}
    /\ Answer("cancel", c, "refused")
    /\ UNCHANGED <<acct, pos, phase, fetched, owed, socket, exch, exchPos, mass,
                   seamless, count>>

\* No answer in ten seconds, or an HTTP error after the request was sent: the
\* request may still be carried out.
LoseAnswer(request, c) ==
    /\ future[c][request] = "waiting"
    /\ \E a \in {"timeout", "refused"} : future' = [future EXCEPT ![c][request] = a]
    /\ Fault
    /\ UNCHANGED <<acct, pos, phase, fetched, owed, socket, world, seamless>>

Trade(c, qty) ==
    /\ Live(c) /\ qty <= exch[c].leaves
    /\ exch' = [exch EXCEPT ![c] = [@ EXCEPT !.leaves = exch[c].leaves - qty,
                                            !.cum = exch[c].cum + qty,
                            !.at = IF qty = exch[c].leaves THEN "Done" ELSE "Live"]]
    /\ exchPos' = exchPos + Signed(exch[c].side, qty)
    /\ Emit(<<Happened("trade", c, exch[c].id, qty)>>)
    /\ UNCHANGED <<acct, pos, actor, cancels, mass, seamless, count>>

\* Another client of the same account sends a Limit order.
ForeignOrder(c, side, qty) ==
    /\ exch[c].at = "None"
    /\ \E x \in ExIDs :
        /\ FreshID(x)
        /\ exch' = [exch EXCEPT ![c] = [at |-> "Live", side |-> side, type |-> "Limit",
                                        id |-> x, leaves |-> qty, cum |-> 0]]
        /\ Emit(<<Happened("new", c, x, 0)>>)
    /\ UNCHANGED <<acct, pos, actor, exchPos, cancels, mass, seamless, count>>

CarryOutMassCancel ==
    /\ mass /\ mass' = FALSE
    /\ exch' = [c \in ClIDs |-> IF Live(c) THEN [exch[c] EXCEPT !.at = "Done"] ELSE exch[c]]
    /\ \E events \in SetToSeqs({Happened("canceled", c, exch[c].id, 0) : c \in {d \in ClIDs : Live(d)}}) :
          Emit(events)
    /\ UNCHANGED <<acct, pos, actor, exchPos, cancels, seamless, count>>

LoseMassCancel ==
    /\ mass /\ mass' = FALSE
    /\ Fault
    /\ UNCHANGED <<acct, pos, actor, socket, exch, exchPos, cancels, seamless>>

\* What was read before the failure is still in the mailbox.
SocketFails ==
    /\ socket.up /\ socket' = [socket EXCEPT !.up = FALSE]
    /\ seamless' = FALSE
    /\ Fault
    /\ UNCHANGED <<acct, pos, actor, world>>
----------------------------------------------------------------------------
(***************************************************************************)
(* Requests.                                                               *)
(***************************************************************************)

\* The response type is Ack (answered at once) or Result (answered by the
\* continuation).  The client id is a fresh UUID, the price any price.
OnNewOrderSingleRequest(c, side, type, qty) ==
    /\ phase = "running" /\ exch[c].at = "None"
    /\ ~NewOrderRejected(acct, c, type, 1)
    /\ acct' = NewOrder(acct, c, side, type, 1, qty)
    /\ exch' = [exch EXCEPT ![c] = [at |-> "Sent", side |-> side, type |-> type,
                                    id |-> NoID, leaves |-> qty, cum |-> 0]]
    /\ future' = [future EXCEPT ![c].new = "waiting"]
    /\ owed' \in {owed, owed \cup {<<"new", c>>}}
    /\ UNCHANGED <<pos, phase, fetched, socket, exchPos, cancels, mass, seamless, count>>

\* The request is forwarded before the account is asked; the answer to one the
\* account refuses is ignored.  One cancel per order is on its way at a time.
OnOrderCancelRequest(c) ==
    /\ phase = "running" /\ exch[c].at # "None"
    /\ c \notin cancels /\ future[c].cancel = "none"
    /\ sent < MaxCancels /\ sent' = sent + 1 /\ faults' = faults
    /\ hasty' = (hasty \/ acct.orders[c].id = NoID)
    /\ cancels' = cancels \cup {c}
    /\ IF CancelOrderRejected(acct, c)
       THEN UNCHANGED <<acct, future, owed>>
       ELSE /\ acct' = CancelOrder(acct, c)
            /\ future' = [future EXCEPT ![c].cancel = "waiting"]
            /\ owed' \in {owed, owed \cup {<<"cancel", c>>}}
    /\ UNCHANGED <<pos, phase, fetched, socket, exch, exchPos, mass, seamless>>
----------------------------------------------------------------------------
(***************************************************************************)
(* Continuations of the futures, in any incarnation.                       *)
(***************************************************************************)
Resume(request, c) ==
    /\ phase \in {"running", "failed"}
    /\ future[c][request] \notin {"none", "waiting"}
    /\ future' = [future EXCEPT ![c][request] = "none"]
    /\ owed' = owed \ {<<request, c>>}
    /\ UNCHANGED <<pos, fetched, socket, world, seamless, count>>

\* The handler returns an error, or panics itself: the actor fails.
FailIf(error) == phase' = IF error THEN "failed" ELSE phase

NewOrderTimedOut(c) ==
    /\ future[c].new = "timeout" /\ Resume("new", c)
    /\ acct' = IF RejectNewOrderError(acct, c) THEN acct ELSE RejectNewOrder(acct, c)
    /\ FailIf(RejectNewOrderError(acct, c))

NewOrderRefused(c) ==
    /\ future[c].new = "refused" /\ Resume("new", c)
    /\ acct' = IF RejectNewOrderError(acct, c) THEN acct ELSE RejectNewOrder(acct, c)
    /\ phase' = phase

\* The errors of the three methods are dropped.
NewOrderAccepted(c) ==
    /\ Resume("new", c)
    /\ LET x == exch[c].id
           a == IF ConfirmNewOrderError(acct, c) THEN acct ELSE ConfirmNewOrder(acct, c, x, 0)
       IN  \/ /\ future[c].new = "New"
              /\ acct' = a
           \/ /\ future[c].new = "Expired"
              /\ acct' = IF Known(a, x) THEN ConfirmExpiredOrder(a, x) ELSE a
           \/ /\ future[c].new = "Filled"
              /\ acct' = IF Known(a, x) THEN PendingFilled(a, x) ELSE a
    /\ phase' = phase

\* Mutant: a cancel that got no answer counts as done.
CancelRefusedAsDone(c) ==
    /\ future[c].cancel \in {"timeout", "refused"} /\ Resume("cancel", c)
    /\ acct' = IF Known(acct, c) THEN ConfirmCancelOrder(acct, c) ELSE acct
    /\ FailIf(~Known(acct, c))

CancelRefused(c) ==
    /\ future[c].cancel \in {"timeout", "refused"} /\ Resume("cancel", c)
    /\ acct' = IF Known(acct, c) THEN RejectCancelOrder(acct, c, FALSE) ELSE acct
    /\ FailIf(~Known(acct, c))

CancelDone(c) ==
    /\ future[c].cancel = "ok" /\ Resume("cancel", c)
    /\ acct' = IF Known(acct, c) THEN ConfirmCancelOrder(acct, c) ELSE acct
    /\ FailIf(~Known(acct, c))

\* The exchange does not know the order: it must have been filled.
CancelUnknown(c) ==
    /\ future[c].cancel = "unknown" /\ Resume("cancel", c)
    /\ acct' = IF ~Known(acct, c) THEN acct
               ELSE LET a == RejectCancelOrder(acct, c, TRUE) IN
                    IF RejectCancelOrderError(acct, c, TRUE) THEN a ELSE PendingFilled(a, c)
    /\ FailIf(RejectCancelOrderError(acct, c, TRUE))
----------------------------------------------------------------------------
(***************************************************************************)
(* The user data stream.  Events of a socket the actor has replaced are    *)
(* ignored: a new socket starts with no event.                             *)
(***************************************************************************)
Handle(kind) ==
    /\ phase = "running"
    /\ socket.q # <<>> /\ Head(socket.q).ev = kind
    /\ socket' = [socket EXCEPT !.q = Tail(@)]
    /\ UNCHANGED <<fetched, future, owed, world, seamless, count>>

\* Mutant: an order of another client is ignored.
OnNewOwnOnly ==
    /\ Handle("new")
    /\ acct' = ConfirmNewOrder(acct, Head(socket.q).c, Head(socket.q).id, 0)
    /\ UNCHANGED <<pos, phase>>

\* An order the account does not know was sent by another client.
OnNew ==
    LET c == Head(socket.q).c
        o == exch[c]
        a == IF Known(acct, c) THEN acct
             ELSE NewOrder(acct, c, o.side, o.type, 1, o.leaves + o.cum)
    IN  /\ Handle("new")
        /\ acct' = ConfirmNewOrder(a, c, Head(socket.q).id, 0)
        /\ UNCHANGED <<pos, phase>>

\* Mutant: a fill of an order that is closed is ignored.
OnTradeOpenOnly ==
    LET e == Head(socket.q)
        ignored == Known(acct, e.id) /\ acct.orders[Find(acct, e.id)].status \in ClosedStatus
        error == ~ignored /\ ConfirmFillError(acct, e.id, e.qty)
    IN  /\ Handle("trade")
        /\ acct' = IF error \/ ignored THEN acct ELSE ConfirmFill(acct, e.id, e.qty)
        /\ pos' = IF error \/ ignored THEN pos
                  ELSE pos + Signed(acct.orders[Find(acct, e.id)].side, e.qty)
        /\ FailIf(error)

OnTrade ==
    LET e == Head(socket.q)
        error == ConfirmFillError(acct, e.id, e.qty)
    IN  /\ Handle("trade")
        /\ acct' = IF error THEN acct ELSE ConfirmFill(acct, e.id, e.qty)
        /\ pos' = IF error THEN pos ELSE pos + Signed(acct.orders[Find(acct, e.id)].side, e.qty)
        /\ FailIf(error)

OnCanceled ==
    LET c == Head(socket.q).c IN
    /\ Handle("canceled")
    /\ acct' = IF Known(acct, c) THEN ConfirmCancelOrder(acct, c) ELSE acct
    /\ FailIf(~Known(acct, c))
    /\ UNCHANGED pos

OnExpired ==
    LET c == Head(socket.q).c IN
    /\ Handle("expired")
    /\ acct' = IF Known(acct, c) THEN ConfirmExpiredOrder(acct, c) ELSE acct
    /\ FailIf(~Known(acct, c))
    /\ UNCHANGED pos
----------------------------------------------------------------------------
(***************************************************************************)
(* Ticks.                                                                  *)
(***************************************************************************)

\* A socket that failed is replaced; nothing is fetched again.
CheckSocket ==
    /\ phase = "running" /\ ~socket.up
    /\ socket' = [up |-> TRUE, q |-> <<>>]
    /\ UNCHANGED <<acct, pos, actor, world, seamless, count>>

\* Mutant: the position is not compared.
CheckAccountUncompared ==
    /\ phase = "running"
    /\ acct' = CleanOrders(acct)
    /\ FailIf(ExpirationError(CleanOrders(acct)))
    /\ UNCHANGED <<pos, fetched, future, owed, socket, world, seamless, count>>

\* Mutant: orders that stay pending are not looked for.
CheckAccountUnexpired ==
    /\ phase = "running"
    /\ acct' = CleanOrders(acct)
    /\ FailIf(pos # exchPos)
    /\ UNCHANGED <<pos, fetched, future, owed, socket, world, seamless, count>>

\* The exchange's position is fetched while the actor waits, and compared with
\* what the account had before (the one per cent of tolerance is below a lot).
CheckAccount ==
    /\ phase = "running"
    /\ acct' = CleanOrders(acct)
    /\ FailIf(pos # exchPos \/ ExpirationError(CleanOrders(acct)))
    /\ UNCHANGED <<pos, fetched, future, owed, socket, world, seamless, count>>

\* A minute without an event for order c.
Minute(c) ==
    /\ Referenced(acct, c) /\ ~acct.orders[c].stale
    /\ acct' = Age(acct, c)
    /\ UNCHANGED <<pos, actor, socket, world, seamless, count>>

\* A fetch of checkSocket, checkAccount, refreshKey or refreshMarkPrices fails.
FetchFails ==
    /\ phase = "running" /\ phase' = "failed"
    /\ Fault
    /\ UNCHANGED <<acct, pos, fetched, future, owed, socket, world, seamless>>
----------------------------------------------------------------------------
(***************************************************************************)
(* The life cycle.                                                         *)
(***************************************************************************)

\* Mutant: a restart drops the futures of the incarnation that failed.
RestartForgetful ==
    /\ phase = "failed" /\ phase' = "subscribe"
    /\ socket' = NoSocket /\ seamless' = FALSE
    /\ mass' = TRUE
    /\ future' = [c \in ClIDs |-> [new |-> "none", cancel |-> "none"]]
    /\ UNCHANGED <<acct, pos, fetched, owed, exch, exchPos, cancels, count>>

\* Restarting: Clean leaves the socket and asks for a cancel of everything.
Restart ==
    /\ phase = "failed" /\ phase' = "subscribe"
    /\ socket' = NoSocket /\ seamless' = FALSE
    /\ mass' = TRUE
    /\ UNCHANGED <<acct, pos, fetched, future, owed, exch, exchPos, cancels, count>>

\* Initialize: the stream first, then positions, then orders, then Sync.
SubscribeAccount ==
    /\ phase = "subscribe" /\ phase' = "positions"
    /\ socket' = [up |-> TRUE, q |-> <<>>]
    /\ UNCHANGED <<acct, pos, fetched, future, owed, world, seamless, count>>

FetchPositions ==
    /\ phase = "positions" /\ phase' = "orders"
    /\ fetched' = exchPos
    /\ UNCHANGED <<acct, pos, future, owed, socket, world, seamless, count>>

\* The order the exchange lists, if it is open.
Listed(c) ==
    IF ~Live(c) THEN Blank
    ELSE [Blank EXCEPT !.side = exch[c].side, !.type = exch[c].type, !.price = 1,
                       !.status = IF exch[c].cum = 0 THEN "New" ELSE "PartiallyFilled",
                       !.id = exch[c].id, !.leaves = exch[c].leaves, !.cum = exch[c].cum]

SyncAccount ==
    /\ phase = "orders" /\ phase' = "running"
    /\ acct' = Sync([c \in ClIDs |-> Listed(c)])
    /\ pos' = fetched /\ fetched' = 0
    /\ seamless' = (socket.up /\ \A i \in 1..Len(socket.q) : socket.q[i].ev # "trade")
    /\ UNCHANGED <<future, owed, socket, world, count>>

\* An incarnation that never was initialised knows no security to cancel.
InitializeFails ==
    /\ phase \in {"subscribe", "positions", "orders"}
    /\ phase' = "subscribe" /\ socket' = NoSocket /\ fetched' = 0
    /\ Fault
    /\ UNCHANGED <<acct, pos, future, owed, world, seamless>>
----------------------------------------------------------------------------
Users ==
    \E c \in ClIDs :
        \/ \E s \in Sides, t \in Types, q \in Lots : OnNewOrderSingleRequest(c, s, t, q)
        \/ OnOrderCancelRequest(c)

Arrivals(c) == Accept(c) \/ RefuseNew(c)
CancelArrivals(c) == CarryOutCancel(c) \/ RefuseCancel(c)

Exchange ==
    \/ \E c \in ClIDs : Arrivals(c) \/ CancelArrivals(c)
    \/ \E c \in ClIDs, q \in Lots : Trade(c, q)
    \/ \E c \in ClIDs, s \in Sides, q \in Lots : ForeignOrder(c, s, q)
    \/ CarryOutMassCancel

Faults ==
    \/ \E c \in ClIDs, request \in {"new", "cancel"} : LoseAnswer(request, c)
    \/ LoseMassCancel \/ SocketFails \/ FetchFails \/ InitializeFails

NewOrderResult(c) == NewOrderTimedOut(c) \/ NewOrderRefused(c) \/ NewOrderAccepted(c)
CancelResult(c)   == CancelRefused(c) \/ CancelDone(c) \/ CancelUnknown(c)
OnWebsocketMessage == OnNew \/ OnTrade \/ OnCanceled \/ OnExpired
Initialize == SubscribeAccount \/ FetchPositions \/ SyncAccount

Next ==
    \/ Users \/ Exchange \/ Faults
    \/ \E c \in ClIDs : NewOrderResult(c) \/ CancelResult(c) \/ Minute(c)
    \/ OnWebsocketMessage \/ CheckSocket \/ CheckAccount \/ Restart \/ Initialize

\* The actor is scheduled, its tickers tick, time passes, and what was sent
\* arrives or is refused.  Users, executions and faults are under no obligation.
Fairness ==
    /\ WF_vars(OnWebsocketMessage) /\ WF_vars(CheckSocket) /\ WF_vars(CheckAccount)
    /\ WF_vars(Restart) /\ WF_vars(Initialize) /\ WF_vars(CarryOutMassCancel)
    /\ \A c \in ClIDs :
        /\ WF_vars(NewOrderResult(c)) /\ WF_vars(CancelResult(c)) /\ WF_vars(Minute(c))
        /\ WF_vars(Arrivals(c)) /\ WF_vars(CancelArrivals(c))

Spec == Init /\ [][Next]_vars /\ Fairness
----------------------------------------------------------------------------
(***************************************************************************)
(* Safety.                                                                 *)
(***************************************************************************)

\* The handlers compose several methods, old incarnations call them on an
\* account that was synced since, and the exchange chooses the ids: the
\* invariant of the account holds for what this caller does with it.
AccountSound == TypeOK /\ \A c \in ClIDs : OrderInv(acct, c)

\* The sum of a sequence of numbers.
Total(v) ==
    LET sum[n \in 0..Len(v)] == IF n = 0 THEN 0 ELSE sum[n - 1] + v[n] IN sum[Len(v)]

\* What an event changes the position by, and what the queued ones do together.
Value(e) == Signed(exch[e.c].side, e.qty)
Queued == Total([i \in 1..Len(socket.q) |-> Value(socket.q[i])])

\* No fill is lost and none counts twice, whatever else arrives around it: as
\* long as the stream had no gap and Sync no fill in flight, the position and
\* the fills still queued make the exchange's position.
NoFillLost == phase = "running" /\ seamless => pos + Queued = exchPos

\* An order the account takes for canceled or expired is not working at the
\* exchange: no race of answers and events closes a live order.
NoFalseClose ==
    \A c \in ClIDs : acct.orders[c].status \in {"Canceled", "Expired"} => ~Live(c)

Quiet == socket.q = <<>> /\ \A c \in ClIDs : future[c].new = "none" /\ future[c].cancel = "none"

\* When nothing is in flight and the stream had no gap, an order that works at
\* the exchange is found by its exchange id, open, with the quantity it has left.
\* (If no user has canceled an order before it was confirmed.)
LiveOrdersTracked ==
    phase = "running" /\ seamless /\ Quiet /\ ~hasty =>
        \A c \in ClIDs : Live(c) =>
            /\ acct.ordersID[exch[c].id] = c
            /\ acct.orders[c].status \notin ClosedStatus
            /\ acct.orders[c].leaves = exch[c].leaves

(***************************************************************************)
(* Liveness.                                                               *)
(***************************************************************************)

\* Whatever was lost, in the end the account has the exchange's position:
\* checkAccount finds out, and the restart repairs it.
PositionSettles == <>[](pos = exchPos)

\* No order stays pending for ever.
PendingResolves ==
    \A c \in ClIDs :
        (c \in acct.ordersClID /\ acct.orders[c].status \in PendingStatus)
        ~> ~(c \in acct.ordersClID /\ acct.orders[c].status \in PendingStatus)

\* The sender of a Result request is answered, also when the actor fails and
\* restarts in between.
RequestsAnswered == \A r \in {"new", "cancel"} \X ClIDs : r \in owed ~> r \notin owed

(***************************************************************************)
(* What comments of the source say, and the code does not do.              *)
(***************************************************************************)

\* ConfirmNewOrder does nothing unless the order is PendingNew: "Order already
\* confirmed, nop".  The order an event confirms then has an exchange id.
NopIsConfirmed ==
    phase = "running" /\ socket.q # <<>> /\ Head(socket.q).ev = "new" =>
        LET c == Head(socket.q).c IN
        c \in acct.ordersClID /\ acct.orders[c].status # "PendingNew"
            => acct.orders[c].id # NoID
=============================================================================
