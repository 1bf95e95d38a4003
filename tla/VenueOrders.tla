----------------------------- MODULE VenueOrders -----------------------------
(***************************************************************************)
(* exchanges/<venue>/account.go: what the account listeners of the venues  *)
(* do with requests for orders.  They are variations of one program: the   *)
(* request is entered in the Account and sent to the venue's executor, its *)
(* continuation and the events of the private stream settle it, each in    *)
(* its own way.  The variations are the fields of a record of rules.       *)
(*                                                                         *)
(* AccountListener has the life cycle, the faults and the position of one  *)
(* of them in detail.  Here a restart with its Initialize is one step, and *)
(* the position is its difference to the exchange's.                       *)
(*                                                                         *)
(* Quantities can be amended, prices stay.  Stubs (TODO in the code) that  *)
(* do not answer at all are no actions.  Execution reports are left out.   *)
(***************************************************************************)
EXTENDS AccountOps, Sequences, SequencesExt, FiniteSets

CONSTANTS
    VenueRules,     \* the venues that are looked at
    MaxCalls,       \* bound on the requests users send
    MaxFaults       \* bound on lost answers and lost sockets

ASSUME VenueOrderBounds == IsFiniteSet(ClIDs) /\ MaxCalls \in Nat /\ MaxFaults \in Nat

\* The venues have ids enough to give every order one of its own.
ASSUME VenueOrderIDs ==
    \E f \in [ClIDs -> ExIDs] : \A c, d \in ClIDs : f[c] = f[d] => c = d

VARIABLES
    rules,      \* the venue
    acct,       \* the orders of the Account
    phase,      \* "running" or "failed"
    call,       \* per kind of request, the one that is on its way
    sweep,      \* the mass cancel of a restart is on its way
    stream,     \* the private stream, with the events not handled yet
    exch,       \* external: the orders at the venue
    drift,      \* the venue's position less the account's
    spotless,   \* ghost: no socket lost, snapshot taken, unconfirmed order canceled,
                \* order replaced where the answer confirms it, or answer to a
                \* replacement lost
    calls,      \* requests so far, for the bound
    faults      \* faults so far, for the bound

vars == <<rules, acct, phase, call, sweep, stream, exch, drift, spotless, calls, faults>>

Kinds == {"new", "bulk", "replace", "bulkReplace", "cancel", "mass"}
Final == {"ok", "filled", "expired", "unknown", "refused", "timeout"}
Kind == {"new", "trade", "canceled", "expired", "replaced", "filled", "rejected"}
Event == [ev : Kind, c : ClIDs, id : ExIDs, qty : 0..MaxLots]

\* A request: whether it still has to reach the venue, its orders, what its
\* future holds, and whether its sender waits for a first answer.
NoCall == [sent |-> FALSE, cs |-> {}, qty |-> 0, ans |-> "none", owed |-> FALSE]

TypeOK ==
    /\ rules \in VenueRules
    /\ acct \in AccountType
    /\ phase \in {"running", "failed"}
    /\ call \in [Kinds -> [sent : BOOLEAN, cs : SUBSET ClIDs, qty : 0..MaxLots,
                           ans : Final \cup {"none", "waiting"}, owed : BOOLEAN]]
    /\ stream.up \in BOOLEAN /\ stream.q \in Seq(Event)
    /\ exch \in [ClIDs -> [at : {"None", "Live", "Done"}, id : ExIDs \cup {NoID},
                           leaves : 0..MaxLots, cum : Nat]]
    /\ drift \in Int
    /\ {sweep, spotless} \subseteq BOOLEAN
    /\ calls \in 0..MaxCalls /\ faults \in 0..MaxFaults

Init ==
    /\ rules \in VenueRules
    /\ acct = NewAccount
    /\ phase = "running"
    /\ call = [k \in Kinds |-> NoCall] /\ sweep = FALSE
    /\ stream = [up |-> TRUE, q |-> <<>>]
    /\ exch = [c \in ClIDs |-> [at |-> "None", id |-> NoID, leaves |-> 0, cum |-> 0]]
    /\ drift = 0 /\ spotless = TRUE /\ calls = 0 /\ faults = 0

Live(c) == exch[c].at = "Live"
Pending(c) == c \in acct.ordersClID /\ acct.orders[c].status \in PendingStatus
Fault == faults < MaxFaults /\ faults' = faults + 1 /\ UNCHANGED calls
----------------------------------------------------------------------------
(***************************************************************************)
(* The venues.  "twice": the sender is told of success at once and of the  *)
(* venue's answer later; else at once or later, as it asked.               *)
(***************************************************************************)
Rules ==
    [ twice : BOOLEAN,
      bulk : BOOLEAN,                           \* OnNewOrderBulkRequest is there
      confirms : BOOLEAN,                       \* the answer confirms a new order
      final : BOOLEAN,                          \* ... and tells of one that is done
      cancels : BOOLEAN,                        \* the answer confirms a cancel
      unknown : {"reject", "filled", "panic"},  \* what to make of an unknown order
      forward : BOOLEAN,                        \* sent before the account is asked
      byID : BOOLEAN,                           \* canceled by the venue's id
      replace : {"none", "answer", "stream"},   \* what confirms a replacement
      bulkReplace : BOOLEAN,
      defers : BOOLEAN,                         \* a panic still answers a replacement
      events : SUBSET Kind,
      adopts : BOOLEAN,                         \* a new order nobody knows is taken
      fillsBy : {"venue id", "client id"},
      badStatus : BOOLEAN,                      \* order events fail the listener
      keeps : BOOLEAN,                          \* messages of old sockets are handled
      resyncs : BOOLEAN,                        \* a new socket comes with a snapshot
      repairs : {"fails", "syncs"},             \* what a difference of positions does
      expires : BOOLEAN,                        \* orders pending too long are found
      cleans : BOOLEAN,                         \* a restart cancels all orders
      lists : BOOLEAN ]                         \* Initialize asks for the open orders

ASSUME VenueOrderRules == VenueRules \subseteq Rules

fbinance ==
    [ twice |-> FALSE, bulk |-> TRUE, confirms |-> TRUE, final |-> TRUE, cancels |-> TRUE,
      unknown |-> "filled", forward |-> TRUE, byID |-> FALSE, replace |-> "none",
      bulkReplace |-> FALSE, defers |-> TRUE,
      events |-> {"new", "trade", "canceled", "expired"}, adopts |-> TRUE, fillsBy |-> "venue id", badStatus |-> FALSE, keeps |-> FALSE,
      resyncs |-> FALSE, repairs |-> "fails", expires |-> TRUE, cleans |-> TRUE,
      lists |-> TRUE ]

binance ==
    [fbinance EXCEPT !.twice = TRUE, !.final = FALSE, !.cancels = FALSE, !.unknown = "reject",
                     !.forward = FALSE, !.byID = TRUE, !.adopts = FALSE, !.expires = FALSE,
                     !.cleans = FALSE]

bitmex ==
    [binance EXCEPT !.unknown = "panic", !.byID = FALSE, !.replace = "stream",
                    !.bulkReplace = TRUE, !.events = {"new", "trade", "canceled", "replaced", "rejected"},
                    !.fillsBy = "client id", !.keeps = TRUE, !.resyncs = TRUE,
                    !.repairs = "syncs"]

krakenf ==
    [fbinance EXCEPT !.replace = "answer", !.events = {}, !.adopts = FALSE, !.resyncs = TRUE]

bybitl ==
    [fbinance EXCEPT !.bulk = FALSE, !.final = FALSE, !.cancels = FALSE, !.unknown = "reject",
                     !.forward = FALSE, !.replace = "answer", !.defers = FALSE,
                     !.events = {"new", "trade", "canceled", "filled"}, !.lists = FALSE]

\* "if ao != nil { return ... order does not exists }": an order that is there
\* fails the listener, one that is not there is dereferenced.
dydx ==
    [binance EXCEPT !.confirms = FALSE, !.byID = FALSE, !.badStatus = TRUE,
                    !.events = {"new", "trade", "canceled", "filled"}]
----------------------------------------------------------------------------
(***************************************************************************)
(* Requests.                                                               *)
(***************************************************************************)
\* The account takes the request, the executor is asked.
\* "answered": the sender has an answer already.
Ask(k, cs, qty, a, answered) ==
    /\ acct' = a
    /\ call' = [call EXCEPT ![k] = [sent |-> TRUE, cs |-> cs, qty |-> qty, ans |-> "waiting",
                                    owed |-> ~answered]]

Request(k) ==
    /\ phase = "running" /\ calls < MaxCalls /\ calls' = calls + 1
    /\ call[k] = NoCall
    /\ UNCHANGED <<rules, phase, sweep, stream, exch, drift, faults>>

Unused == {c \in ClIDs : exch[c].at = "None" /\ ~Referenced(acct, c)
                          /\ \A k \in Kinds : c \notin call[k].cs}

\* A sender that asks for an Ack has its answer at once; here all ask for the
\* Result, and have it at once where the venue is not waited for.
OnNewOrderSingleRequest(qty) ==
    LET c == CHOOSE d \in Unused : TRUE IN
    /\ Request("new") /\ Unused # {}
    /\ Ask("new", {c}, qty, NewOrder(acct, c, "Buy", "Limit", 1, qty), rules.twice)
    /\ UNCHANGED spotless

\* The sender is told of success before the executor is asked.  (A request one
\* of whose orders is refused leaves nothing behind.)
OnNewOrderBulkRequest(cs, qty) ==
    /\ rules.bulk /\ Request("bulk")
    /\ Cardinality(cs) > 1 /\ cs \subseteq Unused
    /\ Ask("bulk", cs, qty, FoldSet(LAMBDA c, a : NewOrder(a, c, "Buy", "Limit", 1, qty), acct, cs),
           TRUE)
    /\ UNCHANGED spotless

\* A request the account refuses is answered, and on its way if it was
\* forwarded before; what becomes of it is ignored.
Refused(k, c, qty) ==
    /\ UNCHANGED acct
    /\ call' = IF rules.forward
               THEN [call EXCEPT ![k] = [NoCall EXCEPT !.sent = TRUE, !.cs = {c}, !.qty = qty]]
               ELSE call

Mentioned(c) == exch[c].at # "None" \/ Referenced(acct, c)

\* At some venues the cancel names the venue's id, which an order that is not
\* confirmed does not have.
CancelKey(c) == IF rules.byID /\ Known(acct, c) THEN acct.orders[c].id ELSE c

OnOrderCancelRequest(c) ==
    /\ Request("cancel") /\ Mentioned(c)
    /\ IF CancelOrderRejected(acct, CancelKey(c))
       THEN Refused("cancel", c, 0)
       ELSE Ask("cancel", {c}, 0, CancelOrder(acct, CancelKey(c)), rules.twice)
    /\ spotless' = (spotless /\ acct.orders[c].status # "PendingNew")

\* krakenf and bybitl answer when the venue has, bitmex at once.
OnOrderReplaceRequest(c, qty) ==
    /\ rules.replace # "none" /\ Request("replace") /\ Mentioned(c)
    /\ IF ReplaceOrderRejected(acct, c)
       THEN Refused("replace", c, qty)
       ELSE Ask("replace", {c}, qty, ReplaceOrder(acct, c, NoPrice, qty), rules.twice)
    /\ spotless' = (spotless /\ rules.replace # "answer")

\* All or none: a request one of whose orders is refused leaves nothing behind
\* but the quantities that were asked for.
OnBulkOrderReplaceRequest(cs, qty) ==
    /\ rules.bulkReplace /\ Request("bulkReplace")
    /\ Cardinality(cs) > 1 /\ \A c \in cs : ~ReplaceOrderRejected(acct, c)
    /\ Ask("bulkReplace", cs, qty,
           FoldSet(LAMBDA c, a : ReplaceOrder(a, c, NoPrice, qty), acct, cs), TRUE)
    /\ UNCHANGED spotless

\* The orders that are open are marked; the venue cancels those it has.  With
\* no order at all there is nothing to ask.
OnOrderMassCancelRequest ==
    LET cs == {c \in acct.ordersClID : acct.orders[c].status \in OpenStatus} IN
    /\ Request("mass") /\ acct.ordersClID # {}
    /\ Ask("mass", cs, 0, FoldSet(LAMBDA c, a : CancelOrder(a, c), acct, cs), TRUE)
    /\ UNCHANGED spotless
----------------------------------------------------------------------------
(***************************************************************************)
(* External: the venue and the executor in front of it.                    *)
(***************************************************************************)
Carries(kind) == kind \in rules.events

\* The stream carries the events the listener has a case for; the order of the
\* two topics of one execution is open.
Emit(events) ==
    LET heard[i \in 0..Len(events)] ==
            IF i = 0 THEN stream.q
            ELSE IF Carries(events[i].ev) THEN Append(heard[i - 1], events[i]) ELSE heard[i - 1]
    IN  stream' = IF stream.up THEN [stream EXCEPT !.q = heard[Len(events)]] ELSE stream

Happened(kind, c, id, qty) == [ev |-> kind, c |-> c, id |-> id, qty |-> qty]

\* Every order gets an id of its own; one id is as good as another.
IdOf == CHOOSE f \in [ClIDs -> ExIDs] : \A c, d \in ClIDs : f[c] = f[d] => c = d

Arrived(k, a) ==
    LET r == call[k] IN
    call' = [call EXCEPT ![k] =
                IF r.ans = "none" THEN [NoCall EXCEPT !.owed = r.owed]
                ELSE [r EXCEPT !.sent = FALSE, !.ans = IF r.ans = "waiting" THEN a ELSE r.ans]]

Arrival(k) ==
    /\ call[k].sent
    /\ UNCHANGED <<rules, acct, phase, sweep, spotless, calls, faults>>

InSequence(cs, event) ==
    \E s \in SetToSeqs(cs) : Emit([i \in DOMAIN s |-> event[s[i]]])

Placed(c, state, leaves, cum) == [at |-> state, id |-> IdOf[c], leaves |-> leaves, cum |-> cum]

OrdersRest(k) ==
    LET cs == call[k].cs   qty == call[k].qty IN
    /\ Arrival(k)
    /\ exch' = [c \in ClIDs |-> IF c \in cs THEN Placed(c, "Live", qty, 0) ELSE exch[c]]
    /\ InSequence(cs, [c \in ClIDs |-> Happened("new", c, IdOf[c], qty)])
    /\ Arrived(k, "ok")
    /\ UNCHANGED drift

\* The execution and, at some venues, the order's new status, in either order.
Executed(c, qty) ==
    LET trade == Happened("trade", c, IdOf[c], qty)
        full  == Happened("filled", c, IdOf[c], qty)
    IN  IF rules.badStatus THEN {<<full, trade>>} ELSE {<<trade, full>>, <<full, trade>>}

\* "If instantly filled, we will not receive an update with a OrderNew status."
OrderFills ==
    LET c == CHOOSE d \in call["new"].cs : TRUE   qty == call["new"].qty IN
    /\ Arrival("new")
    /\ exch' = [exch EXCEPT ![c] = Placed(c, "Done", 0, qty)]
    /\ \E events \in Executed(c, qty) :
          Emit(IF Carries("filled") THEN events
               ELSE <<Happened("new", c, IdOf[c], qty)>> \o events)
    /\ Arrived("new", IF rules.final THEN "filled" ELSE "ok")
    /\ drift' = drift + qty

OrderExpires ==
    LET c == CHOOSE d \in call["new"].cs : TRUE   qty == call["new"].qty IN
    /\ Arrival("new")
    /\ exch' = [exch EXCEPT ![c] = Placed(c, "Done", qty, 0)]
    /\ Emit(<<Happened("new", c, IdOf[c], qty),
              Happened(IF Carries("expired") THEN "expired" ELSE "canceled", c, IdOf[c], 0)>>)
    /\ Arrived("new", IF rules.final THEN "expired" ELSE "ok")
    /\ UNCHANGED drift

CancelArrives ==
    LET c == CHOOSE d \in call["cancel"].cs : TRUE IN
    /\ Arrival("cancel")
    /\ IF Live(c)
       THEN /\ exch' = [exch EXCEPT ![c].at = "Done"]
            /\ Emit(<<Happened("canceled", c, IdOf[c], 0)>>)
            /\ Arrived("cancel", "ok")
       ELSE Arrived("cancel", "unknown") /\ UNCHANGED <<exch, stream>>
    /\ UNCHANGED drift

AllCanceled ==
    /\ exch' = [c \in ClIDs |-> IF Live(c) THEN [exch[c] EXCEPT !.at = "Done"] ELSE exch[c]]
    /\ InSequence({c \in ClIDs : Live(c)}, [c \in ClIDs |-> Happened("canceled", c, IdOf[c], 0)])

MassCancelArrives == Arrival("mass") /\ AllCanceled /\ Arrived("mass", "ok") /\ UNCHANGED drift

\* The quantity asked for is what the order has left from then on.
ReplaceArrives(k) ==
    LET cs == call[k].cs IN
    /\ Arrival(k)
    /\ IF \A c \in cs : Live(c)
       THEN /\ exch' = [c \in ClIDs |-> IF c \in cs THEN [exch[c] EXCEPT !.leaves = call[k].qty]
                                        ELSE exch[c]]
            /\ InSequence(cs, [c \in ClIDs |-> Happened("replaced", c, IdOf[c], 0)])
            /\ Arrived(k, "ok")
       ELSE Arrived(k, "unknown") /\ UNCHANGED <<exch, stream>>
    /\ UNCHANGED drift

\* Some refusals are also told on the stream.
Refuse(k) ==
    /\ Arrival(k) /\ Arrived(k, "refused")
    /\ IF k \in {"new", "bulk"}
       THEN \E cs \in SUBSET call[k].cs : InSequence(cs, [c \in ClIDs |-> Happened("rejected", c, IdOf[c], 0)])
       ELSE UNCHANGED stream
    /\ UNCHANGED <<exch, drift>>

Arrives(k) ==
    \/ k \in {"new", "bulk"} /\ OrdersRest(k)
    \/ k = "new" /\ (OrderFills \/ OrderExpires)
    \/ k = "cancel" /\ CancelArrives
    \/ k = "mass" /\ MassCancelArrives
    \/ k \in {"replace", "bulkReplace"} /\ ReplaceArrives(k)
    \/ Refuse(k)

Trade(c, qty) ==
    /\ Live(c) /\ qty <= exch[c].leaves
    /\ exch' = [exch EXCEPT ![c].leaves = @ - qty, ![c].cum = @ + qty,
                            ![c].at = IF qty = exch[c].leaves THEN "Done" ELSE "Live"]
    /\ drift' = drift + qty
    /\ IF qty = exch[c].leaves THEN \E events \in Executed(c, qty) : Emit(events)
                               ELSE Emit(<<Happened("trade", c, IdOf[c], qty)>>)
    /\ UNCHANGED <<rules, acct, phase, call, sweep, spotless, calls, faults>>

SweepArrives ==
    /\ sweep /\ sweep' = FALSE
    /\ AllCanceled
    /\ UNCHANGED <<rules, acct, phase, call, drift, spotless, calls, faults>>

\* The request may have been carried out, or be carried out yet.
LoseAnswer(k) ==
    /\ call[k].ans = "waiting"
    /\ \E a \in {"timeout", "refused"} : call' = [call EXCEPT ![k].ans = a]
    /\ spotless' = (spotless /\ k \notin {"replace", "bulkReplace"})
    /\ Fault
    /\ UNCHANGED <<rules, acct, phase, sweep, stream, exch, drift>>

SocketFails ==
    /\ stream.up /\ stream' = [stream EXCEPT !.up = FALSE]
    /\ spotless' = FALSE
    /\ Fault
    /\ UNCHANGED <<rules, acct, phase, call, sweep, exch, drift>>
----------------------------------------------------------------------------
(***************************************************************************)
(* Continuations.  A panic fails the listener; it stops in the middle of a *)
(* list of orders.                                                         *)
(***************************************************************************)
\* Mutant: no continuation answers when it panics.
ForgottenAnywhere(k) ==
    /\ k = "replace" /\ call[k].ans = "timeout"
    /\ call[k].owed /\ \E c \in call[k].cs : ~Known(acct, c)

\* The continuation of a lost replacement panics before it answers.
Forgotten(k) ==
    /\ k = "replace" /\ call[k].ans = "timeout" /\ ~rules.defers
    /\ call[k].owed /\ \E c \in call[k].cs : ~Known(acct, c)

Resume(k, answers) ==
    /\ call[k].ans \in answers
    /\ call' = [call EXCEPT ![k] = IF @.sent THEN [@ EXCEPT !.ans = "none", !.owed = Forgotten(k)]
                                   ELSE [NoCall EXCEPT !.owed = Forgotten(k)]]
    /\ UNCHANGED <<rules, sweep, stream, exch, drift, spotless, calls, faults>>

FailIf(error) == phase' = IF error THEN "failed" ELSE phase

\* Op is done for the orders of a request.
ForAll(cs, Bad(_), Op(_, _)) ==
    LET bad == {c \in cs : Bad(c)} IN
    \E done \in IF bad = {} THEN {cs} ELSE SUBSET (cs \ bad) :
        /\ acct' = FoldSet(LAMBDA c, a : Op(a, c), acct, done)
        /\ FailIf(bad # {})

Drop(cs) == ForAll(cs, LAMBDA c : RejectNewOrderError(acct, c), RejectNewOrder)
\* Errors are ignored.
DropIfThere(cs) == ForAll({c \in cs : ~RejectNewOrderError(acct, c)}, LAMBDA c : FALSE, RejectNewOrder)

Confirm(a, c) == ConfirmNewOrder(a, c, IdOf[c], 0)

Accepted(a, c, ans) ==
    LET b == IF ConfirmNewOrderError(a, c) THEN a ELSE Confirm(a, c) IN
    CASE ans = "expired" /\ Known(b, IdOf[c]) -> ConfirmExpiredOrder(b, IdOf[c])
      [] ans = "filled" /\ Known(b, IdOf[c])  -> PendingFilled(b, IdOf[c])
      [] OTHER -> b

Accept(cs, ans) ==
    ForAll({c \in cs : rules.confirms /\ (Known(acct, c) \/ Known(acct, IdOf[c]))},
           LAMBDA c : FALSE, LAMBDA a, c : Accepted(a, c, ans))

NewOrderAnswered ==
    LET cs == call["new"].cs   ans == call["new"].ans IN
    \/ Resume("new", {"ok", "filled", "expired"}) /\ Accept(cs, ans)
    \/ Resume("new", {"timeout"}) /\ Drop(cs)
    \/ Resume("new", {"refused"}) /\ DropIfThere(cs)

BulkAnswered ==
    \/ /\ Resume("bulk", {"ok"})
       /\ ForAll(call["bulk"].cs, LAMBDA c : ConfirmNewOrderError(acct, c), Confirm)
    \/ Resume("bulk", {"timeout", "refused"}) /\ Drop(call["bulk"].cs)

\* Mutant: an order that is not canceled any more is taken for canceled.
CancelRefusedCloses(k, unknown) ==
    ForAll(call[k].cs, LAMBDA c : ~Known(acct, c), ConfirmCancelOrder)

CancelRefused(k, unknown) ==
    ForAll(call[k].cs, LAMBDA c : RejectCancelOrderError(acct, c, unknown),
           LAMBDA a, c : RejectCancelOrder(a, c, unknown))

CancelAnswered ==
    \/ /\ Resume("cancel", {"ok"})
       /\ IF rules.cancels
          THEN ForAll(call["cancel"].cs, LAMBDA c : ~Known(acct, c), ConfirmCancelOrder)
          ELSE UNCHANGED <<acct, phase>>
    \/ Resume("cancel", {"timeout", "refused"}) /\ CancelRefused("cancel", FALSE)
    \/ /\ Resume("cancel", {"unknown"})
       /\ CASE rules.unknown = "reject" -> CancelRefused("cancel", TRUE)
            [] rules.unknown = "filled" ->
                 ForAll(call["cancel"].cs, LAMBDA c : RejectCancelOrderError(acct, c, TRUE),
                        LAMBDA a, c : PendingFilled(RejectCancelOrder(a, c, TRUE), c))
            [] rules.unknown = "panic" -> phase' = "failed" /\ UNCHANGED acct

MassCancelAnswered ==
    \/ Resume("mass", {"ok"}) /\ UNCHANGED <<acct, phase>>
    \/ Resume("mass", {"timeout", "refused"}) /\ CancelRefused("mass", FALSE)

\* Mutant: the quantity is amended although the venue refuses.
ReplaceRefusedAmends(k, unknown) ==
    ForAll(call[k].cs, LAMBDA c : NotPendingReplace(acct, c),
           LAMBDA a, c : ConfirmReplaceOrder(a, c, NoID))

ReplaceRefused(k, unknown) ==
    ForAll(call[k].cs, LAMBDA c : ~Known(acct, c),
           LAMBDA a, c : IF unknown /\ rules.unknown = "filled"
                         THEN PendingFilled(RejectReplaceOrder(a, c), c)
                         ELSE RejectReplaceOrder(a, c))

Replaced(c) ==
    /\ acct' = IF NotPendingReplace(acct, c) THEN acct ELSE ConfirmReplaceOrder(acct, c, NoID)
    /\ FailIf(NotPendingReplace(acct, c))

ReplaceAnswered(k) ==
    \/ /\ Resume(k, {"ok"})
       /\ IF rules.replace = "answer"
          THEN Replaced(CHOOSE c \in call[k].cs : TRUE)
          ELSE UNCHANGED <<acct, phase>>
    \/ Resume(k, {"timeout", "refused"}) /\ ReplaceRefused(k, FALSE)
    \/ Resume(k, {"unknown"}) /\ ReplaceRefused(k, TRUE)

Continuation ==
    \/ NewOrderAnswered \/ BulkAnswered \/ CancelAnswered \/ MassCancelAnswered
    \/ ReplaceAnswered("replace") \/ ReplaceAnswered("bulkReplace")
----------------------------------------------------------------------------
(***************************************************************************)
(* The private stream.                                                     *)
(***************************************************************************)
Handle(kind) ==
    /\ phase = "running"
    /\ stream.q # <<>> /\ Head(stream.q).ev = kind
    /\ stream' = [stream EXCEPT !.q = Tail(@)]
    /\ UNCHANGED <<rules, call, sweep, exch, spotless, calls, faults>>

\* One order changes by Op, or the handler returns an error.
Settle(error, Op(_)) ==
    /\ acct' = IF error THEN acct ELSE Op(acct)
    /\ FailIf(error)

OnNew ==
    LET e == Head(stream.q)
        Entered(a) == IF Known(a, e.c) THEN a ELSE NewOrder(a, e.c, "Buy", "Limit", 1, e.qty)
    IN  /\ Handle("new")
        /\ Settle(rules.badStatus \/ (~Known(acct, e.c) /\ ~rules.adopts),
                  LAMBDA a : ConfirmNewOrder(Entered(a), e.c, e.id, 0))
        /\ UNCHANGED drift

OnTrade ==
    LET e == Head(stream.q)
        k == IF rules.fillsBy = "client id" THEN e.c ELSE e.id
        error == ConfirmFillError(acct, k, e.qty)
    IN  /\ Handle("trade")
        /\ Settle(error, LAMBDA a : ConfirmFill(a, k, e.qty))
        /\ drift' = IF error THEN drift ELSE drift - e.qty

OnCanceled ==
    LET c == Head(stream.q).c IN
    /\ Handle("canceled")
    /\ Settle(rules.badStatus \/ ~Known(acct, c), LAMBDA a : ConfirmCancelOrder(a, c))
    /\ UNCHANGED drift

OnExpired ==
    LET c == Head(stream.q).c IN
    /\ Handle("expired")
    /\ Settle(~Known(acct, c), LAMBDA a : ConfirmExpiredOrder(a, c))
    /\ UNCHANGED drift

OnRejected ==
    LET c == Head(stream.q).c IN
    /\ Handle("rejected")
    /\ Settle(RejectNewOrderError(acct, c), LAMBDA a : RejectNewOrder(a, c))
    /\ UNCHANGED drift

OnReplaced == Handle("replaced") /\ Replaced(Head(stream.q).c) /\ UNCHANGED drift

\* An order that was filled at once is confirmed; the fill is another message.
OnFilled ==
    LET e == Head(stream.q) IN
    /\ Handle("filled")
    /\ Settle(rules.badStatus \/ ~Known(acct, e.c),
              LAMBDA a : ConfirmNewOrder(a, e.c, e.id, 0))
    /\ UNCHANGED drift

OnWebsocketMessage ==
    OnNew \/ OnTrade \/ OnCanceled \/ OnExpired \/ OnRejected \/ OnReplaced \/ OnFilled
----------------------------------------------------------------------------
(***************************************************************************)
(* Ticks and restarts.                                                     *)
(***************************************************************************)
Listed(c) ==
    IF ~(rules.lists /\ Live(c)) THEN Blank
    ELSE [Blank EXCEPT !.price = 1, !.id = exch[c].id, !.leaves = exch[c].leaves,
                       !.cum = exch[c].cum,
                       !.status = IF exch[c].cum = 0 THEN "New" ELSE "PartiallyFilled"]

\* Sync with the venue's positions and, but for one venue, its open orders.
\* What the old socket delivered is only ignored where sockets are told apart.
SyncAccount ==
    /\ acct' = Sync([c \in ClIDs |-> Listed(c)])
    /\ drift' = 0 /\ spotless' = FALSE

NewSocket == stream' = [up |-> TRUE, q |-> IF rules.keeps THEN stream.q ELSE <<>>]

CheckSocket ==
    /\ phase = "running" /\ ~stream.up
    /\ NewSocket
    /\ IF rules.resyncs THEN SyncAccount ELSE UNCHANGED <<acct, drift, spotless>>
    /\ UNCHANGED <<rules, phase, call, sweep, exch, calls, faults>>

\* Pending and closed orders are looked for where checkAccount asks how long ago
\* their last event was: any of them may be more than a minute old.
Aged(old) == FoldSet(LAMBDA c, a : Age(a, c), acct, old)

Ageing ==
    {c \in ClIDs : rules.expires /\ acct.orders[c].status \in PendingStatus \cup ClosedStatus}

\* Mutant: orders that are pending for too long are not looked for.
CheckPatient(old) ==
    LET cleaned == IF rules.expires THEN CleanOrders(Aged(old)) ELSE acct IN
    /\ FailIf(rules.repairs = "fails" /\ drift # 0)
    /\ IF rules.repairs = "syncs" /\ drift # 0
       THEN SyncAccount
       ELSE acct' = cleaned /\ UNCHANGED <<drift, spotless>>

\* Mutant: the positions are not compared.
CheckBlind(old) ==
    LET cleaned == IF rules.expires THEN CleanOrders(Aged(old)) ELSE acct IN
    /\ FailIf(rules.expires /\ ExpirationError(cleaned))
    /\ acct' = cleaned /\ UNCHANGED <<drift, spotless>>

Check(old) ==
    LET cleaned == IF rules.expires THEN CleanOrders(Aged(old)) ELSE acct IN
    /\ FailIf(\/ rules.expires /\ ExpirationError(cleaned)
              \/ rules.repairs = "fails" /\ drift # 0)
    /\ IF rules.repairs = "syncs" /\ drift # 0
       THEN SyncAccount
       ELSE acct' = cleaned /\ UNCHANGED <<drift, spotless>>

CheckAccount ==
    /\ phase = "running"
    /\ \E old \in SUBSET Ageing : Check(old)
    /\ UNCHANGED <<rules, call, sweep, stream, exch, calls, faults>>

\* Clean, then Initialize.
Restart ==
    /\ phase = "failed" /\ phase' = "running"
    /\ sweep' = (sweep \/ rules.cleans)
    /\ SyncAccount /\ NewSocket
    /\ UNCHANGED <<rules, call, exch, calls, faults>>
----------------------------------------------------------------------------
Users ==
    \/ \E qty \in Lots : OnNewOrderSingleRequest(qty)
    \/ \E c \in ClIDs, qty \in Lots : OnOrderReplaceRequest(c, qty)
    \/ \E cs \in SUBSET ClIDs : OnNewOrderBulkRequest(cs, 1)
    \/ \E cs \in SUBSET ClIDs, qty \in Lots : OnBulkOrderReplaceRequest(cs, qty)
    \/ \E c \in ClIDs : OnOrderCancelRequest(c)
    \/ OnOrderMassCancelRequest

\* What is on its way arrives, and the actor and its tickers are scheduled.
System ==
    \/ \E k \in Kinds : Arrives(k)
    \/ SweepArrives
    \/ Continuation \/ OnWebsocketMessage
    \/ CheckSocket \/ CheckAccount \/ Restart

Next ==
    \/ Users \/ System
    \/ \E k \in Kinds : LoseAnswer(k)
    \/ \E c \in ClIDs, qty \in Lots : Trade(c, qty)
    \/ SocketFails

Spec == Init /\ [][Next]_vars /\ WF_vars(System)
----------------------------------------------------------------------------
(***************************************************************************)
(* Properties.                                                             *)
(***************************************************************************)

\* Whatever a venue's answers and events are composed to, and in whichever order
\* they come (also to an account that was synced since), the account keeps its
\* invariant: indexes, resting orders and saved statuses fit together.
AccountSound == TypeOK /\ \A c \in ClIDs : OrderInv(acct, c)

\* An order the account takes for canceled or expired does not work at the
\* venue: no race of a refused request with a late event closes a live order.
NoFalseClose ==
    \A c \in ClIDs : acct.orders[c].status \in {"Canceled", "Expired"} => ~Live(c)

Quiet == stream.q = <<>> /\ \A k \in Kinds : ~call[k].sent /\ call[k].ans = "none"

\* Where fills are streamed, and with nothing in flight, an order that works at
\* the venue is found by its exchange id, open, with exactly the quantity it has
\* left, through partial fills, (confirmed) amendments and refused ones in every
\* order.  (If no answer to an amendment was lost: a late amendment would be
\* taken for the one that was asked for after it.)
LiveOrdersTracked ==
    Carries("trade") /\ phase = "running" /\ spotless /\ Quiet =>
        \A c \in ClIDs : Live(c) =>
            /\ acct.ordersID[exch[c].id] = c
            /\ acct.orders[c].status \notin ClosedStatus
            /\ acct.orders[c].leaves = exch[c].leaves

\* A sender that waits for the result of its request gets it, also when the
\* listener fails and restarts in between.
EveryRequestAnswered ==
    \A k \in {"new", "cancel", "replace"} :
        (rules.defers /\ call[k].owed) ~> ~call[k].owed

\* No order stays pending for ever where checkAccount looks for such orders.
PendingResolves == \A c \in ClIDs : (rules.expires /\ Pending(c)) ~> ~Pending(c)

\* In the end the account has the venue's position, whatever was lost, however
\* late the fills come, and also where fills are not streamed or come twice.
PositionSettles == <>[](drift = 0)
==============================================================================
