----------------------------- MODULE AccountOps -----------------------------
(***************************************************************************)
(* The order half of account/account.go: the orders an Account knows, its  *)
(* two indexes over them, and the resting orders it mirrors in the         *)
(* securities.  Every exported method of Account that changes orders is    *)
(* one operator from account value to account value, so that a handler     *)
(* that calls several methods is a composition of operators.  A method     *)
(* that can return an error has a predicate for it.  The money half        *)
(* (positions, margin, balances) shares no field with this one.            *)
(*                                                                         *)
(* The account is under its own mutex: a method call is one step.          *)
(*                                                                         *)
(* An *Order is identified by its ClientOrderID: at any time the account   *)
(* refers to at most one order with a given client id (client ids are      *)
(* UUIDs).  The order stays in the heap while one of the indexes refers to *)
(* it.  Quantities are counted in lots, the unit of lotPrecision.          *)
(***************************************************************************)
EXTENDS Integers

CONSTANTS
    ClIDs,          \* client order ids
    ExIDs,          \* order ids given by the exchange
    NoID,           \* the empty order id
    Sides,          \* sides orders are sent on, among "Buy" and "Sell"
    Types,          \* order types sent, among "Limit" and "Market"
    MaxLots,        \* largest quantity of one order, in lots
    MaxPrice,       \* prices are 1..MaxPrice
    UnknownLimit    \* "unknown order" cancel rejections tolerated (6 in the code)

ASSUME AccountConstants ==
    /\ ClIDs \cap ExIDs = {}
    /\ NoID \notin ClIDs \cup ExIDs
    /\ "Buy" \in Sides /\ Sides \subseteq {"Buy", "Sell"}
    /\ "Limit" \in Types /\ Types \subseteq {"Limit", "Market"}
    /\ MaxLots \in Nat \ {0}
    /\ MaxPrice \in Nat \ {0}
    /\ UnknownLimit \in Nat

NoPrice  == 0                        \* a nil *wrapperspb.DoubleValue
Prices   == 1..MaxPrice
Lots     == 1..MaxLots

PendingStatus == {"PendingFilled", "PendingCancel", "PendingNew", "PendingReplace"}
ClosedStatus  == {"Filled", "Canceled", "Expired"}
OpenStatus    == {"New", "PartiallyFilled"}
OrderStatus   == PendingStatus \cup ClosedStatus \cup OpenStatus \cup {"Rejected"}
CancelableStatus == {"New", "PartiallyFilled", "PendingNew"}

\* A heap slot no index refers to.
Blank ==
    [ side |-> "Buy", type |-> "Limit", price |-> NoPrice,
      status |-> "Blank", prev |-> "Blank", id |-> NoID, leaves |-> 0, cum |-> 0,
      amendPrice |-> NoPrice, amendQty |-> 0, unknown |-> 0, stale |-> FALSE ]

\* "stale" says that lastEventTime is more than a minute old, the one thing
\* CheckExpiration and CleanOrders ask of it.
Order ==
    [ side : Sides, type : Types, price : Prices \cup {NoPrice},
      status : OrderStatus \cup {"Blank"}, prev : OrderStatus \cup {"Blank"},
      id : ExIDs \cup {NoID}, leaves : Nat, cum : Nat,
      amendPrice : Prices \cup {NoPrice}, amendQty : 0..MaxLots,
      unknown : Nat, stale : BOOLEAN ]

\* An entry of a security's openBidOrders or openAskOrders.
Off      == [on |-> FALSE, price |-> NoPrice, qty |-> 0]
Entry    == [on : BOOLEAN, price : Prices \cup {NoPrice}, qty : Nat]

AccountType ==
    [ orders : [ClIDs -> Order],              \* the heap of *Order
      ordersClID : SUBSET ClIDs,              \* keys of the map ordersClID
      ordersID : [ExIDs -> ClIDs \cup {NoID}],\* the map ordersID
      book : [Sides -> [ClIDs -> Entry]] ]    \* openBidOrders, openAskOrders

NewAccount ==
    [ orders |-> [c \in ClIDs |-> Blank],
      ordersClID |-> {},
      ordersID |-> [x \in ExIDs |-> NoID],
      book |-> [s \in Sides |-> [c \in ClIDs |-> Off]] ]
----------------------------------------------------------------------------
(***************************************************************************)
(* Lookup and heap.                                                        *)
(***************************************************************************)

\* The order an ID names, by client id first, then by exchange id.
Find(a, k) ==
    IF k \in a.ordersClID THEN k
    ELSE IF k \in ExIDs THEN a.ordersID[k] ELSE NoID

Known(a, k) == Find(a, k) # NoID

Referenced(a, c) == c \in a.ordersClID \/ \E x \in ExIDs : a.ordersID[x] = c

\* Orders no index refers to any more are garbage.
Collect(a) ==
    [a EXCEPT !.orders = [c \in ClIDs |-> IF Referenced(a, c) THEN @[c] ELSE Blank]]

\* The order object of c takes the value o.
Put(a, c, o) == [a EXCEPT !.orders[c] = o]

\* Every transition but RejectNewOrder stamps lastEventTime.
Stamp(o, s) == [o EXCEPT !.status = s, !.stale = FALSE]
Save(o, s)  == [o EXCEPT !.prev = o.status, !.status = s, !.stale = FALSE]

\* AddBidOrder / AddAskOrder, Remove..., Update... of the order's security.
SetEntry(a, side, c, e) == [a EXCEPT !.book[side][c] = e]
Showing(o) == [on |-> TRUE, price |-> o.price, qty |-> o.leaves]
Rests(a, c) == a.orders[c].type = "Limit" /\ a.book[a.orders[c].side][c].on

BookAdd(a, c) ==
    LET o == a.orders[c] IN
    IF o.type = "Limit" THEN SetEntry(a, o.side, c, Showing(o)) ELSE a

BookRemove(a, c) ==
    LET o == a.orders[c] IN
    IF o.type = "Limit" THEN SetEntry(a, o.side, c, Off) ELSE a

BookUpdate(a, c) ==
    LET o == a.orders[c] IN
    IF Rests(a, c) THEN SetEntry(a, o.side, c, Showing(o)) ELSE a

\* Mutant: the entry is added when it is not there.
BookUpdateQuantityUpserts(a, c) ==
    LET o == a.orders[c] IN
    IF o.type = "Limit" THEN SetEntry(a, o.side, c, Showing(o)) ELSE a

BookUpdateQuantity(a, c) ==
    LET o == a.orders[c] IN
    IF Rests(a, c)
    THEN SetEntry(a, o.side, c, [a.book[o.side][c] EXCEPT !.qty = o.leaves])
    ELSE a
----------------------------------------------------------------------------
(***************************************************************************)
(* New orders.                                                             *)
(***************************************************************************)

\* The request is refused: nothing changes.  (It is also refused for what the
\* model takes as given: an unknown instrument, a quantity that is no multiple
\* of a lot, a quantity already executed, a status other than PendingNew.)
NewOrderRejected(a, c, type, price) ==
    c \in a.ordersClID \/ (type = "Limit" /\ price = NoPrice)

Submitted(side, type, price, qty) ==
    [ side |-> side, type |-> type, price |-> price, status |-> "PendingNew",
      prev |-> "PendingNew", id |-> NoID, leaves |-> qty, cum |-> 0,
      amendPrice |-> NoPrice, amendQty |-> 0, unknown |-> 0, stale |-> FALSE ]

NewOrder(a, c, side, type, price, qty) ==
    [Put(a, c, Submitted(side, type, price, qty)) EXCEPT !.ordersClID = @ \cup {c}]

ConfirmNewOrderError(a, c) == c \notin a.ordersClID

\* The order once confirmed; qty = 0 stands for a nil leavesQuantity.
Confirmed(o, x, qty) ==
    [Stamp(o, "New") EXCEPT !.id = x, !.leaves = IF qty = 0 THEN o.leaves ELSE qty]

\* Mutant: the exchange id is not indexed.
ConfirmNewOrderUnindexed(a, c, x, qty) ==
    IF a.orders[c].status # "PendingNew" THEN a
    ELSE BookAdd(Put(a, c, Confirmed(a.orders[c], x, qty)), c)

\* Nothing happens when the status is not PendingNew ("already confirmed, nop").
ConfirmNewOrder(a, c, x, qty) ==
    IF a.orders[c].status # "PendingNew" THEN a
    ELSE BookAdd([Put(a, c, Confirmed(a.orders[c], x, qty)) EXCEPT !.ordersID[x] = c], c)

RejectNewOrderError(a, c) == c \notin a.ordersClID

\* Mutant: both indexes forget the order.
RejectNewOrderEverywhere(a, c) ==
    Collect([a EXCEPT !.ordersClID = @ \ {c},
                      !.ordersID = [x \in ExIDs |-> IF @[x] = c THEN NoID ELSE @[x]]])

\* Only the client-id index forgets the order; the securities keep its entry.
RejectNewOrder(a, c) ==
    Collect([Put(a, c, [a.orders[c] EXCEPT !.status = "Rejected"])
                EXCEPT !.ordersClID = @ \ {c}])
----------------------------------------------------------------------------
(***************************************************************************)
(* Amending an order.                                                      *)
(***************************************************************************)

ReplaceOrderRejected(a, k) ==
    ~Known(a, k) \/ a.orders[Find(a, k)].status \notin OpenStatus

ReplaceOrder(a, k, price, qty) ==
    LET c == Find(a, k) IN
    Put(a, c, [Save(a.orders[c], "PendingReplace") EXCEPT
                  !.amendPrice = price, !.amendQty = qty])

NotPendingReplace(a, k) ==
    ~Known(a, k) \/ a.orders[Find(a, k)].status # "PendingReplace"

\* "replacing price on an order without price": the status and the quantity
\* are already updated when the error is returned.
ReplacePriceError(a, k) ==
    LET o == a.orders[Find(a, k)] IN o.amendPrice # NoPrice /\ o.price = NoPrice

AmendedQuantity(o) ==
    [Stamp(o, o.prev) EXCEPT
        !.leaves = IF o.amendQty = 0 THEN o.leaves ELSE o.amendQty, !.amendQty = 0]

Amended(o, newID) ==
    [AmendedQuantity(o) EXCEPT
        !.price = IF o.amendPrice = NoPrice THEN o.price ELSE o.amendPrice,
        !.amendPrice = NoPrice,
        !.id = IF newID = NoID THEN o.id ELSE newID]

\* Mutant: the securities keep the old price and quantity.
ConfirmReplaceOrderUnshown(a, k, newID) ==
    LET c == Find(a, k) IN Put(a, c, Amended(a.orders[c], newID))

ConfirmReplaceOrder(a, k, newID) ==
    LET c == Find(a, k) IN
    IF ReplacePriceError(a, k) THEN Put(a, c, AmendedQuantity(a.orders[c]))
    ELSE BookUpdate(Put(a, c, Amended(a.orders[c], newID)), c)

\* The pending price and quantity stay behind.
RejectReplaceOrder(a, k) ==
    LET c == Find(a, k) IN
    IF a.orders[c].status = "PendingReplace"
    THEN Put(a, c, Stamp(a.orders[c], a.orders[c].prev)) ELSE a
----------------------------------------------------------------------------
(***************************************************************************)
(* Canceling and expiry.                                                   *)
(***************************************************************************)

CancelOrderRejected(a, k) ==
    ~Known(a, k) \/ a.orders[Find(a, k)].status \notin CancelableStatus

CancelOrder(a, k) ==
    LET c == Find(a, k) IN Put(a, c, Save(a.orders[c], "PendingCancel"))

ConfirmCancelOrder(a, k) ==
    LET c == Find(a, k) IN
    IF a.orders[c].status = "Canceled" THEN a
    ELSE BookRemove(Put(a, c, Stamp(a.orders[c], "Canceled")), c)

\* Mutant: an expired order keeps its entry.
ConfirmExpiredOrderBooked(a, k) ==
    LET c == Find(a, k) IN
    IF a.orders[c].status = "Expired" THEN a
    ELSE Put(a, c, [Stamp(a.orders[c], "Expired") EXCEPT !.leaves = 0])

ConfirmExpiredOrder(a, k) ==
    LET c == Find(a, k) IN
    IF a.orders[c].status = "Expired" THEN a
    ELSE BookRemove(Put(a, c, [Stamp(a.orders[c], "Expired") EXCEPT !.leaves = 0]), c)

\* "missed a fill": the count has reached its limit, the order stays
\* PendingCancel and the caller gets an error.
MissedFill(o, unknownOrder) ==
    unknownOrder /\ o.status = "PendingCancel" /\ o.unknown >= UnknownLimit

RejectCancelOrderError(a, k, unknownOrder) ==
    ~Known(a, k) \/ MissedFill(a.orders[Find(a, k)], unknownOrder)

CancelRejected(o, unknownOrder) ==
    [o EXCEPT !.unknown = IF unknownOrder THEN o.unknown + 1 ELSE o.unknown,
              !.status  = IF MissedFill(o, unknownOrder) THEN o.status ELSE o.prev,
              !.stale   = o.stale /\ MissedFill(o, unknownOrder)]

RejectCancelOrder(a, k, unknownOrder) ==
    LET c == Find(a, k) IN
    IF a.orders[c].status = "PendingCancel"
    THEN Put(a, c, CancelRejected(a.orders[c], unknownOrder)) ELSE a
----------------------------------------------------------------------------
(***************************************************************************)
(* Fills.                                                                  *)
(***************************************************************************)

\* Mutant: a Filled order is pending again.
PendingFilledAlways(a, k) ==
    LET c == Find(a, k) IN Put(a, c, Save(a.orders[c], "PendingFilled"))

PendingFilled(a, k) ==
    LET c == Find(a, k) IN
    IF a.orders[c].status = "Filled" THEN a
    ELSE Put(a, c, Save(a.orders[c], "PendingFilled"))

ConfirmFillError(a, k, qty) ==
    ~Known(a, k) \/ qty > a.orders[Find(a, k)].leaves

\* Mutant: a pending order is never Filled by a fill.
FillStatusOpenOnly(o, qty) ==
    IF o.status \notin OpenStatus THEN o.status
    ELSE IF qty = o.leaves THEN "Filled" ELSE "PartiallyFilled"

\* A pending order only becomes Filled, an open one also PartiallyFilled, a
\* closed or rejected one keeps its status.
FillStatus(o, qty) ==
    IF o.status \in PendingStatus \cup OpenStatus /\ qty = o.leaves THEN "Filled"
    ELSE IF o.status \in OpenStatus THEN "PartiallyFilled"
    ELSE o.status

Filled(o, qty) ==
    [Stamp(o, FillStatus(o, qty)) EXCEPT !.leaves = o.leaves - qty, !.cum = o.cum + qty]

ConfirmFill(a, k, qty) ==
    LET c == Find(a, k)
        b == Put(a, c, Filled(a.orders[c], qty))
    IN  IF b.orders[c].status = "Filled" THEN BookRemove(b, c) ELSE BookUpdateQuantity(b, c)
----------------------------------------------------------------------------
(***************************************************************************)
(* Synchronisation and housekeeping.                                       *)
(***************************************************************************)

\* The account after Sync: the snapshot's orders, all of them indexed twice,
\* the resting ones in the book; lastEventTime is left zero.
Sync(orders) ==
    LET listed == {c \in ClIDs : orders[c].status # "Blank"}
        rests(c) == /\ c \in listed
                    /\ orders[c].status \in OpenStatus
                    /\ orders[c].type = "Limit"
    IN  [ orders |-> [c \in ClIDs |->
                        IF c \in listed
                        THEN [orders[c] EXCEPT !.prev = orders[c].status, !.unknown = 0,
                                               !.amendPrice = NoPrice, !.amendQty = 0,
                                               !.stale = TRUE]
                        ELSE Blank],
          ordersClID |-> listed,
          ordersID |-> [x \in ExIDs |->
                            IF \E c \in listed : orders[c].id = x
                            THEN CHOOSE c \in listed : orders[c].id = x ELSE NoID],
          book |-> [s \in Sides |-> [c \in ClIDs |->
                        IF rests(c) /\ orders[c].side = s
                        THEN [on |-> TRUE, price |-> orders[c].price, qty |-> orders[c].leaves]
                        ELSE Off]] ]

\* CheckExpiration reports an order that stayed pending for a minute.
ExpirationError(a) ==
    \E c \in a.ordersClID : a.orders[c].status \in PendingStatus /\ a.orders[c].stale

CleanOrders(a) ==
    LET gone == {c \in a.ordersClID : a.orders[c].status \in ClosedStatus /\ a.orders[c].stale}
    IN  Collect([a EXCEPT
            !.ordersClID = @ \ gone,
            !.ordersID = [x \in ExIDs |-> IF \E c \in gone : a.orders[c].id = x
                                          THEN NoID ELSE @[x]]])

\* A minute passes since the last event of order c.
Age(a, c) == [a EXCEPT !.orders[c].stale = TRUE]
----------------------------------------------------------------------------
(***************************************************************************)
(* What the methods keep true of the order with client id c.               *)
(***************************************************************************)

\* An order that works at the exchange, or goes back to working when a request
\* is refused.
Working(o) ==
    \/ o.status \in OpenStatus \cup {"PendingReplace"}
    \/ o.status = "PendingCancel" /\ o.prev # "PendingNew"

\* An entry of the securities' resting orders belongs to a confirmed Limit order
\* of that side that the account still refers to and that is not closed, and
\* shows its price and the quantity it has left.
EntryMirrorsOrder(a, c) ==
    \A s \in Sides :
        a.book[s][c].on =>
            LET o == a.orders[c] IN
            /\ Referenced(a, c)
            /\ o.id # NoID /\ o.status \notin ClosedStatus
            /\ o.side = s /\ o.type = "Limit"
            /\ a.book[s][c].price = o.price
            /\ a.book[s][c].qty = o.leaves

\* A Limit order the exchange has confirmed and that may still execute rests in
\* its security, whatever was asked and refused in between.
WorkingOrderRests(a, c) ==
    LET o == a.orders[c] IN
    c \in a.ordersClID /\ o.type = "Limit" /\ Working(o) => a.book[o.side][c].on

\* An order that is executed in full never looks as if it were still working,
\* and a Filled order has nothing left to execute.
WorkingOrderHasLeaves(a, c) ==
    LET o == a.orders[c] IN
    /\ o.status \in OpenStatus \cup {"PendingNew", "PendingCancel", "PendingReplace"}
          => o.leaves > 0
    /\ o.status = "Filled" => o.leaves = 0

\* A confirmed order can be found by an exchange id for as long as it can be
\* found by its client id: fills are reported by exchange id only.
ConfirmedIsReachable(a, c) ==
    c \in a.ordersClID /\ a.orders[c].id # NoID => \E x \in ExIDs : a.ordersID[x] = c

\* The status a rejection brings back is one the request was allowed from: an
\* order that is, or goes back to, PendingNew was never confirmed, one that is,
\* or goes back to, working was.
SavedStatusSound(a, c) ==
    LET o == a.orders[c] IN
    /\ o.status = "PendingReplace" => o.prev \in OpenStatus
    /\ o.status = "PendingCancel" => o.prev \in CancelableStatus
    /\ o.status = "PendingNew" \/ (o.status = "PendingCancel" /\ o.prev = "PendingNew")
          => o.id = NoID
    /\ Working(o) => o.id # NoID

\* The heap holds the orders an index refers to and no other, an exchange id
\* leads to the order that has it, and a Limit order has a price.
HeapSound(a, c) ==
    LET o == a.orders[c] IN
    /\ Referenced(a, c) => o.status # "Blank"
    /\ ~Referenced(a, c) => o = Blank
    /\ o.id # NoID => a.ordersID[o.id] \in {NoID, c}
    /\ o.status # "Blank" /\ o.type = "Limit" => o.price # NoPrice

OrderInv(a, c) ==
    /\ EntryMirrorsOrder(a, c)
    /\ WorkingOrderRests(a, c)
    /\ WorkingOrderHasLeaves(a, c)
    /\ ConfirmedIsReachable(a, c)
    /\ SavedStatusSound(a, c)
    /\ HeapSound(a, c)

\* The inductive invariant of an account.
AccountInv(a) == a \in AccountType /\ \A c \in ClIDs : OrderInv(a, c)
=============================================================================
