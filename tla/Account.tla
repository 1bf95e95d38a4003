------------------------------ MODULE Account ------------------------------
(***************************************************************************)
(* An Account driven by arbitrary callers: every method of account.go that *)
(* changes orders may be called at any time, with any client or exchange   *)
(* id.  It is the contract of the class, not of one listener: what holds   *)
(* here holds for every listener, paper account or test that uses it.      *)
(*                                                                         *)
(* What callers do respect:                                                *)
(*   - a client id is not reused while the account still refers to the     *)
(*     order that has it, except in a request that is refused;             *)
(*   - an exchange id names one order;                                     *)
(*   - quantities are positive (a zero quantity is never submitted);       *)
(*   - the account is not used after RejectCancelOrder reported a missed   *)
(*     fill (the listener panics and syncs again).                         *)
(***************************************************************************)
EXTENDS AccountOps

CONSTANTS
    MaxCum          \* bound on the executed quantity of one order

ASSUME AccountBounds == MaxCum \in Nat

VARIABLE acct

Keys == ClIDs \cup ExIDs

TypeOK == acct \in AccountType

Init == acct = NewAccount
----------------------------------------------------------------------------
\* The exchange ids that may be given to order c: nobody else's.
FreeID(c, x) ==
    /\ acct.ordersID[x] \in {NoID, c}
    /\ \A d \in ClIDs \ {c} : acct.orders[d].id # x

DoNewOrder(c, side, type, price, qty) ==
    /\ ~NewOrderRejected(acct, c, type, price)
    /\ ~Referenced(acct, c)
    /\ acct' = NewOrder(acct, c, side, type, price, qty)

DoConfirmNewOrder(c, x, qty) ==
    /\ ~ConfirmNewOrderError(acct, c)
    /\ FreeID(c, x)
    /\ acct' = ConfirmNewOrder(acct, c, x, qty)

DoRejectNewOrder(c) ==
    /\ ~RejectNewOrderError(acct, c)
    /\ acct' = RejectNewOrder(acct, c)

DoReplaceOrder(k, price, qty) ==
    /\ ~ReplaceOrderRejected(acct, k)
    /\ acct' = ReplaceOrder(acct, k, price, qty)

DoConfirmReplaceOrder(k, newID) ==
    /\ ~NotPendingReplace(acct, k)
    /\ newID # NoID => FreeID(Find(acct, k), newID)
    /\ acct' = ConfirmReplaceOrder(acct, k, newID)

DoRejectReplaceOrder(k) ==
    /\ Known(acct, k)
    /\ acct' = RejectReplaceOrder(acct, k)

DoCancelOrder(k) ==
    /\ ~CancelOrderRejected(acct, k)
    /\ acct' = CancelOrder(acct, k)

DoConfirmCancelOrder(k) ==
    /\ Known(acct, k)
    /\ acct' = ConfirmCancelOrder(acct, k)

DoConfirmExpiredOrder(k) ==
    /\ Known(acct, k)
    /\ acct' = ConfirmExpiredOrder(acct, k)

DoRejectCancelOrder(k, unknownOrder) ==
    /\ Known(acct, k)
    /\ acct.orders[Find(acct, k)].unknown <= UnknownLimit
    /\ acct' = RejectCancelOrder(acct, k, unknownOrder)

DoPendingFilled(k) ==
    /\ Known(acct, k)
    /\ acct' = PendingFilled(acct, k)

DoConfirmFill(k, qty) ==
    /\ ~ConfirmFillError(acct, k, qty)
    /\ acct.orders[Find(acct, k)].cum + qty <= MaxCum
    /\ acct' = ConfirmFill(acct, k, qty)

\* An order as the exchange lists it, with an id of its own.
Listed(side, x, price, leaves, cum) ==
    [Blank EXCEPT !.side = side, !.type = "Limit", !.price = price, !.id = x,
                  !.status = IF cum = 0 THEN "New" ELSE "PartiallyFilled",
                  !.leaves = leaves, !.cum = cum]

Snapshots ==
    LET listed == {Listed(s, x, p, l, n) :
                     s \in Sides, x \in ExIDs, p \in Prices, l \in Lots, n \in 0..MaxCum}
    IN  {f \in [ClIDs -> {Blank} \cup listed] :
            \A c, d \in ClIDs : c # d /\ f[c].id = f[d].id => f[c].id = NoID}

SyncedAccounts == {Sync(f) : f \in Snapshots}

DoSync == acct' \in SyncedAccounts

DoCleanOrders == acct' = CleanOrders(acct)

DoAge(c) == Referenced(acct, c) /\ acct' = Age(acct, c)
----------------------------------------------------------------------------
NewOrderNext ==
    \/ \E c \in ClIDs, s \in Sides, t \in Types, p \in Prices \cup {NoPrice}, q \in Lots :
          DoNewOrder(c, s, t, p, q)
    \/ \E c \in ClIDs, x \in ExIDs, q \in 0..MaxLots : DoConfirmNewOrder(c, x, q)
    \/ \E c \in ClIDs : DoRejectNewOrder(c)

AmendNext ==
    \E k \in Keys :
        \/ \E p \in Prices \cup {NoPrice}, q \in 0..MaxLots : DoReplaceOrder(k, p, q)
        \/ \E x \in ExIDs \cup {NoID} : DoConfirmReplaceOrder(k, x)
        \/ DoRejectReplaceOrder(k)

CancelNext ==
    \E k \in Keys :
        \/ DoCancelOrder(k)
        \/ DoConfirmCancelOrder(k)
        \/ DoConfirmExpiredOrder(k)
        \/ \E u \in BOOLEAN : DoRejectCancelOrder(k, u)

FillNext ==
    \E k \in Keys : DoPendingFilled(k) \/ \E q \in Lots : DoConfirmFill(k, q)

HousekeepingNext == DoSync \/ DoCleanOrders \/ \E c \in ClIDs : DoAge(c)

Next == NewOrderNext \/ AmendNext \/ CancelNext \/ FillNext \/ HousekeepingNext

Spec == Init /\ [][Next]_acct
----------------------------------------------------------------------------
(***************************************************************************)
(* Safety: for every caller, at every point between two method calls.      *)
(***************************************************************************)

\* The securities value the resting orders (openBidOrders, openAskOrders), the
\* account owns them: two structures, written by eight methods, that have to say
\* the same thing (ConfirmNewOrder, ConfirmReplaceOrder, ConfirmCancelOrder,
\* ConfirmExpiredOrder, ConfirmFill, RejectNewOrder, CleanOrders, Sync).
\* An entry is that of an open order, and no cancel, replace, rejection or partial
\* fill makes them forget an order that still rests at the exchange.
BookMirrorsOrders ==
    \A c \in ClIDs : EntryMirrorsOrder(acct, c) /\ WorkingOrderRests(acct, c)

\* ConfirmFill decides from status and quantity whether an order is done, also
\* while a cancel or replace is pending: no zombie is left working.
WorkingOrdersHaveLeaves == \A c \in ClIDs : WorkingOrderHasLeaves(acct, c)

\* ordersClID and ordersID are written and cleaned by different methods.
ConfirmedReachable == \A c \in ClIDs : ConfirmedIsReachable(acct, c)

\* previousStatus is written by three methods and read by three others.
SavedStatusIsSound == \A c \in ClIDs : SavedStatusSound(acct, c)

\* The inductive strengthening the proofs use.
Inv == AccountInv(acct)

(***************************************************************************)
(* Action properties.                                                      *)
(***************************************************************************)

\* Only Sync leaves an order in a working status with no last event time.
JustSynced(o) == o.status \in OpenStatus /\ o.stale

\* Between two Syncs a Filled order never works again: late rejections,
\* confirmations and fills may close it otherwise, or it is forgotten.
FilledIsFinal ==
    [][ \A c \in ClIDs :
          acct.orders[c].status = "Filled" =>
              \/ acct'.orders[c].status \in ClosedStatus \cup {"Rejected", "Blank"}
              \/ JustSynced(acct'.orders[c]) ]_acct

\* An order that left the book does not come back: only the confirmation of a
\* new order, or Sync, adds an entry.
NoRebooking ==
    [][ \A s \in Sides, c \in ClIDs :
          acct'.book[s][c].on /\ ~acct.book[s][c].on =>
              acct.orders[c].status = "PendingNew" \/ JustSynced(acct'.orders[c]) ]_acct
=============================================================================
