--------------------------- MODULE AccountProofs ---------------------------
(***************************************************************************)
(* The theorems about Account!Spec: an Account keeps its invariant and its *)
(* two action properties, whoever calls its methods.  What a method does   *)
(* to the invariant is proved in AccountOpsProofs.                         *)
(***************************************************************************)
EXTENDS Account, AccountOpsProofs

\* The list of open orders DoSync chooses from.
LEMMA SnapshotsAreSnapshots ==
    ASSUME NEW f \in Snapshots
    PROVE  Snapshot(f)
<1>1. ASSUME NEW s \in Sides, NEW x \in ExIDs, NEW p \in Prices, NEW l \in Lots,
             NEW n \in 0..MaxCum
      PROVE  LET o == Listed(s, x, p, l, n) IN
             /\ o \in Order /\ o.status \in OpenStatus /\ o.leaves > 0 /\ o.id # NoID
             /\ o.price # NoPrice
  <2>1. l \in Nat /\ l > 0 /\ n \in Nat /\ p # NoPrice /\ x # NoID
      BY AccountConstants, AccountBounds DEF Lots, Prices, NoPrice
  <2>2. Blank \in Order
      BY AccountConstants DEF Blank, Order
  <2>3. "Limit" \in Types /\ {"New", "PartiallyFilled"} \subseteq OrderStatus
      BY AccountConstants DEF OrderStatus, OpenStatus
  <2> QED
      BY <2>1, <2>2, <2>3 DEF Listed, Order, OpenStatus
<1>2. Blank \in Order /\ Blank.status = "Blank"
    BY AccountConstants DEF Blank, Order
<1>3. ASSUME NEW c \in ClIDs
      PROVE  /\ f[c] \in Order
             /\ f[c].status # "Blank" =>
                   /\ f[c].status \in OpenStatus /\ f[c].leaves > 0 /\ f[c].id # NoID
                   /\ f[c].price # NoPrice
  <2>1. CASE f[c] = Blank
      BY <1>2, <2>1
  <2>2. CASE f[c] # Blank
    <3>1. PICK s \in Sides, x \in ExIDs, p \in Prices, l \in Lots, n \in 0..MaxCum :
             f[c] = Listed(s, x, p, l, n)
        BY <2>2 DEF Snapshots
    <3> QED
        BY <1>1, <3>1
  <2> QED
      BY <2>1, <2>2
<1>4. f = [c \in ClIDs |-> f[c]]
    BY DEF Snapshots
<1>5. f \in [ClIDs -> Order]
    BY <1>3, <1>4
<1> QED
    BY <1>3, <1>5 DEF Snapshot, Snapshots

\* Every method call, by any caller, keeps the invariant of the account.
LEMMA Inductive == Inv /\ [Next]_acct => Inv'
<1> SUFFICES ASSUME Inv, [Next]_acct PROVE AccountInv(acct')
    BY DEF Inv
<1>1. AccountInv(acct)
    BY DEF Inv
<1>2. CASE UNCHANGED acct
    BY <1>1, <1>2
<1>3. CASE NewOrderNext
  <2>1. ASSUME NEW c \in ClIDs, NEW s \in Sides, NEW t \in Types,
               NEW p \in Prices \cup {NoPrice}, NEW q \in Lots, DoNewOrder(c, s, t, p, q)
        PROVE  AccountInv(acct')
      BY <1>1, <2>1, NewOrderInv DEF DoNewOrder
  <2>2. ASSUME NEW c \in ClIDs, NEW x \in ExIDs, NEW q \in 0..MaxLots,
               DoConfirmNewOrder(c, x, q)
        PROVE  AccountInv(acct')
      BY <1>1, <2>2, ConfirmNewOrderInv DEF DoConfirmNewOrder, FreeID
  <2>3. ASSUME NEW c \in ClIDs, DoRejectNewOrder(c)
        PROVE  AccountInv(acct')
      BY <1>1, <2>3, RejectNewOrderInv DEF DoRejectNewOrder
  <2> QED
      BY <1>3, <2>1, <2>2, <2>3 DEF NewOrderNext
<1>4. CASE AmendNext
  <2>1. ASSUME NEW k \in Keys, NEW p \in Prices \cup {NoPrice}, NEW q \in 0..MaxLots,
               DoReplaceOrder(k, p, q)
        PROVE  AccountInv(acct')
      BY <1>1, <2>1, ReplaceOrderInv DEF DoReplaceOrder
  <2>2. ASSUME NEW k \in Keys, NEW x \in ExIDs \cup {NoID}, DoConfirmReplaceOrder(k, x)
        PROVE  AccountInv(acct')
      BY <1>1, <2>2, ConfirmReplaceOrderInv DEF DoConfirmReplaceOrder, FreeID
  <2>3. ASSUME NEW k \in Keys, DoRejectReplaceOrder(k)
        PROVE  AccountInv(acct')
      BY <1>1, <2>3, RejectReplaceOrderInv DEF DoRejectReplaceOrder
  <2> QED
      BY <1>4, <2>1, <2>2, <2>3 DEF AmendNext
<1>5. CASE CancelNext
  <2>1. ASSUME NEW k \in Keys, DoCancelOrder(k)
        PROVE  AccountInv(acct')
      BY <1>1, <2>1, CancelOrderInv DEF DoCancelOrder
  <2>2. ASSUME NEW k \in Keys, DoConfirmCancelOrder(k)
        PROVE  AccountInv(acct')
      BY <1>1, <2>2, ConfirmCancelOrderInv DEF DoConfirmCancelOrder
  <2>3. ASSUME NEW k \in Keys, DoConfirmExpiredOrder(k)
        PROVE  AccountInv(acct')
      BY <1>1, <2>3, ConfirmExpiredOrderInv DEF DoConfirmExpiredOrder
  <2>4. ASSUME NEW k \in Keys, NEW u \in BOOLEAN, DoRejectCancelOrder(k, u)
        PROVE  AccountInv(acct')
      BY <1>1, <2>4, RejectCancelOrderInv DEF DoRejectCancelOrder
  <2> QED
      BY <1>5, <2>1, <2>2, <2>3, <2>4 DEF CancelNext
<1>6. CASE FillNext
  <2>1. ASSUME NEW k \in Keys, DoPendingFilled(k)
        PROVE  AccountInv(acct')
      BY <1>1, <2>1, PendingFilledInv DEF DoPendingFilled
  <2>2. ASSUME NEW k \in Keys, NEW q \in Lots, DoConfirmFill(k, q)
        PROVE  AccountInv(acct')
      BY <1>1, <2>2, ConfirmFillInv DEF DoConfirmFill
  <2> QED
      BY <1>6, <2>1, <2>2 DEF FillNext
<1>7. CASE HousekeepingNext
  <2>1. ASSUME DoSync PROVE AccountInv(acct')
      BY <2>1, SnapshotsAreSnapshots, SyncInv DEF DoSync, SyncedAccounts
  <2>2. ASSUME DoCleanOrders PROVE AccountInv(acct')
      BY <1>1, <2>2, CleanOrdersInv DEF DoCleanOrders
  <2>3. ASSUME NEW c \in ClIDs, DoAge(c) PROVE AccountInv(acct')
      BY <1>1, <2>3, AgeInv DEF DoAge
  <2> QED
      BY <1>7, <2>1, <2>2, <2>3 DEF HousekeepingNext
<1> QED
    BY <1>2, <1>3, <1>4, <1>5, <1>6, <1>7 DEF Next

\* The inductive invariant holds in every reachable state of every Account.
THEOREM InvHolds == Spec => []Inv
<1>1. Init => Inv
    BY NewAccountInv DEF Init, Inv
<1> QED
    BY <1>1, Inductive, PTL DEF Spec

\* The fields of the account always have the types of account.go.
THEOREM TypeCorrect == Spec => []TypeOK
<1>1. Inv => TypeOK
    BY DEF Inv, AccountInv, TypeOK
<1> QED
    BY <1>1, InvHolds, PTL

\* The resting orders the securities value are, at every point between two
\* calls of account.go's methods, orders of the account that are not closed,
\* with their price and the quantity they have left; and no sequence of requests,
\* refusals and partial fills makes it forget one that still rests at the exchange.
THEOREM BookMirrors == Spec => []BookMirrorsOrders
<1>1. Inv => BookMirrorsOrders
    BY DEF Inv, AccountInv, OrderInv, BookMirrorsOrders
<1> QED
    BY <1>1, InvHolds, PTL

\* No order executed in full looks as if it were still working, whatever was
\* pending when its fills arrived (ConfirmFill).
THEOREM WorkingHaveLeaves == Spec => []WorkingOrdersHaveLeaves
<1>1. Inv => WorkingOrdersHaveLeaves
    BY DEF Inv, AccountInv, OrderInv, WorkingOrdersHaveLeaves
<1> QED
    BY <1>1, InvHolds, PTL

\* An order confirmed by the exchange stays reachable by an exchange id, the key
\* its fills come with, for as long as its client id is known.
THEOREM Reachable == Spec => []ConfirmedReachable
<1>1. Inv => ConfirmedReachable
    BY DEF Inv, AccountInv, OrderInv, ConfirmedReachable
<1> QED
    BY <1>1, InvHolds, PTL

\* RejectReplaceOrder and RejectCancelOrder only bring back a status the
\* refused request was allowed from.
THEOREM SavedStatus == Spec => []SavedStatusIsSound
<1>1. Inv => SavedStatusIsSound
    BY DEF Inv, AccountInv, OrderInv, SavedStatusIsSound
<1> QED
    BY <1>1, InvHolds, PTL
----------------------------------------------------------------------------
(***************************************************************************)
(* The action properties.                                                  *)
(***************************************************************************)

\* Every method but Sync keeps Filled orders closed and closed entries removed.
LEMMA StepKeeps ==
    ASSUME Inv, Next, ~DoSync
    PROVE  Keeps(acct, acct')
<1>1. AccountInv(acct)
    BY DEF Inv
<1>2. CASE NewOrderNext
  <2>1. ASSUME NEW c \in ClIDs, NEW s \in Sides, NEW t \in Types,
               NEW p \in Prices \cup {NoPrice}, NEW q \in Lots, DoNewOrder(c, s, t, p, q)
        PROVE  Keeps(acct, acct')
      BY <1>1, <2>1, NewOrderKeeps DEF DoNewOrder
  <2>2. ASSUME NEW c \in ClIDs, NEW x \in ExIDs, NEW q \in 0..MaxLots,
               DoConfirmNewOrder(c, x, q)
        PROVE  Keeps(acct, acct')
      BY <1>1, <2>2, ConfirmNewOrderKeeps DEF DoConfirmNewOrder
  <2>3. ASSUME NEW c \in ClIDs, DoRejectNewOrder(c)
        PROVE  Keeps(acct, acct')
      BY <1>1, <2>3, RejectNewOrderMoves DEF DoRejectNewOrder, Moves
  <2> QED
      BY <1>2, <2>1, <2>2, <2>3 DEF NewOrderNext
<1>3. CASE AmendNext
  <2>1. ASSUME NEW k \in Keys, NEW p \in Prices \cup {NoPrice}, NEW q \in 0..MaxLots,
               DoReplaceOrder(k, p, q)
        PROVE  Keeps(acct, acct')
      BY <1>1, <2>1, ReplaceOrderMoves DEF DoReplaceOrder, Moves
  <2>2. ASSUME NEW k \in Keys, NEW x \in ExIDs \cup {NoID}, DoConfirmReplaceOrder(k, x)
        PROVE  Keeps(acct, acct')
      BY <1>1, <2>2, ConfirmReplaceOrderKeeps DEF DoConfirmReplaceOrder, FreeID
  <2>3. ASSUME NEW k \in Keys, DoRejectReplaceOrder(k)
        PROVE  Keeps(acct, acct')
      BY <1>1, <2>3, RejectReplaceOrderMoves DEF DoRejectReplaceOrder, Moves
  <2> QED
      BY <1>3, <2>1, <2>2, <2>3 DEF AmendNext
<1>4. CASE CancelNext
  <2>1. ASSUME NEW k \in Keys, DoCancelOrder(k)
        PROVE  Keeps(acct, acct')
      BY <1>1, <2>1, CancelOrderMoves DEF DoCancelOrder, Moves
  <2>2. ASSUME NEW k \in Keys, DoConfirmCancelOrder(k)
        PROVE  Keeps(acct, acct')
      BY <1>1, <2>2, ConfirmCancelOrderMoves DEF DoConfirmCancelOrder, Moves
  <2>3. ASSUME NEW k \in Keys, DoConfirmExpiredOrder(k)
        PROVE  Keeps(acct, acct')
      BY <1>1, <2>3, ConfirmExpiredOrderMoves DEF DoConfirmExpiredOrder, Moves
  <2>4. ASSUME NEW k \in Keys, NEW u \in BOOLEAN, DoRejectCancelOrder(k, u)
        PROVE  Keeps(acct, acct')
      BY <1>1, <2>4, RejectCancelOrderMoves DEF DoRejectCancelOrder, Moves
  <2> QED
      BY <1>4, <2>1, <2>2, <2>3, <2>4 DEF CancelNext
<1>5. CASE FillNext
  <2>1. ASSUME NEW k \in Keys, DoPendingFilled(k)
        PROVE  Keeps(acct, acct')
      BY <1>1, <2>1, PendingFilledMoves DEF DoPendingFilled, Moves
  <2>2. ASSUME NEW k \in Keys, NEW q \in Lots, DoConfirmFill(k, q)
        PROVE  Keeps(acct, acct')
      BY <1>1, <2>2, ConfirmFillMoves DEF DoConfirmFill, Moves
  <2> QED
      BY <1>5, <2>1, <2>2 DEF FillNext
<1>6. CASE HousekeepingNext
  <2>1. ASSUME DoCleanOrders PROVE Keeps(acct, acct')
      BY <1>1, <2>1, CleanOrdersMoves DEF DoCleanOrders, Moves
  <2>2. ASSUME NEW c \in ClIDs, DoAge(c) PROVE Keeps(acct, acct')
      BY <1>1, <2>2, AgeMoves DEF DoAge, Moves
  <2> QED
      BY <1>6, <2>1, <2>2 DEF HousekeepingNext
<1> QED
    BY <1>2, <1>3, <1>4, <1>5, <1>6 DEF Next

\* What Sync makes of an order is gone or just synchronised.
LEMMA SyncStep ==
    ASSUME DoSync, NEW c \in ClIDs
    PROVE  /\ acct'.orders[c].status = "Blank" \/ JustSynced(acct'.orders[c])
           /\ \A s \in Sides : acct'.book[s][c].on => JustSynced(acct'.orders[c])
<1>1. PICK f \in Snapshots : acct' = Sync(f)
    BY DEF DoSync, SyncedAccounts
<1>2. Snapshot(f)
    BY SnapshotsAreSnapshots
<1>3. Blank.status = "Blank"
    BY DEF Blank
<1> QED
    BY <1>1, <1>2, <1>3, SyncShape DEF JustSynced

\* Between two Syncs a Filled order never works again, whatever late answers,
\* rejections and fills the methods of account.go are called with.
THEOREM FilledFinal == Spec => FilledIsFinal
<1>1. Inv /\ [Next]_acct =>
         [ \A c \in ClIDs :
             acct.orders[c].status = "Filled" =>
                 \/ acct'.orders[c].status \in ClosedStatus \cup {"Rejected", "Blank"}
                 \/ JustSynced(acct'.orders[c]) ]_acct
    BY StepKeeps, SyncStep DEF Keeps
<1> QED
    BY <1>1, InvHolds, PTL DEF Spec, FilledIsFinal

\* An entry that left the securities' resting orders is added again only by the
\* confirmation of a new order, or by Sync.
THEOREM NeverRebooked == Spec => NoRebooking
<1>1. Inv /\ [Next]_acct =>
         [ \A s \in Sides, c \in ClIDs :
             acct'.book[s][c].on /\ ~acct.book[s][c].on =>
                 acct.orders[c].status = "PendingNew" \/ JustSynced(acct'.orders[c]) ]_acct
    BY StepKeeps, SyncStep DEF Keeps
<1> QED
    BY <1>1, InvHolds, PTL DEF Spec, NoRebooking
=============================================================================
