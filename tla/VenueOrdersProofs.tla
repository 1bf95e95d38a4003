-------------------------- MODULE VenueOrdersProofs --------------------------
(***************************************************************************)
(* The theorems about VenueOrders!Spec, for every listener whose rules are *)
(* in Rules, every number of orders, requests and faults: what its         *)
(* answers and events make of the account keeps the account's invariant,   *)
(* closes no order that works at the venue, and where the listener hears   *)
(* of fills has what such an order has left.                               *)
(***************************************************************************)
EXTENDS VenueOrders, AccountOpsProofs

CallType == [sent : BOOLEAN, cs : SUBSET ClIDs, qty : 0..MaxLots,
             ans : Final \cup {"none", "waiting"}, owed : BOOLEAN]
VenueOrder == [at : {"None", "Live", "Done"}, id : ExIDs \cup {NoID},
               leaves : 0..MaxLots, cum : Nat]

\* The types, with the stream as the record it is.
StateTypes ==
    /\ rules \in VenueRules
    /\ phase \in {"running", "failed"}
    /\ call \in [Kinds -> CallType]
    /\ stream \in [up : BOOLEAN, q : Seq(Event)]
    /\ exch \in [ClIDs -> VenueOrder]
    /\ drift \in Int
    /\ {sweep, spotless} \subseteq BOOLEAN
    /\ calls \in 0..MaxCalls /\ faults \in 0..MaxFaults

\* An order the venue has taken has its id, and something left while it works.
OrderTrue(c) ==
    /\ exch[c].id = IF exch[c].at = "None" THEN NoID ELSE IdOf[c]
    /\ exch[c].at = "Live" => exch[c].leaves \in Lots

\* What is still on its way for an order is the first the venue hears of it; what
\* an answer says has happened.
CallTrue(k) ==
    LET r == call[k] IN
    /\ r.sent /\ k \in {"new", "bulk"} => \A c \in r.cs : exch[c].at = "None"
    /\ r.sent /\ k \notin {"cancel", "mass"} => r.qty \in Lots
    /\ k \in {"new", "cancel", "replace"} /\ (r.sent \/ r.ans # "none") =>
          \E c \in ClIDs : r.cs = {c}
    /\ r.ans = "expired" \/ (k = "cancel" /\ r.ans = "ok") =>
          \A c \in r.cs : exch[c].at = "Done"

\* No order is sent twice.
Apart == call["new"].sent /\ call["bulk"].sent => call["new"].cs \cap call["bulk"].cs = {}

\* What an event of the stream says has happened.
EventTrue(e) ==
    /\ e.id = IdOf[e.c]
    /\ e.ev \in {"new", "trade"} => e.qty \in Lots
    /\ e.ev \in {"canceled", "expired"} => exch[e.c].at = "Done"

EventsTrue == \A i \in 1..Len(stream.q) : EventTrue(stream.q[i])

\* What an account says of an order agrees with the venue.
Agrees(a, c) ==
    /\ a.orders[c].side = "Buy" /\ a.orders[c].type = "Limit"
    /\ \A x \in ExIDs : a.ordersID[x] = c => x = IdOf[c]
    /\ a.orders[c].id \in {NoID, IdOf[c]}
    /\ a.orders[c].status \in {"Canceled", "Expired"} => exch[c].at = "Done"

Linked(a) == AccountInv(a) /\ \A c \in ClIDs : Agrees(a, c)

World == (\A c \in ClIDs : OrderTrue(c)) /\ (\A k \in Kinds : CallTrue(k)) /\ Apart

IInv ==
    /\ StateTypes
    /\ World
    /\ EventsTrue
    /\ Linked(acct)

----------------------------------------------------------------------------
(***************************************************************************)
(* The account, called by handlers and continuations.                      *)
(***************************************************************************)

\* Every order has an id, and no two have the same.
LEMMA IdsApart ==
    /\ IdOf \in [ClIDs -> ExIDs]
    /\ \A c \in ClIDs : IdOf[c] \in ExIDs /\ IdOf[c] # NoID
    /\ \A c, d \in ClIDs : IdOf[c] = IdOf[d] => c = d
<1>1. IdOf \in [ClIDs -> ExIDs] /\ \A c, d \in ClIDs : IdOf[c] = IdOf[d] => c = d
    BY VenueOrderIDs DEF IdOf
<1> QED
    BY <1>1, AccountConstants

\* A method that moves an account keeps its agreement with the venue, if the
\* orders it cancels or expires are done there.
LEMMA LinkedMoves ==
    ASSUME NEW a, Linked(a), NEW b, AccountInv(b), NEW closing, Moves(a, b, closing),
           \A c \in closing : exch[c].at = "Done"
    PROVE  Linked(b)
<1>1. AccountInv(a) /\ a \in AccountType /\ b \in AccountType
    BY DEF Linked, AccountInv
<1>2. ASSUME NEW c \in ClIDs PROVE Agrees(b, c)
  <2>1. Agrees(a, c)
      BY DEF Linked
  <2>2. \A x \in ExIDs : b.ordersID[x] = c => a.ordersID[x] = c
      BY AccountConstants DEF Moves
  <2>3. \/ /\ b.orders[c].side = "Buy" /\ b.orders[c].type = "Limit"
           /\ b.orders[c].id = NoID /\ b.orders[c].status = "Blank"
        \/ /\ b.orders[c].side = a.orders[c].side
           /\ b.orders[c].type = a.orders[c].type
           /\ b.orders[c].id = a.orders[c].id
      BY DEF Moves, Blank
  <2>4. b.orders[c].status \in {"Canceled", "Expired"} =>
           c \in closing \/ a.orders[c].status \in {"Canceled", "Expired"}
      BY DEF Moves
  <2> QED
      BY <2>1, <2>2, <2>3, <2>4 DEF Agrees
<1> QED
    BY <1>2 DEF Linked

\* A method that cancels and expires nothing.
LEMMA LinkedMovesNothing ==
    ASSUME NEW a, Linked(a), NEW b, AccountInv(b), Moves(a, b, {})
    PROVE  Linked(b)
<1>1. \A c \in {} : exch[c].at = "Done"
    OBVIOUS
<1> QED
    BY <1>1, LinkedMoves

\* The id the venue gives an order is free in the account, or this order's.
LEMMA ItsOwnID ==
    ASSUME NEW a, Linked(a), NEW c \in ClIDs
    PROVE  /\ a.ordersID[IdOf[c]] \in {NoID, c}
           /\ \A d \in ClIDs \ {c} : a.orders[d].id # IdOf[c]
<1>1. a \in AccountType /\ IdOf[c] \in ExIDs /\ IdOf[c] # NoID
    BY IdsApart DEF Linked, AccountInv
<1>2. \A d \in ClIDs \ {c} : IdOf[d] # IdOf[c]
    BY IdsApart
<1>3. ASSUME NEW d \in ClIDs \ {c}
      PROVE  a.ordersID[IdOf[c]] # d /\ a.orders[d].id # IdOf[c]
  <2>1. Agrees(a, d) /\ IdOf[d] # IdOf[c]
      BY <1>2 DEF Linked
  <2> QED
      BY <1>1, <2>1 DEF Agrees
<1> QED
    BY <1>1, <1>3 DEF AccountType

\* A client id finds the order of that client id, or nothing; the venue's id
\* finds the order the venue gave it to, or nothing.
LEMMA FindsOwn ==
    ASSUME NEW a, Linked(a), NEW c \in ClIDs
    PROVE  /\ Known(a, c) <=> c \in a.ordersClID
           /\ Known(a, c) => Find(a, c) = c
           /\ Known(a, IdOf[c]) => Find(a, IdOf[c]) = c
<1>1. a \in AccountType /\ c \notin ExIDs /\ c # NoID /\ IdOf[c] \in ExIDs
    BY IdsApart, AccountConstants DEF Linked, AccountInv
<1>2. IdOf[c] \notin a.ordersClID
    BY <1>1, AccountConstants DEF AccountType
<1>3. a.ordersID[IdOf[c]] \in {NoID, c}
    BY ItsOwnID
<1> QED
    BY <1>1, <1>2, <1>3 DEF Known, Find

\* What holds of an order that ConfirmNewOrder confirms, or of the others.
LEMMA ConfirmsLinked ==
    ASSUME NEW a, Linked(a), NEW n \in AccountType, NEW c \in ClIDs,
           n.ordersID = a.ordersID, n.orders[c].side = "Buy", n.orders[c].type = "Limit",
           \A d \in ClIDs \ {c} : n.orders[d] = a.orders[d],
           NEW b, AccountInv(b), Confirms(n, b, c, IdOf[c], 0)
    PROVE  Linked(b)
<1>1. a \in AccountType /\ IdOf[c] \in ExIDs
    BY IdsApart DEF Linked, AccountInv
<1>2. ASSUME NEW d \in ClIDs PROVE Agrees(b, d)
  <2>1. Agrees(a, d)
      BY DEF Linked
  <2>2. CASE d = c
    <3>1. \A y \in ExIDs : b.ordersID[y] = c => y = IdOf[c] \/ a.ordersID[y] = c
        BY <1>1 DEF Confirms, AccountType
    <3>2. /\ b.orders[c].side = "Buy" /\ b.orders[c].type = "Limit"
          /\ b.orders[c].id = IdOf[c] /\ b.orders[c].status = "New"
        BY DEF Confirms
    <3> QED
        BY <2>1, <2>2, <3>1, <3>2 DEF Agrees
  <2>3. CASE d # c
    <3>1. /\ \A y \in ExIDs : b.ordersID[y] = d => a.ordersID[y] = d
          /\ b.orders[d] = a.orders[d]
        BY <1>1, <2>3 DEF Confirms, AccountType
    <3> QED
        BY <2>1, <3>1 DEF Agrees
  <2> QED
      BY <2>2, <2>3
<1> QED
    BY <1>2 DEF Linked

\* An order that is confirmed with the id the venue gave it.
LEMMA ConfirmNewLinked ==
    ASSUME NEW a, Linked(a), NEW c \in ClIDs, c \in a.ordersClID
    PROVE  Linked(ConfirmNewOrder(a, c, IdOf[c], 0))
<1> DEFINE b == ConfirmNewOrder(a, c, IdOf[c], 0)
<1>1. /\ a.ordersID[IdOf[c]] \in {NoID, c} /\ \A d \in ClIDs \ {c} : a.orders[d].id # IdOf[c]
      /\ 0 \in 0..MaxLots /\ AccountInv(a) /\ a \in AccountType /\ IdOf[c] \in ExIDs
    BY ItsOwnID, IdsApart, AccountConstants DEF Linked, AccountInv
<1>2. AccountInv(b)
    BY <1>1, ConfirmNewOrderInv DEF ConfirmNewOrderError
<1>3. CASE a.orders[c].status # "PendingNew"
    BY <1>3 DEF ConfirmNewOrder
<1>4. CASE a.orders[c].status = "PendingNew"
  <2>1. Confirms(a, b, c, IdOf[c], 0)
      BY <1>1, <1>4, ConfirmNewOrderShape
  <2>2. a.orders[c].side = "Buy" /\ a.orders[c].type = "Limit"
      BY DEF Linked, Agrees
  <2> HIDE DEF b
  <2>3. Linked(b)
      BY <1>1, <1>2, <2>1, <2>2, ConfirmsLinked
  <2> QED
      BY <2>3 DEF b
<1> QED
    BY <1>3, <1>4

\* An order of the venue that the client-id index does not know.
LEMMA EnterConfirmedLinked ==
    ASSUME NEW a, Linked(a), NEW c \in ClIDs, NEW qty \in Lots
    PROVE  Linked(ConfirmNewOrder(NewOrder(a, c, "Buy", "Limit", 1, qty), c, IdOf[c], 0))
<1> DEFINE n == NewOrder(a, c, "Buy", "Limit", 1, qty)
           b == ConfirmNewOrder(n, c, IdOf[c], 0)
<1>1. /\ a.ordersID[IdOf[c]] \in {NoID, c} /\ \A d \in ClIDs \ {c} : a.orders[d].id # IdOf[c]
      /\ 0 \in 0..MaxLots /\ AccountInv(a) /\ a \in AccountType /\ IdOf[c] \in ExIDs
    BY ItsOwnID, IdsApart, AccountConstants DEF Linked, AccountInv
<1>2. "Buy" \in Sides /\ "Limit" \in Types /\ 1 \in Prices
    BY AccountConstants DEF Prices
<1>3. a.orders[c].side = "Buy" /\ a.orders[c].type = "Limit"
    BY DEF Linked, Agrees
<1>4. AccountInv(b)
    BY <1>1, <1>2, <1>3, EnterConfirmedInv
<1>5. PICK r \in Order :
        /\ n \in AccountType /\ n.ordersClID = a.ordersClID \cup {c}
        /\ n.ordersID = a.ordersID /\ n.book = a.book
        /\ n.orders[c] = r /\ \A d \in ClIDs \ {c} : n.orders[d] = a.orders[d]
        /\ r.side = "Buy" /\ r.type = "Limit"
        /\ r.status = "PendingNew" /\ r.id = NoID
    BY <1>1, <1>2, NewOrderShape
<1> HIDE DEF n
<1>6. Confirms(n, b, c, IdOf[c], 0)
    BY <1>1, <1>5, ConfirmNewOrderShape
<1> HIDE DEF b
<1>7. Linked(b)
    BY <1>4, <1>5, <1>6, ConfirmsLinked
<1> QED
    BY <1>7 DEF b, n

\* A new order nobody knows of.
LEMMA NewOrderLinked ==
    ASSUME NEW a, Linked(a), NEW c \in ClIDs, ~Referenced(a, c), NEW qty \in Lots
    PROVE  Linked(NewOrder(a, c, "Buy", "Limit", 1, qty))
<1> DEFINE b == NewOrder(a, c, "Buy", "Limit", 1, qty)
<1>1. /\ AccountInv(a) /\ a \in AccountType /\ \A y \in ExIDs : y # NoID
      /\ "Buy" \in Sides /\ "Limit" \in Types /\ 1 \in Prices /\ 1 # NoPrice
    BY AccountConstants DEF Linked, AccountInv, Prices, NoPrice
<1>2. ~NewOrderRejected(a, c, "Limit", 1)
    BY <1>1 DEF NewOrderRejected, Referenced
<1>3. AccountInv(b)
    BY <1>1, <1>2, NewOrderInv
<1>4. PICK r \in Order :
        /\ b.ordersID = a.ordersID
        /\ b.orders[c] = r /\ \A d \in ClIDs \ {c} : b.orders[d] = a.orders[d]
        /\ r.side = "Buy" /\ r.type = "Limit"
        /\ r.status = "PendingNew" /\ r.id = NoID
    BY <1>1, NewOrderShape
<1> HIDE DEF b
<1>5. ASSUME NEW d \in ClIDs PROVE Agrees(b, d)
    BY <1>4 DEF Linked, Agrees
<1>6. Linked(b)
    BY <1>3, <1>5 DEF Linked
<1> QED
    BY <1>6 DEF b

\* What the venue lists is a snapshot, and agrees with it.
LEMMA SyncLinked ==
    ASSUME World, StateTypes
    PROVE  Linked(Sync([c \in ClIDs |-> Listed(c)]))
<1> DEFINE f == [c \in ClIDs |-> Listed(c)]
           b == Sync(f)
<1>1. Blank \in Order /\ Blank.status = "Blank" /\ Blank.id = NoID
      /\ Blank.side = "Buy" /\ Blank.type = "Limit"
    BY AccountConstants DEF Blank, Order, NoPrice
<1>2. ASSUME NEW c \in ClIDs
      PROVE  /\ f[c] \in Order /\ f[c].side = "Buy" /\ f[c].type = "Limit"
             /\ \/ f[c] = Blank
                \/ /\ f[c].status \in OpenStatus /\ f[c].status # "Blank"
                   /\ f[c].id = IdOf[c] /\ f[c].price = 1 /\ f[c].leaves > 0
  <2>1. f[c] = Listed(c) /\ exch[c] \in VenueOrder /\ OrderTrue(c) /\ IdOf[c] \in ExIDs
      BY IdsApart DEF StateTypes, World
  <2>2. CASE ~(rules.lists /\ Live(c))
      BY <1>1, <2>1, <2>2 DEF Listed
  <2>3. CASE rules.lists /\ Live(c)
    <3> DEFINE s == IF exch[c].cum = 0 THEN "New" ELSE "PartiallyFilled"
               o == [Blank EXCEPT !.price = 1, !.id = exch[c].id, !.leaves = exch[c].leaves,
                                  !.cum = exch[c].cum, !.status = s]
    <3>1. Listed(c) = o
        BY <2>3 DEF Listed
    <3>2. s \in OpenStatus /\ s \in OrderStatus /\ s # "Blank"
        BY DEF OpenStatus, OrderStatus
    <3>3. /\ 1 \in Prices /\ exch[c].leaves \in Nat /\ exch[c].leaves > 0 /\ exch[c].cum \in Nat
          /\ exch[c].id = IdOf[c]
        BY <2>1, <2>3, AccountConstants DEF Prices, VenueOrder, OrderTrue, Live, Lots
    <3>4. /\ o \in Order /\ o.status = s /\ o.side = "Buy" /\ o.type = "Limit"
          /\ o.id = exch[c].id /\ o.leaves = exch[c].leaves /\ o.price = 1
      <4> HIDE DEF s
      <4> QED
          BY <1>1, <2>1, <3>2, <3>3 DEF Blank, Order
    <3> QED
        BY <2>1, <3>1, <3>2, <3>3, <3>4
  <2> QED
      BY <2>2, <2>3
<1>3. f \in [ClIDs -> Order]
    BY <1>2
<1> HIDE DEF f
<1>4. Snapshot(f)
  <2>1. ASSUME NEW c \in ClIDs, NEW d \in ClIDs, c # d, f[c].id = f[d].id
        PROVE  f[c].id = NoID
      BY <1>1, <1>2, <2>1, IdsApart
  <2>2. ASSUME NEW c \in ClIDs, f[c].status # "Blank"
        PROVE  /\ f[c].status \in OpenStatus /\ f[c].leaves > 0 /\ f[c].id # NoID
               /\ f[c].type = "Limit" => f[c].price # NoPrice
      BY <1>1, <1>2, <2>2, IdsApart DEF NoPrice
  <2> QED
      BY <1>3, <2>1, <2>2 DEF Snapshot
<1>5. AccountInv(b)
    BY <1>4, SyncInv
<1>6. ASSUME NEW c \in ClIDs PROVE Agrees(b, c)
  <2>1. /\ c \in b.ordersClID <=> f[c].status # "Blank"
        /\ \A x \in ExIDs : b.ordersID[x] = c => f[c].status # "Blank" /\ f[c].id = x
        /\ f[c].status = "Blank" => b.orders[c] = Blank
        /\ f[c].status # "Blank" =>
              /\ b.orders[c].status \in OpenStatus
              /\ b.orders[c].side = f[c].side /\ b.orders[c].type = f[c].type
              /\ b.orders[c].id = f[c].id
      BY <1>4, SyncShape
  <2> HIDE DEF b
  <2> QED
      BY <1>1, <1>2, <2>1 DEF Agrees, OpenStatus
<1> QED
    BY <1>5, <1>6 DEF Linked, b, f

----------------------------------------------------------------------------
(***************************************************************************)
(* A method that is called for each order of a set: no call disturbs the   *)
(* orders of the others, so each finds what it needs.                      *)
(***************************************************************************)

\* What account b says of order c is what a says.
SameOrder(a, b, c) ==
    /\ b.orders[c] = a.orders[c]
    /\ c \in b.ordersClID <=> c \in a.ordersClID
    /\ \A x \in ExIDs : b.ordersID[x] = c <=> a.ordersID[x] = c

Only(a, b, c) == \A d \in ClIDs \ {c} : SameOrder(a, b, d)

\* The methods that are called for a set of orders, "with" one argument.
Method(m, a, c) ==
    CASE m.op = "new" -> NewOrder(a, c, "Buy", "Limit", 1, m.with)
      [] m.op = "replace" -> ReplaceOrder(a, c, NoPrice, m.with)
      [] m.op = "cancel" -> CancelOrder(a, c)
      [] m.op = "drop" -> RejectNewOrder(a, c)
      [] m.op = "accepted" -> Accepted(a, c, m.with)
      [] m.op = "confirm" -> Confirm(a, c)
      [] m.op = "canceled" -> ConfirmCancelOrder(a, c)
      [] m.op = "uncanceled" -> RejectCancelOrder(a, c, m.with)
      [] m.op = "uncanceled, filled" -> PendingFilled(RejectCancelOrder(a, c, TRUE), c)
      [] m.op = "unreplaced" -> RejectReplaceOrder(a, c)
      [] m.op = "unreplaced, filled" -> PendingFilled(RejectReplaceOrder(a, c), c)
      [] m.op = "age" -> Age(a, c)

\* What a method needs of the order.
Fits(m, a, c) ==
    \/ m.op = "new" /\ m.with \in Lots /\ ~Referenced(a, c)
    \/ m.op = "replace" /\ m.with \in Lots /\ c \in a.ordersClID
                        /\ a.orders[c].status \in OpenStatus
    \/ m.op = "cancel" /\ c \in a.ordersClID /\ a.orders[c].status \in CancelableStatus
    \/ m.op = "accepted" /\ (m.with = "expired" => exch[c].at = "Done")
    \/ m.op = "canceled" /\ c \in a.ordersClID /\ exch[c].at = "Done"
    \/ m.op = "uncanceled" /\ c \in a.ordersClID /\ m.with \in BOOLEAN
    \/ m.op = "age" /\ Referenced(a, c)
    \/ /\ m.op \in {"drop", "confirm", "uncanceled, filled", "unreplaced", "unreplaced, filled"}
       /\ c \in a.ordersClID

\* An assignment through an order, and an operation on its entry.
LEMMA OnlyPut ==
    ASSUME NEW a \in AccountType, NEW c \in ClIDs, NEW o
    PROVE  Only(a, a, c) /\ Only(a, Put(a, c, o), c)
BY DEF Only, SameOrder, Put, AccountType

\* An operation of the book.
LEMMA OnlyShown ==
    ASSUME NEW a \in AccountType, NEW c \in ClIDs, NEW o \in Order, NEW b,
           Touches(Put(a, c, o), b, c)
    PROVE  Only(a, b, c)
BY PutShape DEF Only, SameOrder, Touches

\* One method after the other.
LEMMA OnlyBoth ==
    ASSUME NEW a, NEW b, NEW e, NEW c \in ClIDs, Only(a, b, c), Only(b, e, c)
    PROVE  Only(a, e, c)
BY DEF Only, SameOrder

\* The methods, one by one.
LEMMA NewOrderOnly ==
    ASSUME NEW a \in AccountType, NEW c \in ClIDs, NEW qty \in Lots
    PROVE  Only(a, NewOrder(a, c, "Buy", "Limit", 1, qty), c)
<1>1. "Buy" \in Sides /\ "Limit" \in Types /\ 1 \in Prices
    BY AccountConstants DEF Prices
<1> QED
    BY <1>1, NewOrderShape DEF Only, SameOrder

\* A confirmation enters the id, which was free or this order's.
LEMMA ConfirmNewOrderOnly ==
    ASSUME NEW a, Linked(a), NEW c \in ClIDs
    PROVE  Only(a, ConfirmNewOrder(a, c, IdOf[c], 0), c)
<1> DEFINE b == ConfirmNewOrder(a, c, IdOf[c], 0)
<1>1. /\ a \in AccountType /\ IdOf[c] \in ExIDs /\ 0 \in 0..MaxLots
      /\ a.ordersID[IdOf[c]] \in {NoID, c} /\ NoID \notin ClIDs
    BY ItsOwnID, IdsApart, AccountConstants DEF Linked, AccountInv
<1>2. CASE a.orders[c].status # "PendingNew"
    BY <1>1, <1>2, OnlyPut DEF ConfirmNewOrder
<1>3. CASE a.orders[c].status = "PendingNew"
  <2>1. Confirms(a, b, c, IdOf[c], 0)
      BY <1>1, <1>3, ConfirmNewOrderShape
  <2> HIDE DEF b
  <2>2. /\ b.ordersClID = a.ordersClID /\ \A d \in ClIDs \ {c} : b.orders[d] = a.orders[d]
        /\ \A x \in ExIDs : b.ordersID[x] = IF x = IdOf[c] THEN c ELSE a.ordersID[x]
      BY <1>1, <2>1 DEF Confirms, AccountType
  <2>3. ASSUME NEW d \in ClIDs \ {c} PROVE SameOrder(a, b, d)
    <3>1. \A x \in ExIDs : b.ordersID[x] = d <=> a.ordersID[x] = d
        BY <1>1, <2>2
    <3> QED
        BY <2>2, <3>1 DEF SameOrder
  <2>4. Only(a, b, c)
      BY <2>3 DEF Only
  <2> QED
      BY <2>4 DEF b
<1> QED
    BY <1>2, <1>3

\* The order is removed from one index; the others keep their referents.
LEMMA RejectNewOrderOnly ==
    ASSUME NEW a, AccountInv(a), NEW c \in ClIDs, c \in a.ordersClID
    PROVE  Only(a, RejectNewOrder(a, c), c)
<1> DEFINE o == [a.orders[c] EXCEPT !.status = "Rejected"]
           n == [Put(a, c, o) EXCEPT !.ordersClID = @ \ {c}]
<1>1. a \in AccountType /\ o \in Order
  <2>1. a \in AccountType
      BY DEF AccountInv
  <2>2. a.orders[c] \in Order
      BY <2>1 DEF AccountType
  <2>3. "Rejected" \in OrderStatus
      BY DEF OrderStatus
  <2> QED
      BY <2>1, <2>2, <2>3 DEF Order
<1> HIDE DEF o
<1>2. /\ n \in AccountType /\ n.ordersClID = a.ordersClID \ {c} /\ n.ordersID = a.ordersID
      /\ \A d \in ClIDs \ {c} : n.orders[d] = a.orders[d]
    BY <1>1 DEF Put, AccountType
<1>3. RejectNewOrder(a, c) = Collect(n)
    BY DEF RejectNewOrder, o
<1> HIDE DEF n
<1>4. /\ Collect(n).ordersClID = n.ordersClID /\ Collect(n).ordersID = n.ordersID
      /\ \A d \in ClIDs : Collect(n).orders[d] = IF Referenced(n, d) THEN n.orders[d] ELSE Blank
    BY <1>2, CollectShape
<1>5. ASSUME NEW d \in ClIDs \ {c}
      PROVE  Collect(n).orders[d] = a.orders[d]
  <2>1. Referenced(n, d) <=> Referenced(a, d)
      BY <1>2 DEF Referenced
  <2>2. ~Referenced(a, d) => a.orders[d] = Blank
      BY DEF AccountInv, OrderInv, HeapSound
  <2> QED
      BY <1>2, <1>4, <2>1, <2>2
<1> QED
    BY <1>2, <1>3, <1>4, <1>5 DEF Only, SameOrder

\* Adding, removing and showing are operations of the book.
LEMMA OnlyRemoved ==
    ASSUME NEW a \in AccountType, NEW c \in ClIDs, NEW o \in Order
    PROVE  Only(a, BookRemove(Put(a, c, o), c), c)
<1>1. Put(a, c, o) \in AccountType
    BY PutShape
<1>2. Touches(Put(a, c, o), BookRemove(Put(a, c, o), c), c)
    BY <1>1, BookShapes
<1> QED
    BY <1>2, OnlyShown

\* A request for an order, and its refusal.
LEMMA RequestLinked ==
    ASSUME NEW a, Linked(a), NEW c \in ClIDs, c \in a.ordersClID, NEW qty \in Lots
    PROVE  /\ a.orders[c].status \in OpenStatus =>
                 /\ Linked(ReplaceOrder(a, c, NoPrice, qty))
                 /\ Only(a, ReplaceOrder(a, c, NoPrice, qty), c)
           /\ a.orders[c].status \in CancelableStatus =>
                 Linked(CancelOrder(a, c)) /\ Only(a, CancelOrder(a, c), c)
<1>1. /\ AccountInv(a) /\ a \in AccountType /\ Known(a, c) /\ Find(a, c) = c
      /\ NoPrice \in Prices \cup {NoPrice} /\ qty \in 0..MaxLots
    BY FindsOwn, AccountConstants DEF Linked, AccountInv, Lots
<1>2. ASSUME a.orders[c].status \in OpenStatus
      PROVE  /\ Linked(ReplaceOrder(a, c, NoPrice, qty))
             /\ Only(a, ReplaceOrder(a, c, NoPrice, qty), c)
  <2>1. ~ReplaceOrderRejected(a, c)
      BY <1>1, <1>2 DEF ReplaceOrderRejected
  <2>2. /\ AccountInv(ReplaceOrder(a, c, NoPrice, qty))
        /\ Moves(a, ReplaceOrder(a, c, NoPrice, qty), {})
      BY <1>1, <2>1, ReplaceOrderInv, ReplaceOrderMoves
  <2>3. Only(a, ReplaceOrder(a, c, NoPrice, qty), c)
      BY <1>1, OnlyPut DEF ReplaceOrder
  <2> QED
      BY <2>2, <2>3, LinkedMovesNothing
<1>3. ASSUME a.orders[c].status \in CancelableStatus
      PROVE  Linked(CancelOrder(a, c)) /\ Only(a, CancelOrder(a, c), c)
  <2>1. ~CancelOrderRejected(a, c)
      BY <1>1, <1>3 DEF CancelOrderRejected
  <2>2. AccountInv(CancelOrder(a, c)) /\ Moves(a, CancelOrder(a, c), {})
      BY <1>1, <2>1, CancelOrderInv, CancelOrderMoves
  <2>3. Only(a, CancelOrder(a, c), c)
      BY <1>1, OnlyPut DEF CancelOrder
  <2> QED
      BY <2>2, <2>3, LinkedMovesNothing
<1> QED
    BY <1>2, <1>3

\* A refused cancel brings the saved status back.
LEMMA RejectCancelLinked ==
    ASSUME NEW a, Linked(a), NEW c \in ClIDs, c \in a.ordersClID, NEW u \in BOOLEAN
    PROVE  LET b == RejectCancelOrder(a, c, u) IN
           Linked(b) /\ Only(a, b, c) /\ c \in b.ordersClID
<1> DEFINE b == RejectCancelOrder(a, c, u)
<1>1. AccountInv(a) /\ a \in AccountType /\ Known(a, c) /\ Find(a, c) = c
    BY FindsOwn DEF Linked, AccountInv
<1>2. AccountInv(b) /\ Moves(a, b, {})
    BY <1>1, RejectCancelOrderInv, RejectCancelOrderMoves
<1>3. Only(a, b, c)
    BY <1>1, OnlyPut DEF RejectCancelOrder
<1>4. b.ordersClID = a.ordersClID
    BY <1>1 DEF RejectCancelOrder, Put, AccountType
<1> HIDE DEF b
<1>5. Linked(b)
    BY <1>2, LinkedMovesNothing
<1> QED
    BY <1>3, <1>4, <1>5 DEF b

\* A refused replacement, as well.
LEMMA RejectReplaceLinked ==
    ASSUME NEW a, Linked(a), NEW c \in ClIDs, c \in a.ordersClID
    PROVE  LET b == RejectReplaceOrder(a, c) IN
           Linked(b) /\ Only(a, b, c) /\ c \in b.ordersClID
<1> DEFINE b == RejectReplaceOrder(a, c)
<1>1. AccountInv(a) /\ a \in AccountType /\ Known(a, c) /\ Find(a, c) = c
    BY FindsOwn DEF Linked, AccountInv
<1>2. AccountInv(b) /\ Moves(a, b, {})
    BY <1>1, RejectReplaceOrderInv, RejectReplaceOrderMoves
<1>3. Only(a, b, c)
    BY <1>1, OnlyPut DEF RejectReplaceOrder
<1>4. b.ordersClID = a.ordersClID
    BY <1>1 DEF RejectReplaceOrder, Put, AccountType
<1> HIDE DEF b
<1>5. Linked(b)
    BY <1>2, LinkedMovesNothing
<1> QED
    BY <1>3, <1>4, <1>5 DEF b

\* An order that is said to be executed waits for its fills.
LEMMA PendingFilledLinked ==
    ASSUME NEW a, Linked(a), NEW c \in ClIDs, NEW k, Known(a, k), Find(a, k) = c
    PROVE  Linked(PendingFilled(a, k)) /\ Only(a, PendingFilled(a, k), c)
<1>1. AccountInv(a) /\ a \in AccountType
    BY DEF Linked, AccountInv
<1>2. AccountInv(PendingFilled(a, k)) /\ Moves(a, PendingFilled(a, k), {})
    BY <1>1, PendingFilledInv, PendingFilledMoves
<1>3. Only(a, PendingFilled(a, k), c)
    BY <1>1, OnlyPut DEF PendingFilled
<1> QED
    BY <1>2, <1>3, LinkedMovesNothing

\* A closed order is one that is done at the venue.
LEMMA ClosedLinked ==
    ASSUME NEW a, Linked(a), NEW c \in ClIDs, NEW k, Known(a, k), Find(a, k) = c,
           exch[c].at = "Done"
    PROVE  /\ Linked(ConfirmCancelOrder(a, k)) /\ Only(a, ConfirmCancelOrder(a, k), c)
           /\ Linked(ConfirmExpiredOrder(a, k)) /\ Only(a, ConfirmExpiredOrder(a, k), c)
<1>1. AccountInv(a) /\ a \in AccountType /\ \A d \in {c} : exch[d].at = "Done"
    BY DEF Linked, AccountInv
<1>2. a.orders[c] \in Order
    BY <1>1 DEF AccountType
<1>3. Stamp(a.orders[c], "Canceled") \in Order
    BY <1>2, StampShape DEF OrderStatus, ClosedStatus
<1>4. [Stamp(a.orders[c], "Expired") EXCEPT !.leaves = 0] \in Order
  <2>1. Stamp(a.orders[c], "Expired") \in Order
      BY <1>2, StampShape DEF OrderStatus, ClosedStatus
  <2> QED
      BY <2>1 DEF Order
<1>5. /\ AccountInv(ConfirmCancelOrder(a, k)) /\ Moves(a, ConfirmCancelOrder(a, k), {c})
      /\ AccountInv(ConfirmExpiredOrder(a, k)) /\ Moves(a, ConfirmExpiredOrder(a, k), {c})
    BY <1>1, ConfirmCancelOrderInv, ConfirmCancelOrderMoves, ConfirmExpiredOrderInv,
       ConfirmExpiredOrderMoves
<1>6. Linked(ConfirmCancelOrder(a, k)) /\ Linked(ConfirmExpiredOrder(a, k))
    BY <1>1, <1>5, LinkedMoves
<1>7. Only(a, ConfirmCancelOrder(a, k), c)
    BY <1>1, <1>3, OnlyPut, OnlyRemoved DEF ConfirmCancelOrder
<1>8. Only(a, ConfirmExpiredOrder(a, k), c)
    BY <1>1, <1>4, OnlyPut, OnlyRemoved DEF ConfirmExpiredOrder
<1> QED
    BY <1>6, <1>7, <1>8

\* What the answer to a new order makes of it.
LEMMA AcceptedLinked ==
    ASSUME NEW a, Linked(a), NEW c \in ClIDs, NEW ans,
           ans = "expired" => exch[c].at = "Done"
    PROVE  Linked(Accepted(a, c, ans)) /\ Only(a, Accepted(a, c, ans), c)
<1> DEFINE b == IF ConfirmNewOrderError(a, c) THEN a ELSE Confirm(a, c)
<1>1. a \in AccountType
    BY DEF Linked, AccountInv
<1>2. Linked(b) /\ Only(a, b, c)
  <2>1. CASE ConfirmNewOrderError(a, c)
      BY <1>1, <2>1, OnlyPut
  <2>2. CASE ~ConfirmNewOrderError(a, c)
      BY <2>2, ConfirmNewLinked, ConfirmNewOrderOnly DEF Confirm, ConfirmNewOrderError
  <2> QED
      BY <2>1, <2>2
<1>3. Accepted(a, c, ans) =
        CASE ans = "expired" /\ Known(b, IdOf[c]) -> ConfirmExpiredOrder(b, IdOf[c])
          [] ans = "filled" /\ Known(b, IdOf[c])  -> PendingFilled(b, IdOf[c])
          [] OTHER -> b
    BY DEF Accepted
<1> HIDE DEF b
<1>4. Known(b, IdOf[c]) => Find(b, IdOf[c]) = c
    BY <1>2, FindsOwn
<1>5. CASE ans = "expired" /\ Known(b, IdOf[c])
  <2>1. Linked(ConfirmExpiredOrder(b, IdOf[c])) /\ Only(b, ConfirmExpiredOrder(b, IdOf[c]), c)
      BY <1>2, <1>4, <1>5, ClosedLinked
  <2> QED
      BY <1>2, <1>3, <1>5, <2>1, OnlyBoth
<1>6. CASE ans = "filled" /\ Known(b, IdOf[c])
  <2>1. Linked(PendingFilled(b, IdOf[c])) /\ Only(b, PendingFilled(b, IdOf[c]), c)
      BY <1>2, <1>4, <1>6, PendingFilledLinked
  <2> QED
      BY <1>2, <1>3, <1>6, <2>1, OnlyBoth
<1>7. CASE /\ ~(ans = "expired" /\ Known(b, IdOf[c]))
           /\ ~(ans = "filled" /\ Known(b, IdOf[c]))
    BY <1>2, <1>3, <1>7
<1> QED
    BY <1>5, <1>6, <1>7

\* An order the venue refused.
LEMMA DropLinked ==
    ASSUME NEW a, Linked(a), NEW c \in ClIDs, c \in a.ordersClID
    PROVE  Linked(RejectNewOrder(a, c)) /\ Only(a, RejectNewOrder(a, c), c)
<1>1. AccountInv(a) /\ ~RejectNewOrderError(a, c)
    BY DEF Linked, RejectNewOrderError
<1>2. AccountInv(RejectNewOrder(a, c)) /\ Moves(a, RejectNewOrder(a, c), {})
    BY <1>1, RejectNewOrderInv, RejectNewOrderMoves
<1> QED
    BY <1>1, <1>2, LinkedMovesNothing, RejectNewOrderOnly

\* The time that passes.
LEMMA AgeLinked ==
    ASSUME NEW a, Linked(a), NEW c \in ClIDs, Referenced(a, c)
    PROVE  Linked(Age(a, c)) /\ Only(a, Age(a, c), c)
<1>1. AccountInv(a) /\ a \in AccountType
    BY DEF Linked, AccountInv
<1>2. AccountInv(Age(a, c)) /\ Moves(a, Age(a, c), {})
    BY <1>1, AgeInv, AgeMoves
<1>3. Only(a, Age(a, c), c)
    BY <1>1 DEF Age, Only, SameOrder, AccountType
<1> QED
    BY <1>2, <1>3, LinkedMovesNothing

\* A method that finds what it needs keeps the agreement, and the other orders.
LEMMA MethodLinked ==
    ASSUME NEW m, NEW a, Linked(a), NEW c \in ClIDs, Fits(m, a, c)
    PROVE  Linked(Method(m, a, c)) /\ Only(a, Method(m, a, c), c)
<1>1. a \in AccountType /\ (c \in a.ordersClID => Known(a, c) /\ Find(a, c) = c)
    BY FindsOwn DEF Linked, AccountInv
<1>2. CASE m.op = "new"
  <2>1. m.with \in Lots /\ ~Referenced(a, c)
      BY <1>2 DEF Fits
  <2> QED
      BY <1>1, <1>2, <2>1, NewOrderLinked, NewOrderOnly DEF Method
<1>3. CASE m.op = "replace"
  <2>1. m.with \in Lots /\ c \in a.ordersClID /\ a.orders[c].status \in OpenStatus
      BY <1>3 DEF Fits
  <2> QED
      BY <1>3, <2>1, RequestLinked DEF Method
<1>4. CASE m.op = "cancel"
  <2>1. c \in a.ordersClID /\ a.orders[c].status \in CancelableStatus
      BY <1>4 DEF Fits
  <2>2. 1 \in Lots
      BY AccountConstants DEF Lots
  <2> QED
      BY <1>4, <2>1, <2>2, RequestLinked DEF Method
<1>5. CASE m.op = "accepted"
  <2>1. m.with = "expired" => exch[c].at = "Done"
      BY <1>5 DEF Fits
  <2> QED
      BY <1>5, <2>1, AcceptedLinked DEF Method
<1>6. CASE m.op = "canceled"
  <2>1. c \in a.ordersClID /\ exch[c].at = "Done"
      BY <1>6 DEF Fits
  <2> QED
      BY <1>1, <1>6, <2>1, ClosedLinked DEF Method
<1>7. CASE m.op = "uncanceled"
  <2>1. c \in a.ordersClID /\ m.with \in BOOLEAN
      BY <1>7 DEF Fits
  <2> QED
      BY <1>7, <2>1, RejectCancelLinked DEF Method
<1>8. CASE m.op = "age"
  <2>1. Referenced(a, c)
      BY <1>8 DEF Fits
  <2> QED
      BY <1>8, <2>1, AgeLinked DEF Method
<1>9. CASE m.op = "drop"
  <2>1. c \in a.ordersClID
      BY <1>9 DEF Fits
  <2> QED
      BY <1>9, <2>1, DropLinked DEF Method
<1>10. CASE m.op = "confirm"
  <2>1. c \in a.ordersClID
      BY <1>10 DEF Fits
  <2> QED
      BY <1>10, <2>1, ConfirmNewLinked, ConfirmNewOrderOnly DEF Method, Confirm
<1>11. CASE m.op = "unreplaced"
  <2>1. c \in a.ordersClID
      BY <1>11 DEF Fits
  <2> QED
      BY <1>11, <2>1, RejectReplaceLinked DEF Method
<1>12. CASE m.op = "uncanceled, filled"
  <2>1. c \in a.ordersClID
      BY <1>12 DEF Fits
  <2>2. PICK b : b = RejectCancelOrder(a, c, TRUE)
      OBVIOUS
  <2>3. Linked(b) /\ Only(a, b, c) /\ c \in b.ordersClID
      BY <2>1, <2>2, RejectCancelLinked
  <2>4. Linked(PendingFilled(b, c)) /\ Only(b, PendingFilled(b, c), c)
      BY <2>3, FindsOwn, PendingFilledLinked
  <2> QED
      BY <1>12, <2>2, <2>3, <2>4, OnlyBoth DEF Method
<1>13. CASE m.op = "unreplaced, filled"
  <2>1. c \in a.ordersClID
      BY <1>13 DEF Fits
  <2>2. PICK b : b = RejectReplaceOrder(a, c)
      OBVIOUS
  <2>3. Linked(b) /\ Only(a, b, c) /\ c \in b.ordersClID
      BY <2>1, <2>2, RejectReplaceLinked
  <2>4. Linked(PendingFilled(b, c)) /\ Only(b, PendingFilled(b, c), c)
      BY <2>3, FindsOwn, PendingFilledLinked
  <2> QED
      BY <1>13, <2>2, <2>3, <2>4, OnlyBoth DEF Method
<1> QED
    BY <1>2, <1>3, <1>4, <1>5, <1>6, <1>7, <1>8, <1>9, <1>10, <1>11, <1>12, <1>13 DEF Fits

\* What a method needs is still there when other orders have changed.
LEMMA StillFits ==
    ASSUME NEW m, NEW a, NEW b, NEW c \in ClIDs, Fits(m, a, c), SameOrder(a, b, c)
    PROVE  Fits(m, b, c)
<1>1. Referenced(b, c) <=> Referenced(a, c)
    BY DEF SameOrder, Referenced
<1> QED
    BY <1>1 DEF Fits, SameOrder

AllOf(m, a, cs) == FoldSet(LAMBDA c, b : Method(m, b, c), a, cs)

\* A method that is called for the orders of a set.  S has the accounts that the
\* calls for the orders of a part lead to, given that no order but their own has
\* changed since.
LEMMA FoldStages ==
    ASSUME NEW base, Linked(base), NEW cs \in SUBSET ClIDs, NEW m,
           \A c \in cs : Fits(m, base, c), NEW S, base \in S[{}],
           \A t \in SUBSET cs : \A c \in cs \ t, a \in S[t] :
              Linked(a) /\ SameOrder(base, a, c) => Method(m, a, c) \in S[t \cup {c}]
    PROVE  Linked(AllOf(m, base, cs)) /\ AllOf(m, base, cs) \in S[cs]
<1> DEFINE R == [s \in SUBSET cs |->
                   {a \in AccountType : /\ Linked(a) /\ a \in S[s]
                                        /\ \A d \in cs \ s : SameOrder(base, a, d)}]
           F == [c \in cs |-> [a \in AccountType |-> Method(m, a, c)]]
           G(f) == [s \in SUBSET cs |->
                      IF s = {} THEN base
                      ELSE Method(m, f[s \ {CHOOSE x \in s : TRUE}], CHOOSE x \in s : TRUE)]
<1>1. IsFiniteSet(cs)
    BY VenueOrderBounds, FS_Subset
<1>2. base \in R[{}]
  <2>1. base \in AccountType /\ \A d \in cs : SameOrder(base, base, d)
      BY DEF Linked, AccountInv, SameOrder
  <2> QED
      BY <2>1
<1>3. ASSUME NEW s \in SUBSET cs, NEW c \in cs \ s, NEW a \in R[s]
      PROVE  Method(m, a, c) \in R[s \cup {c}]
  <2>1. a \in AccountType /\ Linked(a) /\ a \in S[s] /\ \A d \in cs \ s : SameOrder(base, a, d)
      BY <1>3
  <2>2. Fits(m, a, c)
      BY <1>3, <2>1, StillFits
  <2>3. PICK b : b = Method(m, a, c)
      OBVIOUS
  <2>4. Linked(b) /\ Only(a, b, c) /\ b \in S[s \cup {c}]
      BY <1>3, <2>1, <2>2, <2>3, MethodLinked
  <2>5. b \in AccountType
      BY <2>4 DEF Linked, AccountInv
  <2>6. \A d \in cs \ (s \cup {c}) : SameOrder(base, b, d)
      BY <2>1, <2>4 DEF Only, SameOrder
  <2> QED
      BY <2>3, <2>4, <2>5, <2>6
<1>4. \A s \in SUBSET cs : R[s] \subseteq AccountType
    OBVIOUS
<1>5. ASSUME NEW s \in SUBSET cs, NEW c \in cs \ s, NEW a \in R[s]
      PROVE  F[c][a] = Method(m, a, c)
    BY <1>4, <1>5
<1> HIDE DEF R, F
<1>6. ASSUME NEW s \in SUBSET cs, NEW c \in cs \ s, NEW a \in R[s]
      PROVE  F[c][a] \in R[s \cup {c}]
  <2>1. F[c][a] = Method(m, a, c) /\ Method(m, a, c) \in R[s \cup {c}]
      BY <1>3, <1>5
  <2> QED
      BY <2>1
<1>7. PICK f : IsFold(f, cs, base, F) /\ \A s \in SUBSET cs : f[s] \in R[s]
    BY <1>1, <1>2, <1>6, FoldReaches
<1>8. f = G(f)
  <2>1. ASSUME NEW s \in SUBSET cs, s # {}
        PROVE  F[CHOOSE x \in s : TRUE][f[s \ {CHOOSE x \in s : TRUE}]]
                 = Method(m, f[s \ {CHOOSE x \in s : TRUE}], CHOOSE x \in s : TRUE)
    <3>1. PICK c : c = CHOOSE x \in s : TRUE
        OBVIOUS
    <3>2. c \in s
        BY <2>1, <3>1
    <3>3. PICK t \in SUBSET cs : t = s \ {c}
        OBVIOUS
    <3>4. c \in cs \ t /\ f[t] \in R[t]
        BY <1>7, <3>2, <3>3
    <3>5. F[c][f[t]] = Method(m, f[t], c)
        BY <1>5, <3>4
    <3> QED
        BY <3>1, <3>3, <3>5
  <2>2. ASSUME NEW s \in SUBSET cs PROVE f[s] = G(f)[s]
    <3>1. CASE s = {}
        BY <1>7, <3>1 DEF IsFold
    <3>2. CASE s # {}
      <4>1. f[s] = F[CHOOSE x \in s : TRUE][f[s \ {CHOOSE x \in s : TRUE}]]
          BY <1>7, <3>2 DEF IsFold
      <4> QED
          BY <2>1, <3>2, <4>1
    <3> QED
        BY <3>1, <3>2
  <2>3. f = [s \in SUBSET cs |-> f[s]]
      BY <1>7 DEF IsFold
  <2>4. G(f) = [s \in SUBSET cs |-> G(f)[s]]
      OBVIOUS
  <2> HIDE DEF G
  <2> QED
      BY <2>2, <2>3, <2>4
<1>9. PICK g : g = CHOOSE h : h = G(h)
    OBVIOUS
<1>10. g = G(g)
  <2> HIDE DEF G
  <2> QED
      BY <1>8, <1>9
<1>11. g[{}] \in R[{}]
    BY <1>2, <1>10
<1>12. ASSUME NEW s \in SUBSET cs, s # {},
             g[s \ {CHOOSE x \in s : TRUE}] \in R[s \ {CHOOSE x \in s : TRUE}]
       PROVE  g[s] \in R[s]
  <2>1. PICK c : c = CHOOSE x \in s : TRUE
      OBVIOUS
  <2>2. c \in s
      BY <1>12, <2>1
  <2>3. PICK t \in SUBSET cs : t = s \ {c}
      OBVIOUS
  <2>4. c \in cs \ t /\ t \cup {c} = s /\ g[t] \in R[t]
      BY <1>12, <2>1, <2>2, <2>3
  <2>5. g[s] = Method(m, g[t], c)
      BY <1>10, <1>12, <2>1, <2>3
  <2> QED
      BY <1>3, <2>4, <2>5
<1>13. g[cs] \in R[cs]
    BY <1>1, <1>11, <1>12, FoldStays
<1>14. Linked(g[cs]) /\ g[cs] \in S[cs]
    BY <1>13 DEF R
<1>15. AllOf(m, base, cs) = g[cs]
    BY <1>9 DEF AllOf, FoldSet, MapThenFoldSet
<1> QED
    BY <1>14, <1>15

\* What each call keeps is kept.
LEMMA FoldKeeps ==
    ASSUME NEW base, Linked(base), NEW cs \in SUBSET ClIDs, NEW m,
           \A c \in cs : Fits(m, base, c), NEW S, base \in S,
           \A a \in S, c \in cs : Linked(a) /\ SameOrder(base, a, c) => Method(m, a, c) \in S
    PROVE  Linked(AllOf(m, base, cs)) /\ AllOf(m, base, cs) \in S
<1>1. PICK R : R = [t \in SUBSET cs |-> S]
    OBVIOUS
<1>2. /\ \A t \in SUBSET cs : R[t] = S
      /\ {} \in SUBSET cs /\ cs \in SUBSET cs
    BY <1>1
<1>3. \A t \in SUBSET cs : \A c \in cs \ t, a \in R[t] :
          Linked(a) /\ SameOrder(base, a, c) => Method(m, a, c) \in R[t \cup {c}]
  <2>1. \A t \in SUBSET cs : \A c \in cs : t \cup {c} \in SUBSET cs
      OBVIOUS
  <2> QED
      BY <1>2, <2>1
<1>4. Linked(AllOf(m, base, cs)) /\ AllOf(m, base, cs) \in R[cs]
    BY <1>2, <1>3, FoldStages
<1> QED
    BY <1>2, <1>4

\* The agreement with the venue is kept.
LEMMA FoldLinked ==
    ASSUME NEW base, Linked(base), NEW cs \in SUBSET ClIDs, NEW m,
           \A c \in cs : Fits(m, base, c)
    PROVE  Linked(AllOf(m, base, cs))
<1>1. ASSUME NEW a \in AccountType, NEW c \in cs, Linked(a), SameOrder(base, a, c)
      PROVE  Method(m, a, c) \in AccountType
    BY <1>1, StillFits, MethodLinked DEF Linked, AccountInv
<1>2. base \in AccountType
    BY DEF Linked, AccountInv
<1> QED
    BY <1>1, <1>2, FoldKeeps

----------------------------------------------------------------------------
(***************************************************************************)
(* Each method that is called for the orders of a set is one of Method.    *)
(***************************************************************************)

\* The orders of one request.
LEMMA NewOrdersAre ==
    ASSUME NEW a, NEW cs, NEW qty,
           NEW m, m = [op |-> "new", with |-> qty]
    PROVE  FoldSet(LAMBDA c, b : NewOrder(b, c, "Buy", "Limit", 1, qty), a, cs)
           = AllOf(m, a, cs)
<1>1. \A b, c : NewOrder(b, c, "Buy", "Limit", 1, qty) = Method(m, b, c)
    BY DEF Method
<1> DEFINE G(f) == [s \in SUBSET cs |->
                     IF s = {} THEN a
                     ELSE NewOrder(f[s \ {CHOOSE x \in s : TRUE}], CHOOSE x \in s : TRUE, "Buy", "Limit", 1, qty)]
           H(f) == [s \in SUBSET cs |->
                     IF s = {} THEN a ELSE Method(m, f[s \ {CHOOSE x \in s : TRUE}], CHOOSE x \in s : TRUE)]
<1>2. \A f : G(f) = H(f)
    BY <1>1
<1>3. (CHOOSE f : f = G(f)) = (CHOOSE f : f = H(f))
  <2> HIDE DEF G, H
  <2> QED
      BY <1>2, Zenon
<1> QED
    BY <1>3 DEF AllOf, FoldSet, MapThenFoldSet

\* After which the account still agrees with the venue.
LEMMA NewOrdersLinked ==
    ASSUME NEW a, Linked(a), NEW cs \in SUBSET ClIDs, NEW qty \in Lots,
           \A c \in cs : ~Referenced(a, c)
    PROVE  Linked(FoldSet(LAMBDA c, b : NewOrder(b, c, "Buy", "Limit", 1, qty), a, cs))
<1>1. PICK m : m = [op |-> "new", with |-> qty]
    OBVIOUS
<1>2. \A c \in cs : Fits(m, a, c)
    BY <1>1 DEF Fits
<1>3. Linked(AllOf(m, a, cs))
    BY <1>2, FoldLinked
<1> QED
    BY <1>1, <1>3, NewOrdersAre

\* Their replacements.
LEMMA ReplacementsAre ==
    ASSUME NEW a, NEW cs, NEW qty,
           NEW m, m = [op |-> "replace", with |-> qty]
    PROVE  FoldSet(LAMBDA c, b : ReplaceOrder(b, c, NoPrice, qty), a, cs)
           = AllOf(m, a, cs)
<1>1. \A b, c : ReplaceOrder(b, c, NoPrice, qty) = Method(m, b, c)
    BY DEF Method
<1> DEFINE G(f) == [s \in SUBSET cs |->
                     IF s = {} THEN a
                     ELSE ReplaceOrder(f[s \ {CHOOSE x \in s : TRUE}], CHOOSE x \in s : TRUE, NoPrice, qty)]
           H(f) == [s \in SUBSET cs |->
                     IF s = {} THEN a ELSE Method(m, f[s \ {CHOOSE x \in s : TRUE}], CHOOSE x \in s : TRUE)]
<1>2. \A f : G(f) = H(f)
    BY <1>1
<1>3. (CHOOSE f : f = G(f)) = (CHOOSE f : f = H(f))
  <2> HIDE DEF G, H
  <2> QED
      BY <1>2, Zenon
<1> QED
    BY <1>3 DEF AllOf, FoldSet, MapThenFoldSet

\* After which the account still agrees with the venue.
LEMMA ReplacementsLinked ==
    ASSUME NEW a, Linked(a), NEW cs \in SUBSET ClIDs, NEW qty \in Lots,
           \A c \in cs : c \in a.ordersClID /\ a.orders[c].status \in OpenStatus
    PROVE  Linked(FoldSet(LAMBDA c, b : ReplaceOrder(b, c, NoPrice, qty), a, cs))
<1>1. PICK m : m = [op |-> "replace", with |-> qty]
    OBVIOUS
<1>2. \A c \in cs : Fits(m, a, c)
    BY <1>1 DEF Fits
<1>3. Linked(AllOf(m, a, cs))
    BY <1>2, FoldLinked
<1> QED
    BY <1>1, <1>3, ReplacementsAre

\* Their cancels.
LEMMA CancelsAre ==
    ASSUME NEW a, NEW cs,
           NEW m, m = [op |-> "cancel", with |-> 0]
    PROVE  FoldSet(LAMBDA c, b : CancelOrder(b, c), a, cs)
           = AllOf(m, a, cs)
<1>1. \A b, c : CancelOrder(b, c) = Method(m, b, c)
    BY DEF Method
<1> DEFINE G(f) == [s \in SUBSET cs |->
                     IF s = {} THEN a
                     ELSE CancelOrder(f[s \ {CHOOSE x \in s : TRUE}], CHOOSE x \in s : TRUE)]
           H(f) == [s \in SUBSET cs |->
                     IF s = {} THEN a ELSE Method(m, f[s \ {CHOOSE x \in s : TRUE}], CHOOSE x \in s : TRUE)]
<1>2. \A f : G(f) = H(f)
    BY <1>1
<1>3. (CHOOSE f : f = G(f)) = (CHOOSE f : f = H(f))
  <2> HIDE DEF G, H
  <2> QED
      BY <1>2, Zenon
<1> QED
    BY <1>3 DEF AllOf, FoldSet, MapThenFoldSet

\* After which the account still agrees with the venue.
LEMMA CancelsLinked ==
    ASSUME NEW a, Linked(a), NEW cs \in SUBSET ClIDs,
           \A c \in cs : c \in a.ordersClID /\ a.orders[c].status \in CancelableStatus
    PROVE  Linked(FoldSet(LAMBDA c, b : CancelOrder(b, c), a, cs))
<1>1. PICK m : m = [op |-> "cancel", with |-> 0]
    OBVIOUS
<1>2. \A c \in cs : Fits(m, a, c)
    BY <1>1 DEF Fits
<1>3. Linked(AllOf(m, a, cs))
    BY <1>2, FoldLinked
<1> QED
    BY <1>1, <1>3, CancelsAre

\* Orders that are refused.
LEMMA DropsAre ==
    ASSUME NEW a, NEW cs,
           NEW m, m = [op |-> "drop", with |-> 0]
    PROVE  FoldSet(LAMBDA c, b : RejectNewOrder(b, c), a, cs)
           = AllOf(m, a, cs)
<1>1. \A b, c : RejectNewOrder(b, c) = Method(m, b, c)
    BY DEF Method
<1> DEFINE G(f) == [s \in SUBSET cs |->
                     IF s = {} THEN a
                     ELSE RejectNewOrder(f[s \ {CHOOSE x \in s : TRUE}], CHOOSE x \in s : TRUE)]
           H(f) == [s \in SUBSET cs |->
                     IF s = {} THEN a ELSE Method(m, f[s \ {CHOOSE x \in s : TRUE}], CHOOSE x \in s : TRUE)]
<1>2. \A f : G(f) = H(f)
    BY <1>1
<1>3. (CHOOSE f : f = G(f)) = (CHOOSE f : f = H(f))
  <2> HIDE DEF G, H
  <2> QED
      BY <1>2, Zenon
<1> QED
    BY <1>3 DEF AllOf, FoldSet, MapThenFoldSet

\* After which the account still agrees with the venue.
LEMMA DropsLinked ==
    ASSUME NEW a, Linked(a), NEW cs \in SUBSET ClIDs,
           \A c \in cs : c \in a.ordersClID
    PROVE  Linked(FoldSet(LAMBDA c, b : RejectNewOrder(b, c), a, cs))
<1>1. PICK m : m = [op |-> "drop", with |-> 0]
    OBVIOUS
<1>2. \A c \in cs : Fits(m, a, c)
    BY <1>1 DEF Fits
<1>3. Linked(AllOf(m, a, cs))
    BY <1>2, FoldLinked
<1> QED
    BY <1>1, <1>3, DropsAre

\* Orders that are taken, and may be done already.
LEMMA AcceptancesAre ==
    ASSUME NEW a, NEW cs, NEW ans,
           NEW m, m = [op |-> "accepted", with |-> ans]
    PROVE  FoldSet(LAMBDA c, b : Accepted(b, c, ans), a, cs)
           = AllOf(m, a, cs)
<1>1. \A b, c : Accepted(b, c, ans) = Method(m, b, c)
    BY DEF Method
<1> DEFINE G(f) == [s \in SUBSET cs |->
                     IF s = {} THEN a
                     ELSE Accepted(f[s \ {CHOOSE x \in s : TRUE}], CHOOSE x \in s : TRUE, ans)]
           H(f) == [s \in SUBSET cs |->
                     IF s = {} THEN a ELSE Method(m, f[s \ {CHOOSE x \in s : TRUE}], CHOOSE x \in s : TRUE)]
<1>2. \A f : G(f) = H(f)
    BY <1>1
<1>3. (CHOOSE f : f = G(f)) = (CHOOSE f : f = H(f))
  <2> HIDE DEF G, H
  <2> QED
      BY <1>2, Zenon
<1> QED
    BY <1>3 DEF AllOf, FoldSet, MapThenFoldSet

\* After which the account still agrees with the venue.
LEMMA AcceptancesLinked ==
    ASSUME NEW a, Linked(a), NEW cs \in SUBSET ClIDs, NEW ans \in Final,
           \A c \in cs : (ans = "expired" => exch[c].at = "Done")
    PROVE  Linked(FoldSet(LAMBDA c, b : Accepted(b, c, ans), a, cs))
<1>1. PICK m : m = [op |-> "accepted", with |-> ans]
    OBVIOUS
<1>2. \A c \in cs : Fits(m, a, c)
    BY <1>1 DEF Fits
<1>3. Linked(AllOf(m, a, cs))
    BY <1>2, FoldLinked
<1> QED
    BY <1>1, <1>3, AcceptancesAre

\* Orders that are confirmed.
LEMMA ConfirmationsAre ==
    ASSUME NEW a, NEW cs,
           NEW m, m = [op |-> "confirm", with |-> 0]
    PROVE  FoldSet(LAMBDA c, b : Confirm(b, c), a, cs)
           = AllOf(m, a, cs)
<1>1. \A b, c : Confirm(b, c) = Method(m, b, c)
    BY DEF Method
<1> DEFINE G(f) == [s \in SUBSET cs |->
                     IF s = {} THEN a
                     ELSE Confirm(f[s \ {CHOOSE x \in s : TRUE}], CHOOSE x \in s : TRUE)]
           H(f) == [s \in SUBSET cs |->
                     IF s = {} THEN a ELSE Method(m, f[s \ {CHOOSE x \in s : TRUE}], CHOOSE x \in s : TRUE)]
<1>2. \A f : G(f) = H(f)
    BY <1>1
<1>3. (CHOOSE f : f = G(f)) = (CHOOSE f : f = H(f))
  <2> HIDE DEF G, H
  <2> QED
      BY <1>2, Zenon
<1> QED
    BY <1>3 DEF AllOf, FoldSet, MapThenFoldSet

\* After which the account still agrees with the venue.
LEMMA ConfirmationsLinked ==
    ASSUME NEW a, Linked(a), NEW cs \in SUBSET ClIDs,
           \A c \in cs : c \in a.ordersClID
    PROVE  Linked(FoldSet(LAMBDA c, b : Confirm(b, c), a, cs))
<1>1. PICK m : m = [op |-> "confirm", with |-> 0]
    OBVIOUS
<1>2. \A c \in cs : Fits(m, a, c)
    BY <1>1 DEF Fits
<1>3. Linked(AllOf(m, a, cs))
    BY <1>2, FoldLinked
<1> QED
    BY <1>1, <1>3, ConfirmationsAre

\* Orders that are canceled.
LEMMA CancellationsAre ==
    ASSUME NEW a, NEW cs,
           NEW m, m = [op |-> "canceled", with |-> 0]
    PROVE  FoldSet(LAMBDA c, b : ConfirmCancelOrder(b, c), a, cs)
           = AllOf(m, a, cs)
<1>1. \A b, c : ConfirmCancelOrder(b, c) = Method(m, b, c)
    BY DEF Method
<1> DEFINE G(f) == [s \in SUBSET cs |->
                     IF s = {} THEN a
                     ELSE ConfirmCancelOrder(f[s \ {CHOOSE x \in s : TRUE}], CHOOSE x \in s : TRUE)]
           H(f) == [s \in SUBSET cs |->
                     IF s = {} THEN a ELSE Method(m, f[s \ {CHOOSE x \in s : TRUE}], CHOOSE x \in s : TRUE)]
<1>2. \A f : G(f) = H(f)
    BY <1>1
<1>3. (CHOOSE f : f = G(f)) = (CHOOSE f : f = H(f))
  <2> HIDE DEF G, H
  <2> QED
      BY <1>2, Zenon
<1> QED
    BY <1>3 DEF AllOf, FoldSet, MapThenFoldSet

\* After which the account still agrees with the venue.
LEMMA CancellationsLinked ==
    ASSUME NEW a, Linked(a), NEW cs \in SUBSET ClIDs,
           \A c \in cs : c \in a.ordersClID /\ exch[c].at = "Done"
    PROVE  Linked(FoldSet(LAMBDA c, b : ConfirmCancelOrder(b, c), a, cs))
<1>1. PICK m : m = [op |-> "canceled", with |-> 0]
    OBVIOUS
<1>2. \A c \in cs : Fits(m, a, c)
    BY <1>1 DEF Fits
<1>3. Linked(AllOf(m, a, cs))
    BY <1>2, FoldLinked
<1> QED
    BY <1>1, <1>3, CancellationsAre

\* Cancels that are refused.
LEMMA RefusedCancelsAre ==
    ASSUME NEW a, NEW cs, NEW u,
           NEW m, m = [op |-> "uncanceled", with |-> u]
    PROVE  FoldSet(LAMBDA c, b : RejectCancelOrder(b, c, u), a, cs)
           = AllOf(m, a, cs)
<1>1. \A b, c : RejectCancelOrder(b, c, u) = Method(m, b, c)
    BY DEF Method
<1> DEFINE G(f) == [s \in SUBSET cs |->
                     IF s = {} THEN a
                     ELSE RejectCancelOrder(f[s \ {CHOOSE x \in s : TRUE}], CHOOSE x \in s : TRUE, u)]
           H(f) == [s \in SUBSET cs |->
                     IF s = {} THEN a ELSE Method(m, f[s \ {CHOOSE x \in s : TRUE}], CHOOSE x \in s : TRUE)]
<1>2. \A f : G(f) = H(f)
    BY <1>1
<1>3. (CHOOSE f : f = G(f)) = (CHOOSE f : f = H(f))
  <2> HIDE DEF G, H
  <2> QED
      BY <1>2, Zenon
<1> QED
    BY <1>3 DEF AllOf, FoldSet, MapThenFoldSet

\* After which the account still agrees with the venue.
LEMMA RefusedCancelsLinked ==
    ASSUME NEW a, Linked(a), NEW cs \in SUBSET ClIDs, NEW u \in BOOLEAN,
           \A c \in cs : c \in a.ordersClID
    PROVE  Linked(FoldSet(LAMBDA c, b : RejectCancelOrder(b, c, u), a, cs))
<1>1. PICK m : m = [op |-> "uncanceled", with |-> u]
    OBVIOUS
<1>2. \A c \in cs : Fits(m, a, c)
    BY <1>1 DEF Fits
<1>3. Linked(AllOf(m, a, cs))
    BY <1>2, FoldLinked
<1> QED
    BY <1>1, <1>3, RefusedCancelsAre

\* Cancels of orders the venue does not know any more: these are taken for filled.
LEMMA FilledCancelsAre ==
    ASSUME NEW a, NEW cs,
           NEW m, m = [op |-> "uncanceled, filled", with |-> 0]
    PROVE  FoldSet(LAMBDA c, b : PendingFilled(RejectCancelOrder(b, c, TRUE), c), a, cs)
           = AllOf(m, a, cs)
<1>1. \A b, c : PendingFilled(RejectCancelOrder(b, c, TRUE), c) = Method(m, b, c)
    BY DEF Method
<1> DEFINE G(f) == [s \in SUBSET cs |->
                     IF s = {} THEN a
                     ELSE PendingFilled(RejectCancelOrder(f[s \ {CHOOSE x \in s : TRUE}], CHOOSE x \in s : TRUE, TRUE), CHOOSE x \in s : TRUE)]
           H(f) == [s \in SUBSET cs |->
                     IF s = {} THEN a ELSE Method(m, f[s \ {CHOOSE x \in s : TRUE}], CHOOSE x \in s : TRUE)]
<1>2. \A f : G(f) = H(f)
    BY <1>1
<1>3. (CHOOSE f : f = G(f)) = (CHOOSE f : f = H(f))
  <2> HIDE DEF G, H
  <2> QED
      BY <1>2, Zenon
<1> QED
    BY <1>3 DEF AllOf, FoldSet, MapThenFoldSet

\* After which the account still agrees with the venue.
LEMMA FilledCancelsLinked ==
    ASSUME NEW a, Linked(a), NEW cs \in SUBSET ClIDs,
           \A c \in cs : c \in a.ordersClID
    PROVE  Linked(FoldSet(LAMBDA c, b : PendingFilled(RejectCancelOrder(b, c, TRUE), c), a, cs))
<1>1. PICK m : m = [op |-> "uncanceled, filled", with |-> 0]
    OBVIOUS
<1>2. \A c \in cs : Fits(m, a, c)
    BY <1>1 DEF Fits
<1>3. Linked(AllOf(m, a, cs))
    BY <1>2, FoldLinked
<1> QED
    BY <1>1, <1>3, FilledCancelsAre

\* Replacements that are refused, and of orders the venue does not know any more.
LEMMA RefusedReplacementsAre ==
    ASSUME NEW a, NEW cs, NEW u \in BOOLEAN,
           NEW m, m = [op |-> IF u /\ rules.unknown = "filled" THEN "unreplaced, filled"
                              ELSE "unreplaced", with |-> 0]
    PROVE  FoldSet(LAMBDA c, b : IF u /\ rules.unknown = "filled"
                                        THEN PendingFilled(RejectReplaceOrder(b, c), c)
                                        ELSE RejectReplaceOrder(b, c), a, cs)
           = AllOf(m, a, cs)
<1> DEFINE p == u /\ rules.unknown = "filled"
<1>1. \A b, c : (IF p THEN PendingFilled(RejectReplaceOrder(b, c), c)
                 ELSE RejectReplaceOrder(b, c)) = Method(m, b, c)
    BY DEF Method
<1> DEFINE G(f) == [s \in SUBSET cs |->
                     IF s = {} THEN a
                     ELSE IF p THEN PendingFilled(RejectReplaceOrder(f[s \ {CHOOSE x \in s : TRUE}],
                                                    CHOOSE x \in s : TRUE), CHOOSE x \in s : TRUE)
                     ELSE RejectReplaceOrder(f[s \ {CHOOSE x \in s : TRUE}], CHOOSE x \in s : TRUE)]
           H(f) == [s \in SUBSET cs |->
                     IF s = {} THEN a ELSE Method(m, f[s \ {CHOOSE x \in s : TRUE}], CHOOSE x \in s : TRUE)]
<1>2. \A f : G(f) = H(f)
  <2> HIDE DEF p
  <2> QED
      BY <1>1
<1>3. (CHOOSE f : f = G(f)) = (CHOOSE f : f = H(f))
  <2> HIDE DEF G, H
  <2> QED
      BY <1>2, Zenon
<1> QED
    BY <1>3 DEF AllOf, FoldSet, MapThenFoldSet

\* After which the account still agrees with the venue.
LEMMA RefusedReplacementsLinked ==
    ASSUME NEW a, Linked(a), NEW cs \in SUBSET ClIDs, NEW u \in BOOLEAN,
           \A c \in cs : c \in a.ordersClID
    PROVE  Linked(FoldSet(LAMBDA c, b : IF u /\ rules.unknown = "filled"
                                        THEN PendingFilled(RejectReplaceOrder(b, c), c)
                                        ELSE RejectReplaceOrder(b, c), a, cs))
<1>1. PICK m : m = [op |-> IF u /\ rules.unknown = "filled" THEN "unreplaced, filled"
                            ELSE "unreplaced", with |-> 0]
    OBVIOUS
<1>2. \A c \in cs : Fits(m, a, c)
    BY <1>1 DEF Fits
<1>3. Linked(AllOf(m, a, cs))
    BY <1>2, FoldLinked
<1> QED
    BY <1>1, <1>3, RefusedReplacementsAre, Zenon

\* The time that passes for some orders.
LEMMA AgesAre ==
    ASSUME NEW a, NEW cs,
           NEW m, m = [op |-> "age", with |-> 0]
    PROVE  FoldSet(LAMBDA c, b : Age(b, c), a, cs)
           = AllOf(m, a, cs)
<1>1. \A b, c : Age(b, c) = Method(m, b, c)
    BY DEF Method
<1> DEFINE G(f) == [s \in SUBSET cs |->
                     IF s = {} THEN a
                     ELSE Age(f[s \ {CHOOSE x \in s : TRUE}], CHOOSE x \in s : TRUE)]
           H(f) == [s \in SUBSET cs |->
                     IF s = {} THEN a ELSE Method(m, f[s \ {CHOOSE x \in s : TRUE}], CHOOSE x \in s : TRUE)]
<1>2. \A f : G(f) = H(f)
    BY <1>1
<1>3. (CHOOSE f : f = G(f)) = (CHOOSE f : f = H(f))
  <2> HIDE DEF G, H
  <2> QED
      BY <1>2, Zenon
<1> QED
    BY <1>3 DEF AllOf, FoldSet, MapThenFoldSet

\* After which the account still agrees with the venue.
LEMMA AgesLinked ==
    ASSUME NEW a, Linked(a), NEW cs \in SUBSET ClIDs,
           \A c \in cs : Referenced(a, c)
    PROVE  Linked(FoldSet(LAMBDA c, b : Age(b, c), a, cs))
<1>1. PICK m : m = [op |-> "age", with |-> 0]
    OBVIOUS
<1>2. \A c \in cs : Fits(m, a, c)
    BY <1>1 DEF Fits
<1>3. Linked(AllOf(m, a, cs))
    BY <1>2, FoldLinked
<1> QED
    BY <1>1, <1>3, AgesAre

----------------------------------------------------------------------------
(***************************************************************************)
(* The two ends of the stream and of the futures.                          *)
(***************************************************************************)

\* What is done at the venue stays done.
Grows == \A c \in ClIDs : exch[c].at = "Done" => exch'[c].at = "Done"

\* What an event says stays true.
LEMMA EventStaysTrue ==
    ASSUME Grows, NEW e \in Event, EventTrue(e)
    PROVE  EventTrue(e)'
<1>1. e.c \in ClIDs
    BY DEF Event
<1> QED
    BY <1>1 DEF Grows, EventTrue

\* If the events the venue emits are true, all that are in the stream then are.
LEMMA EmitTrue ==
    ASSUME StateTypes, EventsTrue, Grows, NEW events \in Seq(Event), Emit(events),
           \A i \in 1..Len(events) : EventTrue(events[i])'
    PROVE  stream' \in [up : BOOLEAN, q : Seq(Event)] /\ EventsTrue'
<1> DEFINE T == {e \in Event : Carries(e.ev)}
           G(f) == [i \in 0..Len(events) |->
                      IF i = 0 THEN stream.q
                      ELSE IF Carries(events[i].ev) THEN Append(f[i - 1], events[i])
                      ELSE f[i - 1]]
<1>1. PICK S : S = {e \in Event : EventTrue(e)'}
    OBVIOUS
<1>2. stream \in [up : BOOLEAN, q : Seq(Event)] /\ \A i \in 1..Len(stream.q) : stream.q[i] \in Event
    BY DEF StateTypes
<1>3. \A i \in 1..Len(stream.q) : stream.q[i] \in S
    BY <1>1, <1>2, EventStaysTrue DEF EventsTrue
<1>4. (\A i \in 1..Len(events) : events[i] \in Event) /\ Len(events) \in Nat
    OBVIOUS
<1>5. \A i \in 1..Len(events) : events[i] \in S
    BY <1>1, <1>4
<1>6. stream.q \in Seq(S) /\ events \in Seq(S)
  <2>1. \A q \in Seq(Event) : (\A i \in 1..Len(q) : q[i] \in S) => q \in Seq(S)
      OBVIOUS
  <2> QED
      BY <1>2, <1>3, <1>5, <2>1
<1>7. ASSUME NEW h PROVE h = G(h) <=> Kept(h, stream.q, events, T)
  <2>1. \A i \in 1..Len(events) : Carries(events[i].ev) <=> events[i] \in T
      BY <1>4
  <2> HIDE DEF T
  <2> QED
      BY <1>4, <2>1 DEF Kept
<1>8. PICK h : h = CHOOSE f : f = G(f)
    OBVIOUS
<1>9. Kept(h, stream.q, events, T)
  <2>1. \E f : Kept(f, stream.q, events, T)
      BY <1>4, KeptExists
  <2> HIDE DEF G
  <2> QED
      BY <1>7, <1>8, <2>1
<1>10. h[Len(events)] \in Seq(S)
    BY <1>6, <1>9, KeptAre
<1>11. stream' = IF stream.up THEN [stream EXCEPT !.q = h[Len(events)]] ELSE stream
    BY <1>8 DEF Emit
<1>12. stream' \in [up : BOOLEAN, q : Seq(Event)] /\ stream'.q \in Seq(S)
  <2>1. h[Len(events)] \in Seq(Event)
      BY <1>1, <1>10
  <2> QED
      BY <1>2, <1>6, <1>10, <1>11, <2>1
<1>13. \A i \in 1..Len(stream'.q) : stream'.q[i] \in S
    BY <1>12
<1> QED
    BY <1>1, <1>12, <1>13 DEF EventsTrue

\* Several events, one per order, in any order.
LEMMA InSequenceTrue ==
    ASSUME StateTypes, EventsTrue, Grows, NEW cs \in SUBSET ClIDs, NEW event,
           \A c \in cs : event[c] \in Event /\ EventTrue(event[c])', InSequence(cs, event)
    PROVE  stream' \in [up : BOOLEAN, q : Seq(Event)] /\ EventsTrue'
<1>1. PICK s \in SetToSeqs(cs) : Emit([i \in DOMAIN s |-> event[s[i]]])
    BY DEF InSequence
<1>2. IsFiniteSet(cs)
    BY VenueOrderBounds, FS_Subset
<1>3. s \in Seq(ClIDs) /\ \A i \in 1..Len(s) : s[i] \in cs
    BY <1>1, <1>2, SequencesOf
<1>4. PICK es : es = [i \in DOMAIN s |-> event[s[i]]]
    OBVIOUS
<1>5. DOMAIN s = 1..Len(s) /\ Len(s) \in Nat
    BY <1>3
<1>6. es = [i \in 1..Len(s) |-> event[s[i]]] /\ \A i \in 1..Len(s) : event[s[i]] \in Event
    BY <1>3, <1>4, <1>5
<1>7. es \in Seq(Event) /\ Len(es) = Len(s) /\ \A i \in 1..Len(es) : es[i] = event[s[i]]
    BY <1>5, <1>6
<1>8. \A i \in 1..Len(es) : EventTrue(es[i])'
    BY <1>3, <1>7
<1> QED
    BY <1>1, <1>4, <1>7, <1>8, EmitTrue

\* An event that tells what has happened.
LEMMA HappenedTrue ==
    ASSUME NEW kind \in Kind, NEW c \in ClIDs, NEW qty \in 0..MaxLots,
           kind \in {"new", "trade"} => qty \in Lots,
           kind \in {"canceled", "expired"} => exch'[c].at = "Done"
    PROVE  /\ Happened(kind, c, IdOf[c], qty) \in Event
           /\ EventTrue(Happened(kind, c, IdOf[c], qty))'
BY IdsApart DEF Happened, Event, EventTrue

\* A step of others than the account.
LEMMA OutsideStep ==
    ASSUME IInv, Grows, acct' = acct, StateTypes', World', EventsTrue'
    PROVE  IInv'
<1>1. Linked(acct)'
  <2>1. AccountInv(acct) /\ \A c \in ClIDs : Agrees(acct, c)
      BY DEF IInv, Linked
  <2>2. ASSUME NEW c \in ClIDs PROVE Agrees(acct, c)'
      BY <2>1 DEF Agrees, Grows
  <2> QED
      BY <2>1, <2>2 DEF Linked
<1> QED
    BY <1>1 DEF IInv

\* A step of the account, or one that leaves it alone.
LEMMA AccountStep ==
    ASSUME NEW b, Linked(b), acct' = b, exch' = exch, StateTypes', World', EventsTrue'
    PROVE  IInv'
<1>1. Linked(acct)'
  <2>1. AccountInv(b) /\ \A c \in ClIDs : Agrees(b, c)
      BY DEF Linked
  <2>2. ASSUME NEW c \in ClIDs PROVE Agrees(acct, c)'
      BY <2>1 DEF Agrees
  <2> QED
      BY <2>1, <2>2 DEF Linked
<1> QED
    BY <1>1 DEF IInv

\* A request stays what it is while what it asks for does not happen otherwise.
LEMMA CallStays ==
    ASSUME NEW k \in Kinds, StateTypes, CallTrue(k), call'[k] = call[k], Grows,
           call[k].sent /\ k \in {"new", "bulk"} =>
               \A c \in call[k].cs : exch[c].at = "None" => exch'[c].at = "None"
    PROVE  CallTrue(k)'
<1>1. \A c \in call[k].cs : c \in ClIDs
    BY DEF StateTypes, CallType
<1> QED
    BY <1>1 DEF CallTrue, Grows

\* A step that starts none of the orders that are on their way.
LEMMA QuietWorld ==
    ASSUME StateTypes, World, call' = call, Grows, \A c \in ClIDs : OrderTrue(c)',
           \A c \in ClIDs : exch[c].at = "None" => exch'[c].at = "None"
    PROVE  World'
<1>1. ASSUME NEW k \in Kinds PROVE CallTrue(k)'
  <2>1. call[k] \in CallType
      BY DEF StateTypes
  <2>2. \A c \in call[k].cs : c \in ClIDs
      BY <2>1 DEF CallType
  <2> QED
      BY <2>2, CallStays DEF World
<1>2. Apart'
    BY DEF World, Apart
<1> QED
    BY <1>1, <1>2 DEF World

\* A step that changes one request, and starts at most the orders it asked for.
LEMMA OneCallWorld ==
    ASSUME StateTypes, World, NEW k \in Kinds, NEW n \in CallType,
           call' = [call EXCEPT ![k] = n], Grows, \A c \in ClIDs : OrderTrue(c)',
           n.sent /\ k \in {"new", "bulk"} =>
               \/ call[k].sent /\ n.cs = call[k].cs
               \/ \A j \in Kinds : n.cs \cap call[j].cs = {},
           \A c \in ClIDs : exch[c].at = "None" =>
               \/ exch'[c].at = "None"
               \/ call[k].sent /\ k \in {"new", "bulk"} /\ c \in call[k].cs,
           CallTrue(k)'
    PROVE  World' /\ call' \in [Kinds -> CallType]
<1>1. /\ call' \in [Kinds -> CallType] /\ call'[k] = n
      /\ \A j \in Kinds \ {k} : call'[j] = call[j]
    BY DEF StateTypes
<1>2. "new" \in Kinds /\ "bulk" \in Kinds
    BY DEF Kinds
<1>3. ASSUME NEW j \in Kinds \ {k} PROVE CallTrue(j)'
  <2>1. call[j].sent /\ j \in {"new", "bulk"} =>
          \A c \in call[j].cs : exch[c].at = "None" => exch'[c].at = "None"
    <3>1. \A c \in call[j].cs : c \in ClIDs
        BY DEF StateTypes, CallType
    <3>2. call[j].sent /\ j \in {"new", "bulk"} /\ call[k].sent /\ k \in {"new", "bulk"}
            => \A c \in call[j].cs : c \notin call[k].cs
        BY DEF World, Apart
    <3> QED
        BY <3>1, <3>2
  <2> QED
      BY <1>1, <2>1, CallStays DEF World
<1>4. Apart'
  <2>1. CASE k \notin {"new", "bulk"} \/ ~n.sent
      BY <1>1, <1>2, <2>1 DEF World, Apart
  <2>2. CASE k = "new" /\ n.sent
      BY <1>1, <1>2, <2>2 DEF World, Apart
  <2>3. CASE k = "bulk" /\ n.sent
      BY <1>1, <1>2, <2>3 DEF World, Apart
  <2> QED
      BY <2>1, <2>2, <2>3
<1> QED
    BY <1>1, <1>3, <1>4 DEF World

\* A request that reaches the venue starts at most its own orders.
LEMMA ArrivalWorld ==
    ASSUME StateTypes, World, NEW k \in Kinds, call[k].sent, NEW a \in Final, Arrived(k, a),
           Grows, \A c \in ClIDs : OrderTrue(c)',
           \A c \in ClIDs : exch[c].at = "None" =>
               exch'[c].at = "None" \/ (k \in {"new", "bulk"} /\ c \in call[k].cs),
           a = "expired" \/ (k = "cancel" /\ a = "ok") =>
               \A c \in call[k].cs : exch'[c].at = "Done"
    PROVE  World' /\ call' \in [Kinds -> CallType]
<1> DEFINE n == IF call[k].ans = "none" THEN [NoCall EXCEPT !.owed = call[k].owed]
                ELSE [call[k] EXCEPT !.sent = FALSE,
                                     !.ans = IF call[k].ans = "waiting" THEN a ELSE call[k].ans]
<1>1. call \in [Kinds -> CallType] /\ call' = [call EXCEPT ![k] = n]
    BY DEF StateTypes, Arrived
<1>2. call[k] \in CallType /\ \A c \in call[k].cs : c \in ClIDs
    BY <1>1 DEF CallType
<1>3. n \in CallType /\ ~n.sent /\ CallTrue(k)'
  <2>1. CASE call[k].ans = "none"
    <3>1. n = [NoCall EXCEPT !.owed = call[k].owed]
        BY <2>1
    <3>2. n = [sent |-> FALSE, cs |-> {}, qty |-> 0, ans |-> "none", owed |-> call[k].owed]
      <4> HIDE DEF n
      <4> QED
          BY <3>1 DEF NoCall
    <3>3. call[k].owed \in BOOLEAN /\ 0 \in 0..MaxLots
        BY <1>2, AccountConstants DEF CallType
    <3> HIDE DEF n
    <3>4. n \in CallType /\ ~n.sent /\ n.ans = "none"
        BY <3>2, <3>3 DEF CallType
    <3>5. CallTrue(k)'
        BY <1>1, <3>4 DEF CallTrue
    <3> QED
        BY <3>4, <3>5
  <2>2. CASE call[k].ans # "none"
    <3>1. /\ n \in CallType /\ ~n.sent /\ n.cs = call[k].cs
          /\ n.ans = IF call[k].ans = "waiting" THEN a ELSE call[k].ans
        BY <1>2, <2>2 DEF CallType
    <3> HIDE DEF n
    <3>2. call'[k] = n /\ CallTrue(k)
        BY <1>1 DEF World
    <3>3. n.ans = "expired" \/ (k = "cancel" /\ n.ans = "ok") =>
            \A c \in n.cs : exch'[c].at = "Done"
        BY <1>2, <3>1, <3>2 DEF CallTrue, Grows
    <3>4. k \in {"new", "cancel", "replace"} => \E c \in ClIDs : n.cs = {c}
        BY <3>1, <3>2 DEF CallTrue
    <3>5. CallTrue(k)'
        BY <3>1, <3>2, <3>3, <3>4 DEF CallTrue
    <3> QED
        BY <3>1, <3>5
  <2> QED
      BY <2>1, <2>2
<1> HIDE DEF n
<1> QED
    BY <1>1, <1>3, OneCallWorld

----------------------------------------------------------------------------
(***************************************************************************)
(* The venue.                                                              *)
(***************************************************************************)

\* What a request that reaches the venue has to show.
LEMMA ArrivalStep ==
    ASSUME IInv, NEW k \in Kinds, Arrival(k), NEW a \in Final, Arrived(k, a),
           exch' \in [ClIDs -> VenueOrder], drift' \in Int,
           stream' \in [up : BOOLEAN, q : Seq(Event)], EventsTrue',
           Grows, \A c \in ClIDs : OrderTrue(c)',
           \A c \in ClIDs : exch[c].at = "None" =>
               exch'[c].at = "None" \/ (k \in {"new", "bulk"} /\ c \in call[k].cs),
           a = "expired" \/ (k = "cancel" /\ a = "ok") =>
               \A c \in call[k].cs : exch'[c].at = "Done"
    PROVE  IInv'
<1>1. StateTypes /\ World /\ call[k].sent
    BY DEF IInv, Arrival
<1>2. World' /\ call' \in [Kinds -> CallType]
    BY <1>1, ArrivalWorld
<1>3. StateTypes' /\ acct' = acct
    BY <1>1, <1>2 DEF StateTypes, Arrival
<1> QED
    BY <1>2, <1>3, OutsideStep

\* The orders of a request, as they are at the venue from then on.
LEMMA PlacedShape ==
    ASSUME NEW c \in ClIDs, NEW state \in {"Live", "Done"}, NEW leaves \in 0..MaxLots,
           NEW cum \in Nat
    PROVE  LET o == Placed(c, state, leaves, cum) IN
           /\ o \in VenueOrder /\ o.at = state /\ o.id = IdOf[c] /\ o.leaves = leaves
BY IdsApart DEF Placed, VenueOrder

\* A request for new orders is the first the venue hears of them.
LEMMA NewRequest ==
    ASSUME IInv, NEW k \in {"new", "bulk"}, Arrival(k)
    PROVE  /\ StateTypes /\ World /\ EventsTrue
           /\ k \in Kinds /\ call[k].qty \in Lots /\ call[k].qty \in 0..MaxLots
           /\ call[k].qty \in Nat /\ 0 \in 0..MaxLots
           /\ call[k].cs \in SUBSET ClIDs /\ \A c \in call[k].cs : exch[c].at = "None"
<1>1. k \in Kinds /\ call[k].sent /\ StateTypes /\ World /\ EventsTrue
    BY DEF IInv, Arrival, Kinds
<1>2. call[k] \in CallType /\ CallTrue(k)
    BY <1>1 DEF StateTypes, World
<1>3. call[k].qty \in Lots /\ call[k].cs \in SUBSET ClIDs /\ \A c \in call[k].cs : exch[c].at = "None"
    BY <1>1, <1>2 DEF CallType, CallTrue
<1> QED
    BY <1>1, <1>3, AccountConstants DEF Lots

\* Orders come to rest.
LEMMA OrdersRestStep ==
    ASSUME IInv, NEW k \in {"new", "bulk"}, OrdersRest(k)
    PROVE  IInv'
<1> PICK cs, qty : cs = call[k].cs /\ qty = call[k].qty
    OBVIOUS
<1> PICK event : event = [c \in ClIDs |-> Happened("new", c, IdOf[c], qty)]
    OBVIOUS
<1>1. Arrival(k) /\ Arrived(k, "ok") /\ InSequence(cs, event) /\ drift' = drift
      /\ exch' = [c \in ClIDs |-> IF c \in cs THEN Placed(c, "Live", qty, 0) ELSE exch[c]]
    BY DEF OrdersRest
<1>2. /\ StateTypes /\ World /\ EventsTrue
      /\ k \in Kinds /\ qty \in Lots /\ qty \in 0..MaxLots
      /\ cs \in SUBSET ClIDs /\ \A c \in cs : exch[c].at = "None"
    BY <1>1, NewRequest
<1>3. ASSUME NEW c \in cs PROVE /\ exch'[c] \in VenueOrder /\ exch'[c].at = "Live"
                                /\ exch'[c].id = IdOf[c] /\ exch'[c].leaves = qty
  <2>1. c \in ClIDs /\ exch'[c] = Placed(c, "Live", qty, 0)
      BY <1>1, <1>2, <1>3
  <2> QED
      BY <1>2, <2>1, PlacedShape
<1>4. \A c \in ClIDs \ cs : exch'[c] = exch[c]
    BY <1>1
<1>5. exch' \in [ClIDs -> VenueOrder]
  <2>1. ASSUME NEW c \in ClIDs PROVE exch'[c] \in VenueOrder
      BY <1>2, <1>3, <1>4 DEF StateTypes
  <2>2. exch' = [c \in ClIDs |-> exch'[c]]
      BY <1>1
  <2> QED
      BY <2>1, <2>2
<1>6. Grows
    BY <1>2, <1>3, <1>4 DEF Grows
<1>7. \A c \in ClIDs : OrderTrue(c)'
  <2>1. ASSUME NEW c \in ClIDs PROVE OrderTrue(c)'
    <3>1. CASE c \in cs
        BY <1>2, <1>3, <3>1 DEF OrderTrue
    <3>2. CASE c \notin cs
        BY <1>2, <1>4, <3>2 DEF OrderTrue, World
    <3> QED
        BY <3>1, <3>2
  <2> QED
      BY <2>1
<1>8. \A c \in cs : event[c] \in Event /\ EventTrue(event[c])'
  <2>1. "new" \in Kind
      BY DEF Kind
  <2>2. ASSUME NEW c \in ClIDs
        PROVE  /\ Happened("new", c, IdOf[c], qty) \in Event
               /\ EventTrue(Happened("new", c, IdOf[c], qty))'
      BY <1>2, <2>1, HappenedTrue
  <2>3. \A c \in ClIDs : event[c] = Happened("new", c, IdOf[c], qty)
      OBVIOUS
  <2> QED
      BY <1>2, <2>2, <2>3
<1>9. stream' \in [up : BOOLEAN, q : Seq(Event)] /\ EventsTrue'
    BY <1>1, <1>2, <1>6, <1>8, InSequenceTrue
<1>10. drift' \in Int /\ "ok" \in Final /\ \A c \in ClIDs : exch[c].at = "None" =>
           exch'[c].at = "None" \/ (k \in {"new", "bulk"} /\ c \in call[k].cs)
    BY <1>1, <1>2, <1>4 DEF StateTypes, Final
<1> QED
    BY <1>1, <1>2, <1>5, <1>6, <1>7, <1>9, <1>10, ArrivalStep

\* The order of a request for one.
LEMMA OneNewOrder ==
    ASSUME IInv, Arrival("new"), NEW state \in {"Live", "Done"}, NEW leaves \in 0..MaxLots,
           NEW cum \in Nat, state = "Live" => leaves \in Lots,
           LET c == CHOOSE d \in call["new"].cs : TRUE IN
           exch' = [exch EXCEPT ![c] = Placed(c, state, leaves, cum)]
    PROVE  LET c == CHOOSE d \in call["new"].cs : TRUE IN
           /\ c \in ClIDs /\ call["new"].cs = {c} /\ exch'[c].at = state
           /\ exch' \in [ClIDs -> VenueOrder] /\ Grows /\ \A d \in ClIDs : OrderTrue(d)'
           /\ \A d \in ClIDs : exch[d].at = "None" => exch'[d].at = "None" \/ d \in call["new"].cs
<1>1. PICK c : c = CHOOSE d \in call["new"].cs : TRUE
    OBVIOUS
<1>2. /\ StateTypes /\ World /\ call["new"].cs \in SUBSET ClIDs
      /\ \A d \in call["new"].cs : exch[d].at = "None"
    BY NewRequest
<1>3. \E d \in ClIDs : call["new"].cs = {d}
    BY DEF IInv, World, CallTrue, Kinds, Arrival
<1>4. c \in ClIDs /\ call["new"].cs = {c} /\ exch[c].at = "None"
    BY <1>1, <1>2, <1>3
<1>5. PICK o \in VenueOrder : /\ o = Placed(c, state, leaves, cum)
                              /\ o.at = state /\ o.id = IdOf[c] /\ o.leaves = leaves
    BY <1>4, PlacedShape
<1>6. exch' = [exch EXCEPT ![c] = o] /\ exch \in [ClIDs -> VenueOrder]
    BY <1>1, <1>2, <1>5 DEF StateTypes
<1>7. /\ exch' \in [ClIDs -> VenueOrder] /\ exch'[c] = o
      /\ \A d \in ClIDs \ {c} : exch'[d] = exch[d]
    BY <1>4, <1>5, <1>6
<1>8. Grows
    BY <1>4, <1>7 DEF Grows
<1>9. ASSUME NEW d \in ClIDs PROVE OrderTrue(d)'
  <2>1. CASE d = c
      BY <1>5, <1>7, <2>1 DEF OrderTrue
  <2>2. CASE d # c
      BY <1>2, <1>7, <2>2 DEF OrderTrue, World
  <2> QED
      BY <2>1, <2>2
<1>10. exch'[c].at = state
    BY <1>5, <1>7
<1> QED
    BY <1>1, <1>4, <1>7, <1>8, <1>9, <1>10

\* Events that are true after the step.
LEMMA EmitAllTrue ==
    ASSUME StateTypes, EventsTrue, Grows, NEW S, S = {e \in Event : EventTrue(e)'},
           NEW es \in Seq(S), Emit(es)
    PROVE  stream' \in [up : BOOLEAN, q : Seq(Event)] /\ EventsTrue'
<1>1. \A i \in 1..Len(es) : es[i] \in S
    OBVIOUS
<1>2. es \in Seq(Event)
    OBVIOUS
<1>3. \A i \in 1..Len(es) : EventTrue(es[i])'
    BY <1>1
<1> QED
    BY <1>2, <1>3, EmitTrue

\* What is told of an execution, in either order.
LEMMA ExecutedTrue ==
    ASSUME NEW S, NEW c, NEW qty, NEW events \in Executed(c, qty),
           Happened("trade", c, IdOf[c], qty) \in S, Happened("filled", c, IdOf[c], qty) \in S
    PROVE  events \in Seq(S)
<1>1. PICK trade \in S, full \in S : events \in {<<trade, full>>, <<full, trade>>}
    BY DEF Executed
<1>2. <<trade, full>> \in Seq(S) /\ <<full, trade>> \in Seq(S)
    BY Singletons
<1> QED
    BY <1>1, <1>2

\* An order that is executed at once.
LEMMA OrderFillsStep ==
    ASSUME IInv, OrderFills
    PROVE  IInv'
<1> PICK c, qty : c = (CHOOSE d \in call["new"].cs : TRUE) /\ qty = call["new"].qty
    OBVIOUS
<1>1. PICK a \in Final :
        /\ Arrival("new") /\ exch' = [exch EXCEPT ![c] = Placed(c, "Done", 0, qty)]
        /\ Arrived("new", a) /\ a # "expired" /\ drift' = drift + qty
    BY DEF OrderFills, Final
<1>2. StateTypes /\ EventsTrue /\ qty \in Lots /\ qty \in 0..MaxLots /\ qty \in Nat /\ 0 \in 0..MaxLots
    BY <1>1, NewRequest
<1>3. /\ c \in ClIDs /\ call["new"].cs = {c} /\ exch' \in [ClIDs -> VenueOrder] /\ Grows
      /\ \A d \in ClIDs : OrderTrue(d)'
      /\ \A d \in ClIDs : exch[d].at = "None" => exch'[d].at = "None" \/ d \in call["new"].cs
    BY <1>1, <1>2, OneNewOrder
<1>4. PICK S : S = {e \in Event : EventTrue(e)'}
    OBVIOUS
<1>5. PICK n \in S, trade \in S, full \in S :
        /\ n = Happened("new", c, IdOf[c], qty) /\ trade = Happened("trade", c, IdOf[c], qty)
        /\ full = Happened("filled", c, IdOf[c], qty)
  <2>1. "new" \in Kind /\ "trade" \in Kind /\ "filled" \in Kind
      BY DEF Kind
  <2> QED
      BY <1>2, <1>3, <1>4, <2>1, HappenedTrue
<1>6. PICK events \in Executed(c, qty) : Emit(IF Carries("filled") THEN events ELSE <<n>> \o events)
    BY <1>5 DEF OrderFills
<1>7. events \in Seq(S) /\ <<n>> \in Seq(S)
    BY <1>5, <1>6, ExecutedTrue, Singletons
<1>8. <<n>> \o events \in Seq(S)
    BY <1>7
<1>9. stream' \in [up : BOOLEAN, q : Seq(Event)] /\ EventsTrue'
  <2>1. CASE Carries("filled")
      BY <1>2, <1>3, <1>4, <1>6, <1>7, <2>1, EmitAllTrue
  <2>2. CASE ~Carries("filled")
      BY <1>2, <1>3, <1>4, <1>6, <1>8, <2>2, EmitAllTrue
  <2> QED
      BY <2>1, <2>2
<1>10. "new" \in Kinds /\ drift' \in Int
    BY <1>1, <1>2 DEF Kinds, StateTypes
<1> QED
    BY <1>1, <1>3, <1>9, <1>10, ArrivalStep

\* An order that expires at once.
LEMMA OrderExpiresStep ==
    ASSUME IInv, OrderExpires
    PROVE  IInv'
<1> PICK c, qty : c = (CHOOSE d \in call["new"].cs : TRUE) /\ qty = call["new"].qty
    OBVIOUS
<1>1. PICK a \in Final :
        /\ Arrival("new") /\ exch' = [exch EXCEPT ![c] = Placed(c, "Done", qty, 0)]
        /\ Arrived("new", a) /\ drift' = drift
    BY DEF OrderExpires, Final
<1>2. StateTypes /\ EventsTrue /\ qty \in Lots /\ qty \in 0..MaxLots /\ 0 \in 0..MaxLots
    BY <1>1, NewRequest
<1>3. /\ c \in ClIDs /\ call["new"].cs = {c} /\ exch'[c].at = "Done"
      /\ exch' \in [ClIDs -> VenueOrder] /\ Grows /\ \A d \in ClIDs : OrderTrue(d)'
      /\ \A d \in ClIDs : exch[d].at = "None" => exch'[d].at = "None" \/ d \in call["new"].cs
    BY <1>1, <1>2, OneNewOrder
<1>4. PICK S : S = {e \in Event : EventTrue(e)'}
    OBVIOUS
<1>5. PICK kind \in {"expired", "canceled"} :
        Emit(<<Happened("new", c, IdOf[c], qty), Happened(kind, c, IdOf[c], 0)>>)
    BY DEF OrderExpires
<1>6. PICK n \in S, gone \in S :
        n = Happened("new", c, IdOf[c], qty) /\ gone = Happened(kind, c, IdOf[c], 0)
  <2>1. "new" \in Kind /\ kind \in Kind /\ kind \notin {"new", "trade"}
      BY DEF Kind
  <2> QED
      BY <1>2, <1>3, <1>4, <2>1, HappenedTrue
<1>7. <<n, gone>> \in Seq(S) /\ Emit(<<n, gone>>)
    BY <1>5, <1>6, Singletons
<1>8. stream' \in [up : BOOLEAN, q : Seq(Event)] /\ EventsTrue'
    BY <1>2, <1>3, <1>4, <1>7, EmitAllTrue
<1>9. "new" \in Kinds /\ drift' \in Int
    BY <1>1, <1>2 DEF Kinds, StateTypes
<1> QED
    BY <1>1, <1>3, <1>8, <1>9, ArrivalStep

\* What changes of an order that was at the venue already.
LEMMA LaterShape ==
    ASSUME StateTypes, World, exch' \in [ClIDs -> VenueOrder],
           \A c \in ClIDs : exch'[c] = exch[c] \/
               /\ exch[c].at = "Live" /\ exch'[c].at \in {"Live", "Done"}
               /\ exch'[c].id = exch[c].id /\ (exch'[c].at = "Live" => exch'[c].leaves \in Lots)
    PROVE  /\ Grows /\ \A c \in ClIDs : OrderTrue(c)'
           /\ \A c \in ClIDs : exch[c].at = "None" => exch'[c].at = "None"
<1>1. Grows /\ \A c \in ClIDs : exch[c].at = "None" => exch'[c].at = "None"
    BY DEF Grows
<1>2. ASSUME NEW c \in ClIDs PROVE OrderTrue(c)'
    BY DEF OrderTrue, World
<1> QED
    BY <1>1, <1>2

\* A cancel.
LEMMA CancelArrivesStep ==
    ASSUME IInv, CancelArrives
    PROVE  IInv'
<1> PICK c : c = CHOOSE d \in call["cancel"].cs : TRUE
    OBVIOUS
<1>1. StateTypes /\ World /\ EventsTrue /\ "cancel" \in Kinds /\ Arrival("cancel") /\ drift' = drift
    BY DEF IInv, CancelArrives, Kinds
<1>2. c \in ClIDs /\ call["cancel"].cs = {c}
  <2>1. \E d \in ClIDs : call["cancel"].cs = {d}
      BY <1>1 DEF World, CallTrue, Arrival
  <2> QED
      BY <2>1
<1>3. drift' \in Int /\ "ok" \in Final /\ "unknown" \in Final
  <2>1. drift \in Int
      BY <1>1 DEF StateTypes
  <2> QED
      BY <1>1, <2>1 DEF Final
<1>4. CASE Live(c)
  <2>1. /\ exch' = [exch EXCEPT ![c].at = "Done"] /\ Arrived("cancel", "ok")
        /\ Emit(<<Happened("canceled", c, IdOf[c], 0)>>)
      BY <1>4 DEF CancelArrives
  <2>2. exch \in [ClIDs -> VenueOrder] /\ exch[c] \in VenueOrder
      BY <1>1, <1>2 DEF StateTypes
  <2>3. PICK o \in VenueOrder : o = [exch[c] EXCEPT !.at = "Done"] /\ o.at = "Done" /\ o.id = exch[c].id
    <3>1. PICK r \in VenueOrder : r = exch[c]
        BY <2>2
    <3>2. \A o : o = [r EXCEPT !.at = "Done"] => o \in VenueOrder /\ o.at = "Done" /\ o.id = r.id
        BY DEF VenueOrder
    <3> QED
        BY <3>1, <3>2
  <2>4. /\ exch' \in [ClIDs -> VenueOrder] /\ exch'[c] = o
        /\ \A d \in ClIDs \ {c} : exch'[d] = exch[d]
      BY <1>2, <2>1, <2>2, <2>3
  <2>5. /\ Grows /\ \A d \in ClIDs : OrderTrue(d)'
        /\ \A d \in ClIDs : exch[d].at = "None" => exch'[d].at = "None"
      BY <1>1, <1>4, <2>3, <2>4, LaterShape DEF Live
  <2>6. PICK S : S = {e \in Event : EventTrue(e)'}
      OBVIOUS
  <2>7. PICK gone \in S : gone = Happened("canceled", c, IdOf[c], 0)
    <3>1. "canceled" \in Kind /\ 0 \in 0..MaxLots
        BY AccountConstants DEF Kind
    <3> QED
        BY <1>2, <2>3, <2>4, <2>6, <3>1, HappenedTrue
  <2>8. <<gone>> \in Seq(S)
      BY <2>7, Singletons
  <2>9. stream' \in [up : BOOLEAN, q : Seq(Event)] /\ EventsTrue'
      BY <1>1, <2>1, <2>5, <2>6, <2>7, <2>8, EmitAllTrue
  <2> QED
      BY <1>1, <1>2, <1>3, <2>1, <2>3, <2>4, <2>5, <2>9, ArrivalStep
<1>5. CASE ~Live(c)
  <2>1. Arrived("cancel", "unknown") /\ exch' = exch /\ stream' = stream
      BY <1>5 DEF CancelArrives
  <2>2. exch' \in [ClIDs -> VenueOrder] /\ stream' \in [up : BOOLEAN, q : Seq(Event)]
      BY <1>1, <2>1 DEF StateTypes
  <2>3. Grows /\ (\A d \in ClIDs : OrderTrue(d)') /\ \A d \in ClIDs : exch[d].at = "None" => exch'[d].at = "None"
      BY <1>1, <2>1, <2>2, LaterShape
  <2>4. EventsTrue'
      BY <1>1, <2>1 DEF EventsTrue, EventTrue
  <2> QED
      BY <1>1, <1>3, <2>1, <2>2, <2>3, <2>4, ArrivalStep
<1> QED
    BY <1>4, <1>5

\* An order that is done, and is otherwise what it was.
LEMMA DoneShape ==
    ASSUME NEW r \in VenueOrder, NEW o, o = [r EXCEPT !.at = "Done"]
    PROVE  o \in VenueOrder /\ o.at = "Done" /\ o.id = r.id
BY DEF VenueOrder

\* All orders that work at the venue are canceled.
LEMMA AllCanceledShape ==
    ASSUME StateTypes, World, EventsTrue, AllCanceled
    PROVE  /\ exch' \in [ClIDs -> VenueOrder] /\ Grows /\ \A c \in ClIDs : OrderTrue(c)'
           /\ \A c \in ClIDs : exch[c].at = "None" => exch'[c].at = "None"
           /\ stream' \in [up : BOOLEAN, q : Seq(Event)] /\ EventsTrue'
<1> PICK cs \in SUBSET ClIDs : cs = {c \in ClIDs : Live(c)}
    OBVIOUS
<1> PICK event : event = [c \in ClIDs |-> Happened("canceled", c, IdOf[c], 0)]
    OBVIOUS
<1>1. /\ exch' = [c \in ClIDs |-> IF Live(c) THEN [exch[c] EXCEPT !.at = "Done"] ELSE exch[c]]
      /\ InSequence(cs, event)
    BY DEF AllCanceled
<1>2. ASSUME NEW c \in ClIDs
      PROVE  /\ exch'[c] \in VenueOrder
             /\ c \notin cs => exch'[c] = exch[c]
             /\ c \in cs => /\ exch[c].at = "Live" /\ exch'[c].at = "Done"
                            /\ exch'[c].id = exch[c].id
  <2>1. PICK r \in VenueOrder : r = exch[c]
      BY DEF StateTypes
  <2>2. CASE Live(c)
    <3>1. exch'[c] = [r EXCEPT !.at = "Done"]
        BY <1>1, <2>1, <2>2
    <3>2. exch'[c] \in VenueOrder /\ exch'[c].at = "Done" /\ exch'[c].id = r.id
        BY <3>1, DoneShape
    <3> QED
        BY <2>1, <2>2, <3>2 DEF Live
  <2>3. CASE ~Live(c)
      BY <1>1, <2>1, <2>3
  <2> QED
      BY <2>2, <2>3
<1>3. exch' \in [ClIDs -> VenueOrder]
  <2>1. exch' = [c \in ClIDs |-> exch'[c]]
      BY <1>1
  <2> QED
      BY <1>2, <2>1
<1>4. /\ Grows /\ \A c \in ClIDs : OrderTrue(c)'
      /\ \A c \in ClIDs : exch[c].at = "None" => exch'[c].at = "None"
    BY <1>2, <1>3, LaterShape
<1>5. \A c \in cs : event[c] \in Event /\ EventTrue(event[c])'
  <2>1. "canceled" \in Kind /\ 0 \in 0..MaxLots
      BY AccountConstants DEF Kind
  <2>2. ASSUME NEW c \in cs
        PROVE  /\ Happened("canceled", c, IdOf[c], 0) \in Event
               /\ EventTrue(Happened("canceled", c, IdOf[c], 0))'
      BY <1>2, <2>1, HappenedTrue
  <2>3. \A c \in cs : event[c] = Happened("canceled", c, IdOf[c], 0)
      OBVIOUS
  <2> QED
      BY <2>2, <2>3
<1>6. stream' \in [up : BOOLEAN, q : Seq(Event)] /\ EventsTrue'
    BY <1>1, <1>4, <1>5, InSequenceTrue
<1> QED
    BY <1>3, <1>4, <1>6

\* A mass cancel, and the one that Clean sends.
LEMMA MassCancelArrivesStep ==
    ASSUME IInv, MassCancelArrives
    PROVE  IInv'
<1>1. /\ StateTypes /\ World /\ EventsTrue /\ "mass" \in Kinds /\ Arrival("mass")
      /\ AllCanceled /\ Arrived("mass", "ok") /\ drift' = drift
    BY DEF IInv, MassCancelArrives, Kinds
<1>2. drift' \in Int /\ "ok" \in Final
    BY <1>1 DEF StateTypes, Final
<1> QED
    BY <1>1, <1>2, AllCanceledShape, ArrivalStep

LEMMA SweepArrivesStep ==
    ASSUME IInv, SweepArrives
    PROVE  IInv'
<1>1. /\ StateTypes /\ World /\ EventsTrue /\ AllCanceled /\ sweep' = FALSE
      /\ UNCHANGED <<rules, acct, phase, call, drift, spotless, calls, faults>>
    BY DEF IInv, SweepArrives
<1>2. /\ exch' \in [ClIDs -> VenueOrder] /\ Grows /\ \A c \in ClIDs : OrderTrue(c)'
      /\ \A c \in ClIDs : exch[c].at = "None" => exch'[c].at = "None"
      /\ stream' \in [up : BOOLEAN, q : Seq(Event)] /\ EventsTrue'
    BY <1>1, AllCanceledShape
<1>3. World'
    BY <1>1, <1>2, QuietWorld
<1>4. StateTypes'
    BY <1>1, <1>2 DEF StateTypes
<1> QED
    BY <1>1, <1>2, <1>3, <1>4, OutsideStep

\* A step in which nothing happens at the venue.
LEMMA SameOrders ==
    ASSUME StateTypes, World, EventsTrue, exch' = exch
    PROVE  /\ exch' \in [ClIDs -> VenueOrder] /\ Grows /\ \A c \in ClIDs : OrderTrue(c)'
           /\ \A c \in ClIDs : exch[c].at = "None" => exch'[c].at = "None"
           /\ stream' = stream => /\ stream' \in [up : BOOLEAN, q : Seq(Event)] /\ EventsTrue'
<1>1. exch' \in [ClIDs -> VenueOrder]
    BY DEF StateTypes
<1>2. /\ Grows /\ \A c \in ClIDs : OrderTrue(c)'
      /\ \A c \in ClIDs : exch[c].at = "None" => exch'[c].at = "None"
    BY <1>1, LaterShape
<1>3. stream' = stream => stream' \in [up : BOOLEAN, q : Seq(Event)] /\ EventsTrue'
    BY DEF StateTypes, EventsTrue, EventTrue
<1> QED
    BY <1>1, <1>2, <1>3

\* A replacement of orders that all work, or of none.
LEMMA ReplaceArrivesStep ==
    ASSUME IInv, NEW k \in {"replace", "bulkReplace"}, ReplaceArrives(k)
    PROVE  IInv'
<1> PICK cs, qty : cs = call[k].cs /\ qty = call[k].qty
    OBVIOUS
<1> PICK event : event = [c \in ClIDs |-> Happened("replaced", c, IdOf[c], 0)]
    OBVIOUS
<1>1. StateTypes /\ World /\ EventsTrue /\ k \in Kinds /\ Arrival(k) /\ drift' = drift
    BY DEF IInv, ReplaceArrives, Kinds
<1>2. cs \in SUBSET ClIDs /\ qty \in Lots
  <2>1. call[k] \in CallType /\ CallTrue(k) /\ call[k].sent
      BY <1>1 DEF StateTypes, World, Arrival
  <2> QED
      BY <2>1 DEF CallType, CallTrue
<1>3. drift' \in Int /\ "ok" \in Final /\ "unknown" \in Final
    BY <1>1 DEF StateTypes, Final
<1>4. CASE \A c \in cs : Live(c)
  <2>1. /\ Arrived(k, "ok") /\ InSequence(cs, event)
        /\ exch' = [c \in ClIDs |-> IF c \in cs THEN [exch[c] EXCEPT !.leaves = qty] ELSE exch[c]]
      BY <1>4 DEF ReplaceArrives
  <2>2. ASSUME NEW c \in ClIDs
        PROVE  /\ exch'[c] \in VenueOrder
               /\ c \notin cs => exch'[c] = exch[c]
               /\ c \in cs => /\ exch[c].at = "Live" /\ exch'[c].at = "Live"
                              /\ exch'[c].id = exch[c].id /\ exch'[c].leaves = qty
    <3>1. PICK r \in VenueOrder : r = exch[c]
        BY <1>1 DEF StateTypes
    <3>2. qty \in 0..MaxLots
        BY <1>2 DEF Lots
    <3>3. \A o : o = [r EXCEPT !.leaves = qty] =>
                   o \in VenueOrder /\ o.at = r.at /\ o.id = r.id /\ o.leaves = qty
        BY <3>2 DEF VenueOrder
    <3> QED
        BY <1>4, <2>1, <3>1, <3>3 DEF Live
  <2>3. exch' \in [ClIDs -> VenueOrder]
    <3>1. exch' = [c \in ClIDs |-> exch'[c]]
        BY <2>1
    <3> QED
        BY <2>2, <3>1
  <2>4. /\ Grows /\ \A c \in ClIDs : OrderTrue(c)'
        /\ \A c \in ClIDs : exch[c].at = "None" => exch'[c].at = "None"
      BY <1>1, <1>2, <2>2, <2>3, LaterShape
  <2>5. \A c \in cs : event[c] \in Event /\ EventTrue(event[c])'
    <3>1. "replaced" \in Kind /\ 0 \in 0..MaxLots
        BY AccountConstants DEF Kind
    <3>2. ASSUME NEW c \in ClIDs
          PROVE  /\ Happened("replaced", c, IdOf[c], 0) \in Event
                 /\ EventTrue(Happened("replaced", c, IdOf[c], 0))'
        BY <3>1, HappenedTrue
    <3>3. \A c \in ClIDs : event[c] = Happened("replaced", c, IdOf[c], 0)
        OBVIOUS
    <3> QED
        BY <1>2, <3>2, <3>3
  <2>6. stream' \in [up : BOOLEAN, q : Seq(Event)] /\ EventsTrue'
      BY <1>1, <1>2, <2>1, <2>4, <2>5, InSequenceTrue
  <2> QED
      BY <1>1, <1>3, <2>1, <2>3, <2>4, <2>6, ArrivalStep
<1>5. CASE ~\A c \in cs : Live(c)
  <2>1. Arrived(k, "unknown") /\ exch' = exch /\ stream' = stream
      BY <1>5 DEF ReplaceArrives
  <2> QED
      BY <1>1, <1>3, <2>1, SameOrders, ArrivalStep
<1> QED
    BY <1>4, <1>5

\* A refusal, with or without events.
LEMMA RefuseStep ==
    ASSUME IInv, NEW k \in Kinds, Refuse(k)
    PROVE  IInv'
<1> PICK event : event = [c \in ClIDs |-> Happened("rejected", c, IdOf[c], 0)]
    OBVIOUS
<1>1. /\ StateTypes /\ World /\ EventsTrue /\ Arrival(k) /\ Arrived(k, "refused")
      /\ exch' = exch /\ drift' = drift
    BY DEF IInv, Refuse
<1>2. drift' \in Int /\ "refused" \in Final
    BY <1>1 DEF StateTypes, Final
<1>3. /\ exch' \in [ClIDs -> VenueOrder] /\ Grows /\ \A c \in ClIDs : OrderTrue(c)'
      /\ \A c \in ClIDs : exch[c].at = "None" => exch'[c].at = "None"
    BY <1>1, SameOrders
<1>4. stream' \in [up : BOOLEAN, q : Seq(Event)] /\ EventsTrue'
  <2>1. CASE k \in {"new", "bulk"}
    <3>1. PICK cs \in SUBSET call[k].cs : InSequence(cs, event)
        BY <2>1 DEF Refuse
    <3>2. cs \in SUBSET ClIDs
        BY <1>1 DEF StateTypes, CallType
    <3>3. \A c \in cs : event[c] \in Event /\ EventTrue(event[c])'
      <4>1. "rejected" \in Kind /\ 0 \in 0..MaxLots
          BY AccountConstants DEF Kind
      <4>2. ASSUME NEW c \in ClIDs
            PROVE  /\ Happened("rejected", c, IdOf[c], 0) \in Event
                   /\ EventTrue(Happened("rejected", c, IdOf[c], 0))'
          BY <4>1, HappenedTrue
      <4>3. \A c \in ClIDs : event[c] = Happened("rejected", c, IdOf[c], 0)
          OBVIOUS
      <4> QED
          BY <3>2, <4>2, <4>3
    <3> QED
        BY <1>1, <1>3, <3>1, <3>2, <3>3, InSequenceTrue
  <2>2. CASE k \notin {"new", "bulk"}
    <3>1. stream' = stream
        BY <2>2 DEF Refuse
    <3> QED
        BY <1>1, <3>1, SameOrders
  <2> QED
      BY <2>1, <2>2
<1> QED
    BY <1>1, <1>2, <1>3, <1>4, ArrivalStep

\* An execution.
LEMMA TradeStep ==
    ASSUME IInv, NEW c \in ClIDs, NEW qty \in Lots, Trade(c, qty)
    PROVE  IInv'
<1>1. /\ StateTypes /\ World /\ EventsTrue
      /\ Live(c) /\ qty <= exch[c].leaves /\ drift' = drift + qty
      /\ exch' = [exch EXCEPT ![c].leaves = @ - qty, ![c].cum = @ + qty,
                              ![c].at = IF qty = exch[c].leaves THEN "Done" ELSE "Live"]
      /\ UNCHANGED <<rules, acct, phase, call, sweep, spotless, calls, faults>>
    BY DEF IInv, Trade
<1>2. PICK r \in VenueOrder : r = exch[c] /\ r.leaves \in Lots /\ qty <= r.leaves /\ r.at = "Live"
    BY <1>1 DEF StateTypes, World, OrderTrue, Live
<1>3. PICK o : o = [r EXCEPT !.leaves = r.leaves - qty, !.cum = r.cum + qty,
                             !.at = IF qty = r.leaves THEN "Done" ELSE "Live"]
    OBVIOUS
<1>4. /\ o \in VenueOrder /\ o.id = r.id /\ o.at \in {"Live", "Done"}
      /\ o.at = "Live" => o.leaves \in Lots
  <2>1. /\ qty \in Nat /\ r.leaves - qty \in 0..MaxLots /\ r.cum + qty \in Nat
        /\ qty # r.leaves => r.leaves - qty \in Lots
      BY <1>2, AccountConstants DEF VenueOrder, Lots
  <2>2. o \in VenueOrder
      BY <1>3, <2>1 DEF VenueOrder
  <2>3. /\ o.id = r.id /\ o.at = (IF qty = r.leaves THEN "Done" ELSE "Live")
        /\ o.leaves = r.leaves - qty
      BY <1>3 DEF VenueOrder
  <2> QED
      BY <2>1, <2>2, <2>3
<1>5. /\ exch' \in [ClIDs -> VenueOrder] /\ exch'[c] = o
      /\ \A d \in ClIDs \ {c} : exch'[d] = exch[d]
  <2>1. exch \in [ClIDs -> VenueOrder]
      BY <1>1 DEF StateTypes
  <2>2. exch' = [exch EXCEPT ![c] = o]
      BY <1>1, <1>2, <1>3, <2>1
  <2> QED
      BY <1>4, <2>1, <2>2
<1>6. /\ Grows /\ \A d \in ClIDs : OrderTrue(d)'
      /\ \A d \in ClIDs : exch[d].at = "None" => exch'[d].at = "None"
    BY <1>1, <1>2, <1>4, <1>5, LaterShape
<1>7. PICK S : S = {e \in Event : EventTrue(e)'}
    OBVIOUS
<1>8. PICK trade \in S, full \in S :
        /\ trade = Happened("trade", c, IdOf[c], qty) /\ full = Happened("filled", c, IdOf[c], qty)
  <2>1. "trade" \in Kind /\ "filled" \in Kind /\ qty \in 0..MaxLots
      BY DEF Kind, Lots
  <2> QED
      BY <1>7, <2>1, HappenedTrue
<1>9. PICK es \in Seq(S) : Emit(es)
  <2>1. CASE qty = exch[c].leaves
    <3>1. PICK events \in Executed(c, qty) : Emit(events)
        BY <2>1 DEF Trade
    <3> QED
        BY <1>8, <3>1, ExecutedTrue
  <2>2. CASE qty # exch[c].leaves
    <3>1. Emit(<<trade>>)
        BY <1>8, <2>2 DEF Trade
    <3>2. <<trade>> \in Seq(S)
        BY Singletons
    <3> QED
        BY <3>1, <3>2
  <2> QED
      BY <2>1, <2>2
<1>10. stream' \in [up : BOOLEAN, q : Seq(Event)] /\ EventsTrue'
    BY <1>1, <1>6, <1>7, <1>9, EmitAllTrue
<1>11. World'
    BY <1>1, <1>6, QuietWorld
<1>12. StateTypes' /\ acct' = acct
  <2>1. drift' \in Int
      BY <1>1 DEF StateTypes, Lots
  <2> QED
      BY <1>1, <1>5, <1>10, <2>1 DEF StateTypes
<1> QED
    BY <1>6, <1>10, <1>11, <1>12, OutsideStep

\* The bound on faults.
LEMMA FaultCounts ==
    ASSUME StateTypes, Fault
    PROVE  calls' \in 0..MaxCalls /\ faults' \in 0..MaxFaults
<1>1. faults \in 0..MaxFaults /\ calls \in 0..MaxCalls
    BY DEF StateTypes
<1> QED
    BY <1>1, VenueOrderBounds DEF Fault

\* An answer that is lost tells of nothing.
LEMMA LoseAnswerStep ==
    ASSUME IInv, NEW k \in Kinds, LoseAnswer(k)
    PROVE  IInv'
<1>1. /\ StateTypes /\ World /\ EventsTrue /\ call[k].ans = "waiting" /\ Fault
      /\ UNCHANGED <<rules, acct, phase, sweep, stream, exch, drift>>
      /\ spotless' = (spotless /\ k \notin {"replace", "bulkReplace"})
    BY DEF IInv, LoseAnswer
<1>2. PICK a \in {"timeout", "refused"} : call' = [call EXCEPT ![k].ans = a]
    BY DEF LoseAnswer
<1>3. PICK r \in CallType : r = call[k]
    BY <1>1 DEF StateTypes
<1>4. PICK n \in CallType :
        /\ n = [r EXCEPT !.ans = a] /\ n.sent = r.sent /\ n.cs = r.cs /\ n.qty = r.qty /\ n.ans = a
  <2>1. \A n : n = [r EXCEPT !.ans = a] =>
          /\ n \in CallType /\ n.sent = r.sent /\ n.cs = r.cs /\ n.qty = r.qty /\ n.ans = a
      BY DEF CallType, Final
  <2> QED
      BY <2>1
<1>5. call' = [call EXCEPT ![k] = n] /\ call'[k] = n
    BY <1>1, <1>2, <1>3, <1>4 DEF StateTypes
<1>6. /\ Grows /\ (\A c \in ClIDs : OrderTrue(c)')
      /\ \A c \in ClIDs : exch[c].at = "None" => exch'[c].at = "None"
      /\ stream' \in [up : BOOLEAN, q : Seq(Event)] /\ EventsTrue'
    BY <1>1, SameOrders
<1>7. CallTrue(k)'
  <2>1. CallTrue(k)
      BY <1>1 DEF World
  <2> QED
      BY <1>1, <1>3, <1>4, <1>5, <2>1 DEF CallTrue
<1>8. World' /\ call' \in [Kinds -> CallType]
  <2>1. n.sent /\ k \in {"new", "bulk"} => call[k].sent /\ n.cs = call[k].cs
      BY <1>3, <1>4
  <2> QED
      BY <1>1, <1>5, <1>6, <1>7, <2>1, OneCallWorld
<1>9. StateTypes' /\ acct' = acct
  <2>1. calls' \in 0..MaxCalls /\ faults' \in 0..MaxFaults
      BY <1>1, FaultCounts
  <2>2. {sweep, spotless}' \subseteq BOOLEAN
      BY <1>1 DEF StateTypes
  <2> QED
      BY <1>1, <1>8, <2>1, <2>2 DEF StateTypes
<1> QED
    BY <1>6, <1>8, <1>9, OutsideStep

\* A socket that fails keeps what it has delivered.
LEMMA SocketFailsStep ==
    ASSUME IInv, SocketFails
    PROVE  IInv'
<1>1. /\ StateTypes /\ World /\ EventsTrue /\ stream' = [stream EXCEPT !.up = FALSE]
      /\ spotless' = FALSE /\ Fault
      /\ UNCHANGED <<rules, acct, phase, call, sweep, exch, drift>>
    BY DEF IInv, SocketFails
<1>2. stream' \in [up : BOOLEAN, q : Seq(Event)] /\ stream'.q = stream.q
    BY <1>1 DEF StateTypes
<1>3. /\ Grows /\ (\A c \in ClIDs : OrderTrue(c)')
      /\ \A c \in ClIDs : exch[c].at = "None" => exch'[c].at = "None"
    BY <1>1, SameOrders
<1>4. EventsTrue'
    BY <1>1, <1>2 DEF EventsTrue, EventTrue
<1>5. World'
    BY <1>1, <1>3, QuietWorld
<1>6. StateTypes'
  <2>1. calls' \in 0..MaxCalls /\ faults' \in 0..MaxFaults
      BY <1>1, FaultCounts
  <2>2. {sweep', spotless'} \subseteq BOOLEAN
      BY <1>1 DEF StateTypes
  <2> QED
      BY <1>1, <1>2, <2>1, <2>2 DEF StateTypes
<1> QED
    BY <1>1, <1>3, <1>4, <1>5, <1>6, OutsideStep

\* Every step of the venue.
LEMMA VenueStep ==
    ASSUME IInv,
           \/ \E k \in Kinds : Arrives(k) \/ LoseAnswer(k)
           \/ SweepArrives \/ SocketFails
           \/ \E c \in ClIDs, qty \in Lots : Trade(c, qty)
    PROVE  IInv'
<1>1. ASSUME NEW k \in Kinds, Arrives(k) PROVE IInv'
    BY <1>1, OrdersRestStep, OrderFillsStep, OrderExpiresStep, CancelArrivesStep,
       MassCancelArrivesStep, ReplaceArrivesStep, RefuseStep DEF Arrives
<1> QED
    BY <1>1, LoseAnswerStep, SweepArrivesStep, SocketFailsStep, TradeStep

----------------------------------------------------------------------------
(***************************************************************************)
(* The users.                                                              *)
(***************************************************************************)

\* What a request has to show.
LEMMA RequestStep ==
    ASSUME IInv, NEW k \in Kinds, Request(k), spotless' \in BOOLEAN,
           NEW b, Linked(b), acct' = b,
           NEW n \in CallType, call' = [call EXCEPT ![k] = n], n.ans \in {"none", "waiting"},
           n.sent /\ k \in {"new", "bulk"} => /\ \A j \in Kinds : n.cs \cap call[j].cs = {}
                                              /\ \A c \in n.cs : exch[c].at = "None",
           n.sent /\ k \notin {"cancel", "mass"} => n.qty \in Lots,
           k \in {"new", "cancel", "replace"} /\ (n.sent \/ n.ans # "none") =>
               \E c \in ClIDs : n.cs = {c}
    PROVE  IInv'
<1>1. /\ StateTypes /\ World /\ EventsTrue /\ calls' = calls + 1 /\ calls < MaxCalls
      /\ UNCHANGED <<rules, phase, sweep, stream, exch, drift, faults>>
    BY DEF IInv, Request
<1>2. /\ Grows /\ (\A c \in ClIDs : OrderTrue(c)')
      /\ \A c \in ClIDs : exch[c].at = "None" => exch'[c].at = "None"
      /\ stream' \in [up : BOOLEAN, q : Seq(Event)] /\ EventsTrue'
    BY <1>1, SameOrders
<1>3. call'[k] = n
    BY <1>1 DEF StateTypes
<1>4. CallTrue(k)'
    BY <1>1, <1>3 DEF CallTrue
<1>5. World' /\ call' \in [Kinds -> CallType]
    BY <1>1, <1>2, <1>4, OneCallWorld
<1>6. calls' \in 0..MaxCalls
    BY <1>1, VenueOrderBounds DEF StateTypes
<1>7. StateTypes'
  <2>1. {sweep', spotless'} \subseteq BOOLEAN
      BY <1>1 DEF StateTypes
  <2> QED
      BY <1>1, <1>5, <1>6, <2>1 DEF StateTypes
<1> QED
    BY <1>1, <1>2, <1>5, <1>7, AccountStep

\* A request the account takes.
LEMMA AskStep ==
    ASSUME IInv, NEW k \in Kinds, Request(k), spotless' \in BOOLEAN,
           NEW cs \in SUBSET ClIDs, NEW qty \in 0..MaxLots, NEW b, Linked(b),
           NEW answered \in BOOLEAN, Ask(k, cs, qty, b, answered),
           k \in {"new", "bulk"} => cs \subseteq Unused,
           k \notin {"cancel", "mass"} => qty \in Lots,
           k \in {"new", "cancel", "replace"} => \E c \in ClIDs : cs = {c}
    PROVE  IInv'
<1>1. PICK n : n = [sent |-> TRUE, cs |-> cs, qty |-> qty, ans |-> "waiting", owed |-> ~answered]
    OBVIOUS
<1>4. n \in CallType /\ n.sent /\ n.cs = cs /\ n.qty = qty /\ n.ans = "waiting"
    BY <1>1 DEF CallType
<1>2. acct' = b /\ call' = [call EXCEPT ![k] = n]
    BY <1>1 DEF Ask
<1>3. k \in {"new", "bulk"} => /\ \A j \in Kinds : cs \cap call[j].cs = {}
                               /\ \A c \in cs : exch[c].at = "None"
    BY DEF Unused
<1> QED
    BY <1>2, <1>3, <1>4, RequestStep

\* A request the account refuses.
LEMMA RefusedStep ==
    ASSUME IInv, NEW k \in {"cancel", "replace"}, Request(k), spotless' \in BOOLEAN,
           NEW c \in ClIDs, NEW qty \in 0..MaxLots, k = "replace" => qty \in Lots,
           Refused(k, c, qty)
    PROVE  IInv'
<1>1. k \in Kinds /\ call \in [Kinds -> CallType] /\ call[k] = NoCall /\ Linked(acct) /\ acct' = acct
    BY DEF Kinds, IInv, StateTypes, Request, Refused
<1>2. NoCall \in CallType
    BY AccountConstants DEF NoCall, CallType
<1>3. CASE rules.forward
  <2>1. PICK n : n = [NoCall EXCEPT !.sent = TRUE, !.cs = {c}, !.qty = qty]
      OBVIOUS
  <2>2. n \in CallType /\ n.sent /\ n.cs = {c} /\ n.qty = qty /\ n.ans = "none"
      BY <2>1 DEF NoCall, CallType
  <2>3. call' = [call EXCEPT ![k] = n]
      BY <1>3, <2>1 DEF Refused
  <2> QED
      BY <1>1, <2>2, <2>3, RequestStep
<1>4. CASE ~rules.forward
  <2>1. call' = call
      BY <1>4 DEF Refused
  <2>2. call' = [call EXCEPT ![k] = NoCall]
      BY <1>1, <2>1
  <2>3. ~NoCall.sent /\ NoCall.ans = "none"
      BY DEF NoCall
  <2> QED
      BY <1>1, <1>2, <2>2, <2>3, RequestStep
<1> QED
    BY <1>3, <1>4

\* The flags of a venue are flags.
LEMMA Flags ==
    ASSUME StateTypes
    PROVE  /\ rules \in Rules /\ rules.twice \in BOOLEAN /\ rules.cleans \in BOOLEAN
           /\ TRUE \in BOOLEAN
<1>1. rules \in Rules
    BY VenueOrderRules DEF StateTypes
<1> QED
    BY <1>1 DEF Rules

\* Lots are quantities, and so is nothing.
LEMMA Quantities == 0 \in 0..MaxLots /\ 1 \in Lots /\ \A qty \in Lots : qty \in 0..MaxLots
BY AccountConstants DEF Lots

\* One new order.
LEMMA OnNewOrderSingleStep ==
    ASSUME IInv, NEW qty \in Lots, OnNewOrderSingleRequest(qty)
    PROVE  IInv'
<1> PICK c : c = CHOOSE d \in Unused : TRUE
    OBVIOUS
<1>1. /\ Request("new") /\ Unused # {} /\ "new" \in Kinds /\ StateTypes /\ Linked(acct)
      /\ Ask("new", {c}, qty, NewOrder(acct, c, "Buy", "Limit", 1, qty), rules.twice)
      /\ spotless' = spotless
    BY DEF OnNewOrderSingleRequest, Kinds, IInv
<1>2. c \in Unused /\ c \in ClIDs /\ ~Referenced(acct, c)
    BY <1>1 DEF Unused
<1>3. Linked(NewOrder(acct, c, "Buy", "Limit", 1, qty))
    BY <1>1, <1>2, NewOrderLinked
<1>4. qty \in 0..MaxLots /\ spotless' \in BOOLEAN /\ rules.twice \in BOOLEAN
    BY <1>1, Flags DEF Lots, StateTypes
<1>5. {c} \in SUBSET ClIDs /\ {c} \subseteq Unused
    BY <1>2
<1> QED
    BY <1>1, <1>2, <1>3, <1>4, <1>5, AskStep

\* Several new orders.
LEMMA OnNewOrderBulkStep ==
    ASSUME IInv, NEW cs \in SUBSET ClIDs, OnNewOrderBulkRequest(cs, 1)
    PROVE  IInv'
<1>1. /\ Request("bulk") /\ cs \subseteq Unused /\ "bulk" \in Kinds /\ StateTypes /\ Linked(acct)
      /\ spotless' = spotless
    BY DEF OnNewOrderBulkRequest, Kinds, IInv
<1>2. PICK a : a = acct
    OBVIOUS
<1>3. PICK b : b = FoldSet(LAMBDA c, d : NewOrder(d, c, "Buy", "Limit", 1, 1), a, cs)
    OBVIOUS
<1>4. 1 \in Lots /\ 1 \in 0..MaxLots
    BY AccountConstants DEF Lots
<1>5. Linked(b)
  <2>1. \A c \in cs : ~Referenced(a, c)
      BY <1>1, <1>2 DEF Unused
  <2> QED
      BY <1>1, <1>2, <1>3, <1>4, <2>1, NewOrdersLinked
<1>6. Ask("bulk", cs, 1, b, TRUE)
    BY <1>2, <1>3 DEF OnNewOrderBulkRequest
<1>7. spotless' \in BOOLEAN
    BY <1>1 DEF StateTypes
<1> QED
    BY <1>1, <1>4, <1>5, <1>6, <1>7, AskStep

\* A cancel, by either id.
LEMMA OnOrderCancelStep ==
    ASSUME IInv, NEW c \in ClIDs, OnOrderCancelRequest(c)
    PROVE  IInv'
<1> PICK a : a = acct
    OBVIOUS
<1> PICK k : k = CancelKey(c)
    OBVIOUS
<1>1. /\ Request("cancel") /\ "cancel" \in Kinds /\ StateTypes /\ Linked(a)
      /\ 0 \in 0..MaxLots /\ {c} \in SUBSET ClIDs
    BY AccountConstants DEF OnOrderCancelRequest, Kinds, IInv
<1>2. spotless' \in BOOLEAN /\ rules.twice \in BOOLEAN
  <2>1. spotless' = (spotless /\ acct.orders[c].status # "PendingNew")
      BY DEF OnOrderCancelRequest
  <2> QED
      BY <1>1, <2>1, Flags
<1>3. CASE CancelOrderRejected(a, k)
  <2>1. Refused("cancel", c, 0)
      BY <1>3 DEF OnOrderCancelRequest
  <2> QED
      BY <1>1, <1>2, <2>1, RefusedStep
<1>4. CASE ~CancelOrderRejected(a, k)
  <2>1. Ask("cancel", {c}, 0, CancelOrder(a, k), rules.twice)
      BY <1>4 DEF OnOrderCancelRequest
  <2>2. PICK b : b = CancelOrder(a, k)
      OBVIOUS
  <2>3. Linked(b)
      BY <1>1, <1>4, <2>2, CancelOrderInv, CancelOrderMoves, LinkedMovesNothing DEF Linked
  <2> QED
      BY <1>1, <1>2, <2>1, <2>2, <2>3, AskStep
<1> QED
    BY <1>3, <1>4

\* A replacement.
LEMMA OnOrderReplaceStep ==
    ASSUME IInv, NEW c \in ClIDs, NEW qty \in Lots, OnOrderReplaceRequest(c, qty)
    PROVE  IInv'
<1> PICK a : a = acct
    OBVIOUS
<1>1. /\ Request("replace") /\ "replace" \in Kinds /\ StateTypes /\ Linked(a)
      /\ qty \in 0..MaxLots /\ {c} \in SUBSET ClIDs
    BY AccountConstants DEF OnOrderReplaceRequest, Kinds, IInv, Lots
<1>2. spotless' \in BOOLEAN /\ rules.twice \in BOOLEAN
  <2>1. spotless' = (spotless /\ rules.replace # "answer")
      BY DEF OnOrderReplaceRequest
  <2> QED
      BY <1>1, <2>1, Flags
<1>3. CASE ReplaceOrderRejected(a, c)
  <2>1. Refused("replace", c, qty)
      BY <1>3 DEF OnOrderReplaceRequest
  <2> QED
      BY <1>1, <1>2, <2>1, RefusedStep
<1>4. CASE ~ReplaceOrderRejected(a, c)
  <2>1. Ask("replace", {c}, qty, ReplaceOrder(a, c, NoPrice, qty), rules.twice)
      BY <1>4 DEF OnOrderReplaceRequest
  <2>2. PICK b : b = ReplaceOrder(a, c, NoPrice, qty)
      OBVIOUS
  <2>3. Linked(b)
      BY <1>1, <1>4, <2>2, ReplaceOrderInv, ReplaceOrderMoves, LinkedMovesNothing DEF Linked
  <2> QED
      BY <1>1, <1>2, <2>1, <2>2, <2>3, AskStep
<1> QED
    BY <1>3, <1>4

\* Several replacements, all or none.
LEMMA OnBulkOrderReplaceStep ==
    ASSUME IInv, NEW cs \in SUBSET ClIDs, NEW qty \in Lots, OnBulkOrderReplaceRequest(cs, qty)
    PROVE  IInv'
<1> PICK a : a = acct
    OBVIOUS
<1> PICK b : b = FoldSet(LAMBDA c, d : ReplaceOrder(d, c, NoPrice, qty), a, cs)
    OBVIOUS
<1>1. /\ Request("bulkReplace") /\ "bulkReplace" \in Kinds /\ StateTypes /\ Linked(a)
      /\ \A c \in cs : ~ReplaceOrderRejected(a, c)
    BY DEF OnBulkOrderReplaceRequest, Kinds, IInv
<1>5. qty \in 0..MaxLots
    BY Quantities
<1>2. spotless' \in BOOLEAN
    BY <1>1 DEF OnBulkOrderReplaceRequest, StateTypes
<1>3. Linked(b)
  <2>1. \A c \in cs : c \in a.ordersClID /\ a.orders[c].status \in OpenStatus
      BY <1>1, FindsOwn DEF ReplaceOrderRejected
  <2> QED
      BY <1>1, <2>1, ReplacementsLinked
<1>4. Ask("bulkReplace", cs, qty, b, TRUE)
    BY DEF OnBulkOrderReplaceRequest
<1> QED
    BY <1>1, <1>2, <1>3, <1>4, <1>5, AskStep

\* All orders that are open are to be canceled.
LEMMA OnOrderMassCancelStep ==
    ASSUME IInv, OnOrderMassCancelRequest
    PROVE  IInv'
<1> PICK a : a = acct
    OBVIOUS
<1> PICK cs : cs = {c \in a.ordersClID : a.orders[c].status \in OpenStatus}
    OBVIOUS
<1> PICK b : b = FoldSet(LAMBDA c, d : CancelOrder(d, c), a, cs)
    OBVIOUS
<1>1. Request("mass") /\ "mass" \in Kinds /\ StateTypes /\ Linked(a)
    BY DEF OnOrderMassCancelRequest, Kinds, IInv
<1>5. 0 \in 0..MaxLots
    BY Quantities
<1>2. spotless' \in BOOLEAN /\ cs \in SUBSET ClIDs
    BY <1>1 DEF OnOrderMassCancelRequest, StateTypes, Linked, AccountInv, AccountType
<1>3. Linked(b)
  <2>1. \A c \in cs : c \in a.ordersClID /\ a.orders[c].status \in CancelableStatus
      BY DEF OpenStatus, CancelableStatus
  <2> QED
      BY <1>1, <1>2, <2>1, CancelsLinked
<1>4. Ask("mass", cs, 0, b, TRUE)
    BY DEF OnOrderMassCancelRequest
<1> QED
    BY <1>1, <1>2, <1>3, <1>4, <1>5, AskStep

\* Every request of a user.
LEMMA UsersStep ==
    ASSUME IInv, Users
    PROVE  IInv'
BY OnNewOrderSingleStep, OnOrderReplaceStep, OnNewOrderBulkStep, OnBulkOrderReplaceStep,
   OnOrderCancelStep, OnOrderMassCancelStep DEF Users

----------------------------------------------------------------------------
(***************************************************************************)
(* Continuations.                                                          *)
(***************************************************************************)

\* What a step of the listener leaves of the account agrees with the venue.
Settles ==
    /\ phase' \in {"running", "failed"}
    /\ \E b : Linked(b) /\ acct' = b

\* A continuation that settles what was asked.
LEMMA ResumeStep ==
    ASSUME IInv, NEW k \in Kinds, NEW answers, Resume(k, answers), Settles
    PROVE  IInv'
<1>1. /\ StateTypes /\ World /\ EventsTrue /\ CallTrue(k)
      /\ UNCHANGED <<rules, sweep, stream, exch, drift, spotless, calls, faults>>
    BY DEF IInv, Resume, World
<1>2. PICK w : w = Forgotten(k)
    OBVIOUS
<1>3. w \in BOOLEAN
    BY <1>2 DEF Forgotten
<1>4. PICK n : n = IF call[k].sent THEN [call[k] EXCEPT !.ans = "none", !.owed = w]
                                   ELSE [NoCall EXCEPT !.owed = w]
    OBVIOUS
<1>5. call[k] \in CallType /\ NoCall \in CallType /\ ~NoCall.sent /\ NoCall.ans = "none"
    BY <1>1, Quantities DEF StateTypes, NoCall, CallType
<1>6. /\ n \in CallType /\ n.ans = "none"
      /\ n.sent => call[k].sent /\ n.cs = call[k].cs /\ n.qty = call[k].qty
  <2>1. CASE call[k].sent
      BY <1>3, <1>4, <1>5, <2>1 DEF CallType
  <2>2. CASE ~call[k].sent
      BY <1>3, <1>4, <1>5, <2>2 DEF CallType
  <2> QED
      BY <2>1, <2>2
<1>7. call' = [call EXCEPT ![k] = n]
    BY <1>2, <1>4 DEF Resume
<1>8. /\ Grows /\ (\A c \in ClIDs : OrderTrue(c)')
      /\ \A c \in ClIDs : exch[c].at = "None" => exch'[c].at = "None"
      /\ stream' \in [up : BOOLEAN, q : Seq(Event)] /\ EventsTrue'
    BY <1>1, SameOrders
<1>9. CallTrue(k)'
  <2>1. call'[k] = n
      BY <1>1, <1>7 DEF StateTypes
  <2> QED
      BY <1>1, <1>6, <2>1 DEF CallTrue
<1>10. World' /\ call' \in [Kinds -> CallType]
    BY <1>1, <1>6, <1>7, <1>8, <1>9, OneCallWorld
<1>11. phase' \in {"running", "failed"}
    BY DEF Settles
<1>12. StateTypes'
    BY <1>1, <1>10, <1>11 DEF StateTypes
<1>13. PICK b : Linked(b) /\ acct' = b
    BY DEF Settles
<1> QED
    BY <1>1, <1>8, <1>10, <1>12, <1>13, AccountStep

\* A continuation that leaves the account alone, or an error that fails the listener.
LEMMA NothingSettles ==
    ASSUME IInv, acct' = acct, phase' \in {"failed", phase}
    PROVE  Settles
<1> PICK a : a = acct
    OBVIOUS
<1> QED
    BY DEF Settles, IInv, StateTypes

\* An error that fails the listener, or none.
LEMMA FailIfPhase ==
    ASSUME IInv, NEW error, FailIf(error)
    PROVE  phase' \in {"running", "failed"}
BY DEF FailIf, IInv, StateTypes

\* Orders of a request that was refused.
LEMMA DropSettles ==
    ASSUME IInv, NEW cs \in SUBSET ClIDs, Drop(cs) \/ DropIfThere(cs)
    PROVE  Settles
<1> PICK a : a = acct
    OBVIOUS
<1>1. PICK done \in SUBSET cs :
          /\ \A c \in done : ~RejectNewOrderError(a, c)
          /\ acct' = FoldSet(LAMBDA c, b : RejectNewOrder(b, c), a, done)
          /\ \E error : FailIf(error)
    BY DEF Drop, DropIfThere, ForAll
<1>2. \A c \in done : c \in a.ordersClID
    BY <1>1 DEF RejectNewOrderError
<1>3. Linked(FoldSet(LAMBDA c, b : RejectNewOrder(b, c), a, done))
    BY <1>2, DropsLinked DEF IInv
<1> QED
    BY <1>1, <1>3, FailIfPhase DEF Settles

\* The orders of a request, and what its answer says of them.
LEMMA CallOrders ==
    ASSUME IInv, NEW k \in Kinds
    PROVE  call[k].cs \in SUBSET ClIDs /\ CallTrue(k)
BY DEF IInv, StateTypes, CallType, World

\* Orders the venue took; one whose answer says so is done already.
LEMMA AcceptSettles ==
    ASSUME IInv, NEW cs \in SUBSET ClIDs, NEW ans \in Final, Accept(cs, ans),
           ans = "expired" => \A c \in cs : exch[c].at = "Done"
    PROVE  Settles
<1> PICK a : a = acct
    OBVIOUS
<1>1. PICK done \in SUBSET cs :
          /\ acct' = FoldSet(LAMBDA c, b : Accepted(b, c, ans), a, done)
          /\ \E error : FailIf(error)
    BY DEF Accept, ForAll
<1>2. Linked(FoldSet(LAMBDA c, b : Accepted(b, c, ans), a, done))
  <2>1. done \in SUBSET ClIDs /\ \A c \in done : (ans = "expired" => exch[c].at = "Done")
      BY <1>1
  <2>2. Linked(a)
      BY DEF IInv
  <2> QED
      BY <2>1, <2>2, AcceptancesLinked
<1> QED
    BY <1>1, <1>2, FailIfPhase DEF Settles

\* The answer to a new order.
LEMMA NewOrderAnsweredStep ==
    ASSUME IInv, NewOrderAnswered
    PROVE  IInv'
<1> PICK all, ans : all = call["new"].cs /\ ans = call["new"].ans
    OBVIOUS
<1>1. "new" \in Kinds
    BY DEF Kinds
<1>2. all \in SUBSET ClIDs /\ (ans = "expired" => \A c \in all : exch[c].at = "Done")
    BY <1>1, CallOrders DEF CallTrue
<1>3. \/ Resume("new", {"ok", "filled", "expired"}) /\ Accept(all, ans)
      \/ Resume("new", {"timeout"}) /\ Drop(all)
      \/ Resume("new", {"refused"}) /\ DropIfThere(all)
    BY DEF NewOrderAnswered
<1>4. CASE Resume("new", {"ok", "filled", "expired"}) /\ Accept(all, ans)
  <2>1. ans \in Final
      BY <1>4 DEF Resume, Final
  <2> QED
      BY <1>1, <1>2, <1>4, <2>1, AcceptSettles, ResumeStep
<1>5. CASE \/ Resume("new", {"timeout"}) /\ Drop(all)
           \/ Resume("new", {"refused"}) /\ DropIfThere(all)
    BY <1>1, <1>2, <1>5, DropSettles, ResumeStep
<1> QED
    BY <1>3, <1>4, <1>5

\* The answer to several.
LEMMA BulkAnsweredStep ==
    ASSUME IInv, BulkAnswered
    PROVE  IInv'
<1> PICK a : a = acct
    OBVIOUS
<1>1. "bulk" \in Kinds /\ Linked(a)
    BY DEF Kinds, IInv
<1>2. PICK all \in SUBSET ClIDs : all = call["bulk"].cs
    BY <1>1, CallOrders
<1>3. CASE /\ Resume("bulk", {"ok"})
           /\ ForAll(all, LAMBDA c : ConfirmNewOrderError(acct, c), Confirm)
  <2>1. PICK done \in SUBSET all :
            /\ \A c \in done : ~ConfirmNewOrderError(a, c)
            /\ acct' = FoldSet(LAMBDA c, b : Confirm(b, c), a, done)
            /\ \E error : FailIf(error)
      BY <1>3 DEF ForAll
  <2>2. done \in SUBSET ClIDs /\ \A c \in done : c \in a.ordersClID
      BY <2>1 DEF ConfirmNewOrderError
  <2>3. Linked(FoldSet(LAMBDA c, b : Confirm(b, c), a, done))
      BY <1>1, <2>2, ConfirmationsLinked
  <2>4. Settles
      BY <2>1, <2>3, FailIfPhase DEF Settles
  <2> QED
      BY <1>1, <1>3, <2>4, ResumeStep
<1>4. CASE Resume("bulk", {"timeout", "refused"}) /\ Drop(all)
    BY <1>1, <1>2, <1>4, DropSettles, ResumeStep
<1> QED
    BY <1>2, <1>3, <1>4 DEF BulkAnswered

\* A cancel the venue refuses.
LEMMA CancelRefusedSettles ==
    ASSUME IInv, NEW k \in Kinds, NEW u \in BOOLEAN, CancelRefused(k, u)
    PROVE  Settles
<1> PICK a : a = acct
    OBVIOUS
<1>1. Linked(a)
    BY DEF IInv
<1>2. PICK all \in SUBSET ClIDs : all = call[k].cs
    BY CallOrders
<1>3. PICK done \in SUBSET all :
          /\ \A c \in done : ~RejectCancelOrderError(a, c, u)
          /\ acct' = FoldSet(LAMBDA c, b : RejectCancelOrder(b, c, u), a, done)
          /\ \E error : FailIf(error)
    BY <1>2 DEF CancelRefused, ForAll
<1>4. done \in SUBSET ClIDs /\ \A c \in done : c \in a.ordersClID
    BY <1>1, <1>3, FindsOwn DEF RejectCancelOrderError
<1>5. Linked(FoldSet(LAMBDA c, b : RejectCancelOrder(b, c, u), a, done))
    BY <1>1, <1>4, RefusedCancelsLinked
<1> QED
    BY <1>3, <1>5, FailIfPhase DEF Settles

\* The answer to a cancel: what it says is canceled is done at the venue.
LEMMA CancelAnsweredStep ==
    ASSUME IInv, CancelAnswered
    PROVE  IInv'
<1> PICK a : a = acct
    OBVIOUS
<1>1. "cancel" \in Kinds /\ Linked(a) /\ TRUE \in BOOLEAN /\ FALSE \in BOOLEAN
    BY DEF Kinds, IInv
<1>2. PICK all \in SUBSET ClIDs : all = call["cancel"].cs
    BY <1>1, CallOrders
<1>3. CASE Resume("cancel", {"ok"}) /\ rules.cancels
           /\ ForAll(all, LAMBDA c : ~Known(acct, c), ConfirmCancelOrder)
  <2>1. PICK done \in SUBSET all :
            /\ \A c \in done : Known(a, c)
            /\ acct' = FoldSet(LAMBDA c, b : ConfirmCancelOrder(b, c), a, done)
            /\ \E error : FailIf(error)
      BY <1>3 DEF ForAll
  <2>2. \A c \in all : exch[c].at = "Done"
      BY <1>1, <1>2, <1>3, CallOrders DEF CallTrue, Resume
  <2>3. done \in SUBSET ClIDs /\ \A c \in done : c \in a.ordersClID /\ exch[c].at = "Done"
      BY <1>1, <2>1, <2>2, FindsOwn
  <2>4. Linked(FoldSet(LAMBDA c, b : ConfirmCancelOrder(b, c), a, done))
      BY <1>1, <2>3, CancellationsLinked
  <2>5. Settles
      BY <2>1, <2>4, FailIfPhase DEF Settles
  <2> QED
      BY <1>1, <1>3, <2>5, ResumeStep
<1>4. CASE Resume("cancel", {"ok"}) /\ UNCHANGED <<acct, phase>>
    BY <1>1, <1>4, NothingSettles, ResumeStep
<1>5. CASE Resume("cancel", {"timeout", "refused"}) /\ CancelRefused("cancel", FALSE)
    BY <1>1, <1>5, CancelRefusedSettles, ResumeStep
<1>6. CASE Resume("cancel", {"unknown"}) /\ CancelRefused("cancel", TRUE)
    BY <1>1, <1>6, CancelRefusedSettles, ResumeStep
<1>7. CASE /\ Resume("cancel", {"unknown"})
           /\ ForAll(all, LAMBDA c : RejectCancelOrderError(acct, c, TRUE),
                     LAMBDA d, c : PendingFilled(RejectCancelOrder(d, c, TRUE), c))
  <2>1. PICK done \in SUBSET all :
            /\ \A c \in done : ~RejectCancelOrderError(a, c, TRUE)
            /\ acct' = FoldSet(LAMBDA c, b : PendingFilled(RejectCancelOrder(b, c, TRUE), c),
                               a, done)
            /\ \E error : FailIf(error)
      BY <1>7 DEF ForAll
  <2>2. done \in SUBSET ClIDs /\ \A c \in done : c \in a.ordersClID
      BY <1>1, <2>1, FindsOwn DEF RejectCancelOrderError
  <2>3. Linked(FoldSet(LAMBDA c, b : PendingFilled(RejectCancelOrder(b, c, TRUE), c), a, done))
      BY <1>1, <2>2, FilledCancelsLinked
  <2>4. Settles
      BY <2>1, <2>3, FailIfPhase DEF Settles
  <2> QED
      BY <1>1, <1>7, <2>4, ResumeStep
<1>8. CASE Resume("cancel", {"unknown"}) /\ phase' = "failed" /\ UNCHANGED acct
    BY <1>1, <1>8, NothingSettles, ResumeStep
<1>9. rules.unknown \in {"reject", "filled", "panic"}
    BY VenueOrderRules DEF IInv, StateTypes, Rules
<1> QED
    BY <1>2, <1>3, <1>4, <1>5, <1>6, <1>7, <1>8, <1>9 DEF CancelAnswered

\* The answer to a mass cancel.
LEMMA MassCancelAnsweredStep ==
    ASSUME IInv, MassCancelAnswered
    PROVE  IInv'
<1>1. "mass" \in Kinds /\ FALSE \in BOOLEAN
    BY DEF Kinds
<1>2. CASE Resume("mass", {"ok"}) /\ UNCHANGED <<acct, phase>>
    BY <1>1, <1>2, NothingSettles, ResumeStep
<1>3. CASE Resume("mass", {"timeout", "refused"}) /\ CancelRefused("mass", FALSE)
    BY <1>1, <1>3, CancelRefusedSettles, ResumeStep
<1> QED
    BY <1>2, <1>3 DEF MassCancelAnswered

\* A replacement the venue refuses.
LEMMA ReplaceRefusedSettles ==
    ASSUME IInv, NEW k \in Kinds, NEW u \in BOOLEAN, ReplaceRefused(k, u)
    PROVE  Settles
<1> PICK a : a = acct
    OBVIOUS
<1>1. Linked(a)
    BY DEF IInv
<1>2. PICK all \in SUBSET ClIDs : all = call[k].cs
    BY CallOrders
<1>3. PICK done \in SUBSET all :
          /\ \A c \in done : Known(a, c)
          /\ acct' = FoldSet(LAMBDA c, b : IF u /\ rules.unknown = "filled"
                                           THEN PendingFilled(RejectReplaceOrder(b, c), c)
                                           ELSE RejectReplaceOrder(b, c), a, done)
          /\ \E error : FailIf(error)
    BY <1>2 DEF ReplaceRefused, ForAll
<1>4. done \in SUBSET ClIDs /\ \A c \in done : c \in a.ordersClID
    BY <1>1, <1>3, FindsOwn
<1>5. Linked(FoldSet(LAMBDA c, b : IF u /\ rules.unknown = "filled"
                                   THEN PendingFilled(RejectReplaceOrder(b, c), c)
                                   ELSE RejectReplaceOrder(b, c), a, done))
    BY <1>1, <1>4, RefusedReplacementsLinked
<1> QED
    BY <1>3, <1>5, FailIfPhase DEF Settles

\* A replacement the venue confirms.
LEMMA ReplacedSettles ==
    ASSUME IInv, NEW c, Replaced(c)
    PROVE  Settles
<1> PICK a : a = acct
    OBVIOUS
<1> PICK b : b = ConfirmReplaceOrder(a, c, NoID)
    OBVIOUS
<1>1. Linked(a) /\ AccountInv(a) /\ NoID \in ExIDs \cup {NoID}
    BY DEF IInv, Linked
<1>2. ~NotPendingReplace(a, c) => Linked(b)
    BY <1>1, ConfirmReplaceOrderInv, ConfirmReplaceOrderMoves, LinkedMovesNothing
<1>3. acct' = IF NotPendingReplace(a, c) THEN a ELSE b
    BY DEF Replaced
<1>4. phase' \in {"running", "failed"}
    BY FailIfPhase DEF Replaced
<1> QED
    BY <1>1, <1>2, <1>3, <1>4 DEF Settles

\* The answer to a replacement.
LEMMA ReplaceAnsweredStep ==
    ASSUME IInv, NEW k \in Kinds, ReplaceAnswered(k)
    PROVE  IInv'
<1>1. CASE Resume(k, {"ok"}) /\ Replaced(CHOOSE c \in call[k].cs : TRUE)
    BY <1>1, ReplacedSettles, ResumeStep
<1>2. CASE Resume(k, {"ok"}) /\ UNCHANGED <<acct, phase>>
    BY <1>2, NothingSettles, ResumeStep
<1>3. CASE Resume(k, {"timeout", "refused"}) /\ ReplaceRefused(k, FALSE)
    BY <1>3, ReplaceRefusedSettles, ResumeStep
<1>4. CASE Resume(k, {"unknown"}) /\ ReplaceRefused(k, TRUE)
    BY <1>4, ReplaceRefusedSettles, ResumeStep
<1> QED
    BY <1>1, <1>2, <1>3, <1>4 DEF ReplaceAnswered

\* Every continuation.
LEMMA ContinuationStep ==
    ASSUME IInv, Continuation
    PROVE  IInv'
<1>1. "replace" \in Kinds /\ "bulkReplace" \in Kinds
    BY DEF Kinds
<1> QED
    BY <1>1, NewOrderAnsweredStep, BulkAnsweredStep, CancelAnsweredStep, MassCancelAnsweredStep,
       ReplaceAnsweredStep DEF Continuation

----------------------------------------------------------------------------
(***************************************************************************)
(* The private stream.                                                     *)
(***************************************************************************)

\* What the listener does of its own: the venue and the futures stay.
LEMMA ListenerStep ==
    ASSUME IInv, Settles, call' = call, exch' = exch, rules' = rules, calls' = calls,
           faults' = faults, {sweep', spotless'} \subseteq BOOLEAN, drift' \in Int,
           stream' \in [up : BOOLEAN, q : Seq(Event)], EventsTrue'
    PROVE  IInv'
<1>1. StateTypes /\ World
    BY DEF IInv
<1>2. World'
  <2>1. Grows /\ (\A c \in ClIDs : OrderTrue(c)')
        /\ \A c \in ClIDs : exch[c].at = "None" => exch'[c].at = "None"
      BY <1>1 DEF World, OrderTrue, Grows
  <2> QED
      BY <1>1, <2>1, QuietWorld
<1>3. phase' \in {"running", "failed"}
    BY DEF Settles
<1>4. StateTypes'
    BY <1>1, <1>3 DEF StateTypes
<1>5. PICK b : Linked(b) /\ acct' = b
    BY DEF Settles
<1> QED
    BY <1>2, <1>4, <1>5, AccountStep

\* The event that is handled tells what has happened, and so do the rest.
LEMMA HandleTells ==
    ASSUME IInv, NEW kind, Handle(kind)
    PROVE  /\ Head(stream.q) \in Event /\ EventTrue(Head(stream.q)) /\ Head(stream.q).ev = kind
           /\ stream' \in [up : BOOLEAN, q : Seq(Event)] /\ EventsTrue'
<1> PICK q : q = stream.q
    OBVIOUS
<1>1. /\ stream \in [up : BOOLEAN, q : Seq(Event)] /\ q \in Seq(Event) /\ q # <<>>
      /\ \A i \in 1..Len(q) : EventTrue(q[i])
      /\ stream' = [stream EXCEPT !.q = Tail(q)] /\ exch' = exch /\ Head(q).ev = kind
    BY DEF Handle, IInv, StateTypes, EventsTrue
<1>2. /\ Head(q) \in Event /\ Head(q) = q[1] /\ 1 \in 1..Len(q) /\ Tail(q) \in Seq(Event)
      /\ Len(Tail(q)) = Len(q) - 1 /\ Len(q) \in Nat
      /\ \A i \in 1..Len(Tail(q)) : Tail(q)[i] = q[i + 1]
    BY <1>1
<1>3. stream' \in [up : BOOLEAN, q : Seq(Event)] /\ stream'.q = Tail(q)
    BY <1>1, <1>2
<1>4. ASSUME NEW i \in 1..Len(Tail(q)) PROVE EventTrue(Tail(q)[i])'
  <2>1. PICK e : e = Tail(q)[i]
      OBVIOUS
  <2>4. i + 1 \in 1..Len(q) /\ e = q[i + 1]
      BY <1>2, <2>1
  <2>2. EventTrue(e)
      BY <1>1, <2>4
  <2>3. EventTrue(e)'
      BY <1>1, <2>2 DEF EventTrue
  <2> QED
      BY <2>1, <2>3
<1> QED
    BY <1>1, <1>2, <1>3, <1>4 DEF EventsTrue

\* A handler of the stream.
LEMMA HandlerStep ==
    ASSUME IInv, NEW kind, Handle(kind), Settles, drift' \in Int
    PROVE  IInv'
<1>1. {sweep', spotless'} \subseteq BOOLEAN
    BY DEF Handle, IInv, StateTypes
<1>2. /\ call' = call /\ exch' = exch /\ rules' = rules /\ calls' = calls /\ faults' = faults
      /\ stream' \in [up : BOOLEAN, q : Seq(Event)] /\ EventsTrue'
    BY HandleTells DEF Handle
<1> QED
    BY <1>1, <1>2, ListenerStep

\* The event that is handled.
LEMMA HeadTells ==
    ASSUME IInv, NEW kind, Handle(kind), NEW e, e = Head(stream.q)
    PROVE  /\ Linked(acct) /\ drift \in Int
           /\ e.c \in ClIDs /\ e.id = IdOf[e.c] /\ e.qty \in 0..MaxLots
           /\ kind \in {"new", "trade"} => e.qty \in Lots
           /\ kind \in {"canceled", "expired"} => exch[e.c].at = "Done"
BY HandleTells DEF Event, EventTrue, IInv, StateTypes

\* A new order: it is entered where nobody knows of it.
LEMMA OnNewStep ==
    ASSUME IInv, OnNew
    PROVE  IInv'
<1> PICK a, e : a = acct /\ e = Head(stream.q)
    OBVIOUS
<1>1. /\ Handle("new") /\ drift' = drift
      /\ \E error : /\ FailIf(error)
                    /\ acct' = IF error THEN a
                               ELSE ConfirmNewOrder(
                                      IF Known(a, e.c) THEN a
                                      ELSE NewOrder(a, e.c, "Buy", "Limit", 1, e.qty),
                                      e.c, e.id, 0)
    BY DEF OnNew, Settle
<1>2. /\ Linked(a) /\ drift \in Int /\ e.c \in ClIDs /\ e.id = IdOf[e.c] /\ e.qty \in Lots
    BY <1>1, HeadTells
<1> PICK c, qty : c = e.c /\ qty = e.qty
    OBVIOUS
<1>3. CASE Known(a, c)
  <2>1. c \in a.ordersClID
      BY <1>2, <1>3, FindsOwn
  <2>2. Linked(ConfirmNewOrder(a, c, IdOf[c], 0))
      BY <1>2, <2>1, ConfirmNewLinked
  <2>3. Settles
      BY <1>1, <1>2, <1>3, <2>2, FailIfPhase DEF Settles
  <2> QED
      BY <1>1, <1>2, <2>3, HandlerStep
<1>4. CASE ~Known(a, c)
  <2>1. Linked(ConfirmNewOrder(NewOrder(a, c, "Buy", "Limit", 1, qty), c, IdOf[c], 0))
      BY <1>2, EnterConfirmedLinked
  <2>2. Settles
      BY <1>1, <1>2, <1>4, <2>1, FailIfPhase DEF Settles
  <2> QED
      BY <1>1, <1>2, <2>2, HandlerStep
<1> QED
    BY <1>3, <1>4

\* A fill, by either id.
LEMMA OnTradeStep ==
    ASSUME IInv, OnTrade
    PROVE  IInv'
<1>1. PICK a, e : a = acct /\ e = Head(stream.q)
    OBVIOUS
<1>2. PICK k, qty : k = (IF rules.fillsBy = "client id" THEN e.c ELSE e.id) /\ qty = e.qty
    OBVIOUS
<1>3. /\ Handle("trade") /\ FailIf(ConfirmFillError(a, k, qty))
      /\ acct' = IF ConfirmFillError(a, k, qty) THEN a ELSE ConfirmFill(a, k, qty)
      /\ drift' = IF ConfirmFillError(a, k, qty) THEN drift ELSE drift - qty
    BY <1>1, <1>2 DEF OnTrade, Settle
<1>4. Linked(a) /\ AccountInv(a) /\ drift \in Int /\ qty \in Lots
    BY <1>1, <1>2, <1>3, HeadTells DEF Linked
<1>5. ~ConfirmFillError(a, k, qty) => Linked(ConfirmFill(a, k, qty))
    BY <1>4, ConfirmFillInv, ConfirmFillMoves, LinkedMovesNothing
<1>6. drift' \in Int
  <2>1. qty \in Int
      BY <1>4, AccountConstants DEF Lots
  <2>2. drift - qty \in Int
      BY <1>4, <2>1
  <2> QED
      BY <1>3, <1>4, <2>2
<1>7. Settles
    BY <1>3, <1>4, <1>5, FailIfPhase DEF Settles
<1> QED
    BY <1>3, <1>6, <1>7, HandlerStep

\* An order that is done at the venue.
LEMMA OnClosedStep ==
    ASSUME IInv, OnCanceled \/ OnExpired
    PROVE  IInv'
<1> PICK a, c, e : a = acct /\ e = Head(stream.q) /\ c = e.c
    OBVIOUS
<1>1. PICK kind \in {"canceled", "expired"} :
          /\ Handle(kind) /\ drift' = drift
          /\ \E error : /\ FailIf(error) /\ (~error => Known(a, c))
                        /\ acct' = IF error THEN a
                                   ELSE IF kind = "canceled" THEN ConfirmCancelOrder(a, c)
                                   ELSE ConfirmExpiredOrder(a, c)
    BY DEF OnCanceled, OnExpired, Settle
<1>2. Linked(a) /\ drift \in Int /\ c \in ClIDs /\ exch[c].at = "Done"
    BY <1>1, HeadTells
<1>3. Known(a, c) => Linked(ConfirmCancelOrder(a, c)) /\ Linked(ConfirmExpiredOrder(a, c))
    BY <1>2, FindsOwn, ClosedLinked
<1>4. Settles
    BY <1>1, <1>2, <1>3, FailIfPhase DEF Settles
<1> QED
    BY <1>1, <1>2, <1>4, HandlerStep

\* A refusal that is told on the stream.
LEMMA OnRejectedStep ==
    ASSUME IInv, OnRejected
    PROVE  IInv'
<1> PICK a, c, e : a = acct /\ e = Head(stream.q) /\ c = e.c
    OBVIOUS
<1>1. /\ Handle("rejected") /\ drift' = drift /\ FailIf(RejectNewOrderError(a, c))
      /\ acct' = IF RejectNewOrderError(a, c) THEN a ELSE RejectNewOrder(a, c)
    BY DEF OnRejected, Settle
<1>2. Linked(a) /\ drift \in Int /\ c \in ClIDs
    BY <1>1, HeadTells
<1>3. ~RejectNewOrderError(a, c) => Linked(RejectNewOrder(a, c))
    BY <1>2, DropLinked DEF RejectNewOrderError
<1>4. Settles
    BY <1>1, <1>2, <1>3, FailIfPhase DEF Settles
<1> QED
    BY <1>1, <1>2, <1>4, HandlerStep

\* An order that was filled at once.
LEMMA OnFilledStep ==
    ASSUME IInv, OnFilled
    PROVE  IInv'
<1> PICK a, c, e : a = acct /\ e = Head(stream.q) /\ c = e.c
    OBVIOUS
<1>1. /\ Handle("filled") /\ drift' = drift
      /\ \E error : /\ FailIf(error) /\ (~error => Known(a, c))
                    /\ acct' = IF error THEN a ELSE ConfirmNewOrder(a, c, e.id, 0)
    BY DEF OnFilled, Settle
<1>2. Linked(a) /\ drift \in Int /\ c \in ClIDs /\ e.id = IdOf[c]
    BY <1>1, HeadTells
<1>3. Known(a, c) => Linked(ConfirmNewOrder(a, c, IdOf[c], 0))
    BY <1>2, FindsOwn, ConfirmNewLinked
<1>4. Settles
    BY <1>1, <1>2, <1>3, FailIfPhase DEF Settles
<1> QED
    BY <1>1, <1>2, <1>4, HandlerStep

\* Every message of the stream.
LEMMA MessageStep ==
    ASSUME IInv, OnWebsocketMessage
    PROVE  IInv'
<1>1. CASE OnReplaced
  <2>1. Handle("replaced") /\ Replaced(Head(stream.q).c) /\ drift' = drift
      BY <1>1 DEF OnReplaced
  <2>2. drift \in Int
      BY DEF IInv, StateTypes
  <2>3. Settles
      BY <2>1, ReplacedSettles
  <2> QED
      BY <2>1, <2>2, <2>3, HandlerStep
<1> QED
    BY <1>1, OnNewStep, OnTradeStep, OnClosedStep, OnRejectedStep, OnFilledStep
    DEF OnWebsocketMessage

----------------------------------------------------------------------------
(***************************************************************************)
(* Ticks and restarts.                                                     *)
(***************************************************************************)

\* A snapshot of the venue, taken in place of the account.
LEMMA SyncSettles ==
    ASSUME IInv, SyncAccount, phase' \in {"running", "failed"}
    PROVE  Settles /\ drift' \in Int /\ spotless' \in BOOLEAN
<1>1. PICK b : b = Sync([c \in ClIDs |-> Listed(c)])
    OBVIOUS
<1>2. Linked(b)
    BY <1>1, SyncLinked DEF IInv
<1>3. acct' = b /\ drift' = 0 /\ spotless' = FALSE
    BY <1>1 DEF SyncAccount
<1>4. Settles
    BY <1>2, <1>3 DEF Settles
<1>5. drift' \in Int
  <2>1. drift' = 0
      BY DEF SyncAccount
  <2> QED
      BY <2>1
<1>6. spotless' \in BOOLEAN
    BY <1>3
<1> QED
    BY <1>4, <1>5, <1>6

\* A new socket starts without events, or with those of the old one.
LEMMA NewSocketTells ==
    ASSUME IInv, NewSocket, exch' = exch
    PROVE  stream' \in [up : BOOLEAN, q : Seq(Event)] /\ EventsTrue'
<1> PICK q : q = stream.q
    OBVIOUS
<1>1. q \in Seq(Event) /\ \A i \in 1..Len(q) : q[i] \in Event /\ EventTrue(q[i])
    BY DEF IInv, StateTypes, EventsTrue
<1>2. <<>> \in Seq(Event) /\ Len(<<>>) = 0
    OBVIOUS
<1>3. PICK n : n = IF rules.keeps THEN q ELSE <<>>
    OBVIOUS
<1>4. n \in Seq(Event) /\ \A i \in 1..Len(n) : EventTrue(n[i])
    BY <1>1, <1>2, <1>3
<1>5. stream' = [up |-> TRUE, q |-> n]
    BY <1>3 DEF NewSocket
<1>6. ASSUME NEW e, EventTrue(e) PROVE EventTrue(e)'
    BY <1>6 DEF EventTrue
<1> QED
    BY <1>4, <1>5, <1>6 DEF EventsTrue

\* The events stay where the stream does.
LEMMA SameSocketTells ==
    ASSUME IInv, stream' = stream, exch' = exch
    PROVE  stream' \in [up : BOOLEAN, q : Seq(Event)] /\ EventsTrue'
BY DEF IInv, StateTypes, EventsTrue, EventTrue

\* The socket is renewed.
LEMMA CheckSocketStep ==
    ASSUME IInv, CheckSocket
    PROVE  IInv'
<1>1. /\ NewSocket /\ phase' = phase /\ exch' = exch /\ call' = call /\ rules' = rules
      /\ calls' = calls /\ faults' = faults /\ sweep' = sweep
      /\ phase \in {"running", "failed"} /\ {sweep, spotless} \subseteq BOOLEAN /\ drift \in Int
    BY DEF CheckSocket, IInv, StateTypes
<1>2. Settles /\ drift' \in Int /\ spotless' \in BOOLEAN
  <2>1. CASE SyncAccount
      BY <1>1, <2>1, SyncSettles
  <2>2. CASE UNCHANGED <<acct, drift, spotless>>
      BY <1>1, <2>2, NothingSettles
  <2> QED
      BY <2>1, <2>2 DEF CheckSocket
<1>3. stream' \in [up : BOOLEAN, q : Seq(Event)] /\ EventsTrue'
    BY <1>1, NewSocketTells
<1> QED
    BY <1>1, <1>2, <1>3, ListenerStep

\* The listener restarts.
LEMMA RestartStep ==
    ASSUME IInv, Restart
    PROVE  IInv'
<1>1. /\ NewSocket /\ SyncAccount /\ phase' = "running" /\ exch' = exch /\ call' = call
      /\ rules' = rules /\ calls' = calls /\ faults' = faults
      /\ sweep' = (sweep \/ rules.cleans)
    BY DEF Restart
<1>2. Settles /\ drift' \in Int /\ spotless' \in BOOLEAN /\ sweep' \in BOOLEAN
    BY <1>1, SyncSettles
<1>3. stream' \in [up : BOOLEAN, q : Seq(Event)] /\ EventsTrue'
    BY <1>1, NewSocketTells
<1> QED
    BY <1>1, <1>2, <1>3, ListenerStep

\* An order that is in the heap is referred to.
LEMMA HeapIsReferenced ==
    ASSUME NEW a, AccountInv(a), NEW c \in ClIDs, a.orders[c].status # "Blank"
    PROVE  Referenced(a, c)
BY DEF AccountInv, OrderInv, HeapSound, Blank

\* The account is checked: orders are aged and cleaned, or all are asked for again.
LEMMA CheckAccountStep ==
    ASSUME IInv, CheckAccount
    PROVE  IInv'
<1> PICK a : a = acct
    OBVIOUS
<1>1. PICK old \in SUBSET Ageing : Check(old)
    BY DEF CheckAccount
<1>2. /\ stream' = stream /\ exch' = exch /\ call' = call /\ rules' = rules
      /\ calls' = calls /\ faults' = faults /\ sweep' = sweep
      /\ Linked(a) /\ AccountInv(a) /\ {sweep, spotless} \subseteq BOOLEAN /\ drift \in Int
    BY DEF CheckAccount, IInv, StateTypes, Linked
<1>3. phase' \in {"running", "failed"}
    BY <1>1, FailIfPhase DEF Check
<1>4. Settles /\ drift' \in Int /\ spotless' \in BOOLEAN
  <2>1. CASE SyncAccount
      BY <1>3, <2>1, SyncSettles
  <2>2. CASE acct' = (IF rules.expires THEN CleanOrders(Aged(old)) ELSE acct)
             /\ UNCHANGED <<drift, spotless>>
    <3> PICK d : d = FoldSet(LAMBDA c, b : Age(b, c), a, old)
        OBVIOUS
    <3>1. Linked(d)
      <4>1. old \in SUBSET ClIDs /\ \A c \in old : a.orders[c].status # "Blank"
          BY DEF Ageing, PendingStatus, ClosedStatus
      <4>2. \A c \in old : Referenced(a, c)
          BY <1>2, <4>1, HeapIsReferenced
      <4> QED
          BY <1>2, <4>1, <4>2, AgesLinked
    <3>2. Linked(CleanOrders(d))
        BY <3>1, CleanOrdersInv, CleanOrdersMoves, LinkedMovesNothing DEF Linked
    <3>3. acct' = IF rules.expires THEN CleanOrders(d) ELSE a
        BY <2>2 DEF Aged
    <3>4. Settles
        BY <1>2, <1>3, <3>2, <3>3 DEF Settles
    <3> QED
        BY <1>2, <2>2, <3>4
  <2> QED
      BY <1>1, <2>1, <2>2 DEF Check
<1>5. stream' \in [up : BOOLEAN, q : Seq(Event)] /\ EventsTrue'
    BY <1>2, SameSocketTells
<1>6. {sweep', spotless'} \subseteq BOOLEAN
    BY <1>2, <1>4
<1> QED
    BY <1>2, <1>4, <1>5, <1>6, ListenerStep

----------------------------------------------------------------------------
(***************************************************************************)
(* The theorems.                                                           *)
(***************************************************************************)

\* Nothing has happened yet.
LEMMA InitInv == Init => IInv
<1> SUFFICES ASSUME Init PROVE IInv
    OBVIOUS
<1>1. StateTypes
  <2>1. NoCall \in CallType
      BY Quantities DEF NoCall, CallType
  <2>2. call \in [Kinds -> CallType]
      BY <2>1 DEF Init
  <2>3. [at |-> "None", id |-> NoID, leaves |-> 0, cum |-> 0] \in VenueOrder
      BY Quantities DEF VenueOrder
  <2>4. exch \in [ClIDs -> VenueOrder]
      BY <2>3 DEF Init
  <2>5. stream \in [up : BOOLEAN, q : Seq(Event)]
      BY DEF Init
  <2>6. rules \in VenueRules /\ phase \in {"running", "failed"} /\ {sweep, spotless} \subseteq BOOLEAN
      BY DEF Init
  <2>7. drift \in Int /\ calls \in 0..MaxCalls /\ faults \in 0..MaxFaults
      BY VenueOrderBounds DEF Init
  <2> QED
      BY <2>2, <2>4, <2>5, <2>6, <2>7 DEF StateTypes
<1>2. World
  <2>1. \A k \in Kinds : ~call[k].sent /\ call[k].ans = "none"
      BY DEF Init, NoCall
  <2>2. Apart
      BY <2>1 DEF Apart, Kinds
  <2>3. \A k \in Kinds : CallTrue(k)
      BY <2>1 DEF CallTrue
  <2>4. \A c \in ClIDs : OrderTrue(c)
      BY DEF Init, OrderTrue
  <2> QED
      BY <2>2, <2>3, <2>4 DEF World
<1>3. EventsTrue
    BY DEF Init, EventsTrue
<1>4. Linked(acct)
  <2>1. AccountInv(NewAccount)
      BY NewAccountInv
  <2>2. ASSUME NEW c \in ClIDs PROVE Agrees(NewAccount, c)
    <3>1. /\ NewAccount.orders[c] = Blank
          /\ \A x \in ExIDs : NewAccount.ordersID[x] = NoID
        BY DEF NewAccount
    <3>2. /\ Blank.side = "Buy" /\ Blank.type = "Limit" /\ Blank.id = NoID
          /\ Blank.status = "Blank" /\ c # NoID
        BY AccountConstants DEF Blank
    <3> QED
        BY <3>1, <3>2 DEF Agrees
  <2> QED
      BY <2>1, <2>2 DEF Linked, Init
<1> QED
    BY <1>1, <1>2, <1>3, <1>4 DEF IInv

\* Every step keeps it.
LEMMA NextInv == IInv /\ [Next]_vars => IInv'
<1> SUFFICES ASSUME IInv, [Next]_vars PROVE IInv'
    OBVIOUS
<1>1. CASE Users
    BY <1>1, UsersStep
<1>2. CASE System
    BY <1>2, VenueStep, ContinuationStep, MessageStep, CheckSocketStep, CheckAccountStep, RestartStep
    DEF System
<1>3. CASE \/ \E k \in Kinds : LoseAnswer(k)
           \/ \E c \in ClIDs, qty \in Lots : Trade(c, qty)
           \/ SocketFails
    BY <1>3, VenueStep
<1>4. CASE UNCHANGED vars
  <2>1. /\ call' = call /\ exch' = exch /\ rules' = rules /\ calls' = calls
        /\ faults' = faults /\ acct' = acct /\ phase' = phase /\ stream' = stream
        /\ sweep' = sweep /\ spotless' = spotless /\ drift' = drift
      BY <1>4 DEF vars
  <2>2. {sweep', spotless'} \subseteq BOOLEAN /\ drift' \in Int
      BY <2>1 DEF IInv, StateTypes
  <2> QED
      BY <2>1, <2>2, NothingSettles, SameSocketTells, ListenerStep
<1> QED
    BY <1>1, <1>2, <1>3, <1>4 DEF Next

\* The listeners of the venues: the agreement of accounts, futures, streams and
\* venues that the properties rest on.
THEOREM VenueOrdersInvariant == Spec => []IInv
BY InitInv, NextInv, PTL DEF Spec

\* Whatever a venue's answers and events are composed to, and in whichever order
\* they come, the account keeps its invariant.
THEOREM AccountStaysSound == Spec => []AccountSound
<1>1. IInv => AccountSound
  <2> SUFFICES ASSUME IInv PROVE AccountSound
      OBVIOUS
  <2>1. StateTypes /\ AccountInv(acct)
      BY DEF IInv, Linked
  <2>2. stream.up \in BOOLEAN /\ stream.q \in Seq(Event)
      BY <2>1 DEF StateTypes
  <2>3. TypeOK
      BY <2>1, <2>2 DEF StateTypes, TypeOK, AccountInv, CallType, VenueOrder
  <2> QED
      BY <2>1, <2>3 DEF AccountSound, AccountInv
<1> QED
    BY <1>1, VenueOrdersInvariant, PTL

\* An order the account takes for canceled or expired does not work at the venue.
THEOREM NoOrderFalselyClosed == Spec => []NoFalseClose
<1>1. IInv => NoFalseClose
    BY DEF IInv, Linked, Agrees, NoFalseClose, Live
<1> QED
    BY <1>1, VenueOrdersInvariant, PTL

----------------------------------------------------------------------------
(***************************************************************************)
(* The live orders.  What the stream still tells of an order leads from    *)
(* what the account has left of it to what the venue has left of it.       *)
(***************************************************************************)

\* What a listener that hears of fills has to hear of: new orders, and, where the
\* stream confirms replacements, these.  Such a listener sends no replacement the
\* account has refused, and does not enter orders it does not know.
Telling(r) ==
    "trade" \in r.events =>
        /\ "new" \in r.events
        /\ r.replace = "stream" => "replaced" \in r.events /\ ~r.forward /\ ~r.adopts
        /\ r.bulkReplace => r.replace = "stream"

Replacements == {"replace", "bulkReplace"}

\* An order with one of these statuses can be replaced, or can get there by an
\* answer.
Ready == OpenStatus \cup {"PendingNew", "PendingCancel"}

\* A replacement of order c is queued; request k for one is not settled.
Amending(q, c) == \E i \in 1..Len(q) : q[i].ev = "replaced" /\ q[i].c = c
Claimed(r, k, c) == c \in r[k].cs /\ r[k].ans \in {"waiting", "refused", "unknown"}
Engaged(q, r, c) == Amending(q, c) \/ \E k \in Replacements : Claimed(r, k, c)

\* There is one replacement of an order at a time.
Alone(q, r, c) ==
    /\ \A i, j \in 1..Len(q) :
          q[i].ev = "replaced" /\ q[i].c = c /\ q[j].ev = "replaced" /\ q[j].c = c => i = j
    /\ Amending(q, c) => \A k \in Replacements : ~Claimed(r, k, c)
    /\ ~(Claimed(r, "replace", c) /\ Claimed(r, "bulkReplace", c))

\* What order c, which is o at the venue, had left before and after each event of
\* the queue.  Its first event is the first that tells of it.
History(f, q, o, c) ==
    /\ f \in [0..Len(q) -> Lots] /\ f[Len(q)] = o.leaves
    /\ \A i \in 1..Len(q) :
          /\ q[i].c # c \/ q[i].ev \notin {"trade", "replaced"} => f[i] = f[i - 1]
          /\ q[i].c = c /\ q[i].ev = "trade" => f[i] = f[i - 1] - q[i].qty
          /\ q[i].c = c /\ q[i].ev = "new" =>
                /\ f[i] = q[i].qty
                /\ \A j \in 1..i - 1 : q[j].c = c => q[j].ev \notin {"trade", "new", "replaced"}

\* The account's quantity, once a replacement that is queued is handled.
Promised(a, f, q, c) ==
    a.orders[c].status = "PendingReplace" =>
        \A i \in 1..Len(q) : q[i].ev = "replaced" /\ q[i].c = c => f[i] = a.orders[c].amendQty

\* The account has the order, with n left.
Mine(a, o, c, n) ==
    /\ a.ordersID[o.id] = c
    /\ a.orders[c].status \notin ClosedStatus
    /\ a.orders[c].leaves = n

\* The account will learn of it from the queue; its own order is unconfirmed.
Awaited(a, q, c, n) ==
    /\ \E i \in 1..Len(q) : q[i].ev = "new" /\ q[i].c = c
    /\ c \in a.ordersClID => a.orders[c].status = "PendingNew" /\ a.orders[c].leaves = n

Followed(a, o, q, c) ==
    \E f : /\ History(f, q, o, c) /\ Promised(a, f, q, c)
           /\ Mine(a, o, c, f[0]) \/ Awaited(a, q, c, f[0])

\* Account a and order c, which is o at the venue: what is asked for fits the
\* order's status, and it is followed while it is live.
OnTrack(a, o, q, r, c) ==
    /\ a.orders[c].status = "PendingCancel" => a.orders[c].prev # "PendingNew"
    /\ \A k \in {"new", "bulk"} : r[k].sent /\ c \in r[k].cs /\ c \in a.ordersClID =>
          a.orders[c].status = "PendingNew" /\ a.orders[c].leaves = r[k].qty
    /\ \A k \in Kinds \ {"new", "bulk"} : r[k].ans # "none" /\ c \in r[k].cs =>
          a.orders[c].status # "PendingNew"
    /\ Engaged(q, r, c) => a.orders[c].status \notin Ready
    /\ \A k \in Replacements :
          r[k].ans = "waiting" /\ c \in r[k].cs /\ a.orders[c].status = "PendingReplace" =>
             a.orders[c].amendQty = r[k].qty
    /\ o.at = "Live" => Followed(a, o, q, c)

\* Answers and events tell of orders the venue has taken, and no answer to a
\* replacement is lost.
Planned(e, q, r) ==
    /\ \A k \in {"new", "bulk"} :
          r[k].ans \in {"ok", "filled", "expired"} => \A c \in r[k].cs : e[c].at # "None"
    /\ \A k \in Replacements : /\ r[k].sent => r[k].ans = "waiting"
                               /\ r[k].ans # "timeout"
    /\ \A i \in 1..Len(q) : q[i].ev # "rejected" => e[q[i].c].at # "None"

\* Replacements are asked for, and told, where the stream confirms them.
Confirmable(q, r) ==
    \/ \E k \in Replacements : r[k].sent \/ r[k].ans # "none"
    \/ \E i \in 1..Len(q) : q[i].ev = "replaced"
    => rules.replace = "stream"

AllOnTrack(a, e, q, r) ==
    /\ Planned(e, q, r) /\ Confirmable(q, r)
    /\ \A c \in ClIDs : Alone(q, r, c) /\ OnTrack(a, e[c], q, r, c)

Following == Carries("trade") /\ phase = "running" /\ spotless

Tracking == Following => stream.up /\ AllOnTrack(acct, exch, stream.q, call)

\* The listeners of the repository are such listeners.
LEMMA AllAreTelling ==
    {fbinance, binance, bitmex, krakenf, bybitl, dydx} \subseteq {r \in Rules : Telling(r)}
<1>1. fbinance \in Rules /\ Telling(fbinance)
    BY DEF Rules, Kind, Telling, fbinance
<1>2. binance \in Rules /\ Telling(binance)
    BY DEF Rules, Kind, Telling, fbinance, binance
<1>3. bitmex \in Rules /\ Telling(bitmex)
    BY DEF Rules, Kind, Telling, fbinance, binance, bitmex
<1>4. krakenf \in Rules /\ Telling(krakenf)
    BY DEF Rules, Kind, Telling, fbinance, krakenf
<1>5. bybitl \in Rules /\ Telling(bybitl)
    BY DEF Rules, Kind, Telling, fbinance, bybitl
<1>6. dydx \in Rules /\ Telling(dydx)
    BY DEF Rules, Kind, Telling, fbinance, binance, dydx
<1> QED
    BY <1>1, <1>2, <1>3, <1>4, <1>5, <1>6

\* What an account says of an order is all that matters to that order's track.
LEMMA SameTrack ==
    ASSUME NEW a, NEW b, NEW c, SameOrder(a, b, c), NEW o, NEW q, NEW r,
           o.at = "Live" => o.id \in ExIDs, OnTrack(a, o, q, r, c)
    PROVE  OnTrack(b, o, q, r, c)
<1>1. /\ b.orders[c] = a.orders[c] /\ (c \in b.ordersClID <=> c \in a.ordersClID)
      /\ o.at = "Live" => (b.ordersID[o.id] = c <=> a.ordersID[o.id] = c)
    BY DEF SameOrder
<1>2. ASSUME o.at = "Live", Followed(a, o, q, c) PROVE Followed(b, o, q, c)
  <2>1. PICK f : /\ History(f, q, o, c) /\ Promised(a, f, q, c)
                 /\ Mine(a, o, c, f[0]) \/ Awaited(a, q, c, f[0])
      BY <1>2 DEF Followed
  <2>2. Promised(b, f, q, c) /\ (Mine(b, o, c, f[0]) \/ Awaited(b, q, c, f[0]))
      BY <1>1, <1>2, <2>1 DEF Promised, Mine, Awaited
  <2> QED
      BY <2>1, <2>2 DEF Followed
<1> QED
    BY <1>1, <1>2 DEF OnTrack

\* From account a to b order c is treated with calm: it is not entered, not opened,
\* not confirmed, and what the account has left of it and the ids that lead to it
\* stay, unless it was closed before.
Calm(a, b, c) ==
    /\ c \in b.ordersClID => c \in a.ordersClID
    /\ b.orders[c].status = "PendingCancel" => b.orders[c].prev # "PendingNew"
    /\ b.orders[c].status \in Ready => a.orders[c].status \in Ready
    /\ b.orders[c].status = "PendingReplace" =>
          /\ a.orders[c].status = "PendingReplace"
          /\ b.orders[c].amendQty = a.orders[c].amendQty
    /\ b.orders[c].status = "PendingNew" => a.orders[c].status = "PendingNew"
    /\ a.orders[c].status = "PendingNew" /\ c \in b.ordersClID => b.orders[c].status = "PendingNew"
    /\ a.orders[c].status \notin ClosedStatus =>
          /\ Referenced(b, c) => /\ b.orders[c].status \notin ClosedStatus
                                 /\ b.orders[c].leaves = a.orders[c].leaves
          /\ \A x \in ExIDs : a.ordersID[x] = c => b.ordersID[x] = c

\* An order that is treated with calm is not lost.
LEMMA CalmTrack ==
    ASSUME NEW a, NEW b, NEW c, Calm(a, b, c), NEW o, NEW q, NEW r,
           o.at = "Live" => o.id \in ExIDs, OnTrack(a, o, q, r, c)
    PROVE  OnTrack(b, o, q, r, c)
<1>1. "PendingNew" \notin ClosedStatus /\ (c \in b.ordersClID => Referenced(b, c))
    BY DEF ClosedStatus, Referenced
<1>2. ASSUME o.at = "Live", Followed(a, o, q, c) PROVE Followed(b, o, q, c)
  <2>1. PICK f : /\ History(f, q, o, c) /\ Promised(a, f, q, c)
                 /\ Mine(a, o, c, f[0]) \/ Awaited(a, q, c, f[0])
      BY <1>2 DEF Followed
  <2>2. Promised(b, f, q, c)
      BY <2>1 DEF Promised, Calm
  <2>3. ASSUME Mine(a, o, c, f[0]) PROVE Mine(b, o, c, f[0])
    <3>1. a.orders[c].status \notin ClosedStatus /\ b.ordersID[o.id] = c
        BY <1>2, <2>3 DEF Mine, Calm
    <3>2. Referenced(b, c)
        BY <1>2, <3>1 DEF Referenced
    <3> QED
        BY <2>3, <3>1, <3>2 DEF Mine, Calm
  <2>4. ASSUME Awaited(a, q, c, f[0]) PROVE Awaited(b, q, c, f[0])
      BY <1>1, <2>4 DEF Awaited, Calm
  <2> QED
      BY <2>1, <2>2, <2>3, <2>4 DEF Followed
<1>3. ASSUME c \in b.ordersClID, a.orders[c].status = "PendingNew"
      PROVE  b.orders[c].status = "PendingNew" /\ b.orders[c].leaves = a.orders[c].leaves
    BY <1>1, <1>3 DEF Calm
<1> QED
    BY <1>2, <1>3 DEF OnTrack, Calm

\* A method that is called for the orders of a set, and leaves each on its track
\* with the requests s, after r.
LEMMA FoldTrack ==
    ASSUME NEW base, Linked(base), NEW cs \in SUBSET ClIDs, NEW m,
           \A c \in cs : Fits(m, base, c), NEW e,
           \A d \in ClIDs : e[d].at = "Live" => e[d].id \in ExIDs, NEW q, NEW r, NEW s,
           \A d \in cs : OnTrack(base, e[d], q, r, d),
           \A d \in ClIDs \ cs : OnTrack(base, e[d], q, s, d),
           \A c \in cs : \A a :
              Linked(a) /\ SameOrder(base, a, c) /\ Fits(m, a, c) /\ OnTrack(a, e[c], q, r, c) =>
                 OnTrack(Method(m, a, c), e[c], q, s, c)
    PROVE  /\ Linked(AllOf(m, base, cs))
           /\ \A d \in ClIDs : OnTrack(AllOf(m, base, cs), e[d], q, s, d)
<1> DEFINE S == [t \in SUBSET cs |->
                   {a \in AccountType :
                      /\ \A d \in cs \ t : OnTrack(a, e[d], q, r, d)
                      /\ \A d \in t \cup (ClIDs \ cs) : OnTrack(a, e[d], q, s, d)}]
<1>1. base \in S[{}]
    BY DEF Linked, AccountInv
<1>2. ASSUME NEW t \in SUBSET cs, NEW c \in cs \ t, NEW a \in S[t], Linked(a),
             SameOrder(base, a, c)
      PROVE  Method(m, a, c) \in S[t \cup {c}]
  <2>1. /\ Fits(m, a, c) /\ OnTrack(a, e[c], q, r, c)
        /\ \A d \in cs \ t : OnTrack(a, e[d], q, r, d)
        /\ \A d \in t \cup (ClIDs \ cs) : OnTrack(a, e[d], q, s, d)
      BY <1>2, StillFits
  <2>2. PICK b : b = Method(m, a, c)
      OBVIOUS
  <2>3. Linked(b) /\ Only(a, b, c) /\ b \in AccountType
      BY <1>2, <2>1, <2>2, MethodLinked DEF Linked, AccountInv
  <2>4. OnTrack(b, e[c], q, s, c)
      BY <1>2, <2>1, <2>2
  <2>5. ASSUME NEW d \in ClIDs, d # c, NEW p, OnTrack(a, e[d], q, p, d)
        PROVE  OnTrack(b, e[d], q, p, d)
    <3>1. SameOrder(a, b, d)
        BY <2>3, <2>5 DEF Only
    <3> QED
        BY <2>5, <3>1, SameTrack
  <2>6. \A d \in cs \ (t \cup {c}) : OnTrack(b, e[d], q, r, d)
      BY <2>1, <2>5
  <2>7. \A d \in (t \cup {c}) \cup (ClIDs \ cs) : OnTrack(b, e[d], q, s, d)
      BY <2>1, <2>4, <2>5
  <2> QED
      BY <2>2, <2>3, <2>6, <2>7
<1> HIDE DEF S
<1>3. Linked(AllOf(m, base, cs)) /\ AllOf(m, base, cs) \in S[cs]
    BY <1>1, <1>2, FoldStages
<1> QED
    BY <1>3 DEF S

\* Of order c the requests s ask no more than r.
Eases(r, s, c) ==
    \A k \in Kinds :
        /\ k \in {"new", "bulk"} /\ s[k].sent /\ c \in s[k].cs =>
              r[k].sent /\ c \in r[k].cs /\ r[k].qty = s[k].qty
        /\ s[k].ans # "none" /\ c \in s[k].cs => r[k].ans # "none" /\ c \in r[k].cs
        /\ k \in Replacements =>
              /\ Claimed(s, k, c) => Claimed(r, k, c)
              /\ s[k].ans = "waiting" /\ c \in s[k].cs =>
                    r[k].ans = "waiting" /\ c \in r[k].cs /\ r[k].qty = s[k].qty

\* Requests that are settled disturb no order.
LEMMA EasedTrack ==
    ASSUME NEW r, NEW s, NEW c, Eases(r, s, c), NEW a, NEW o, NEW q,
           Alone(q, r, c), OnTrack(a, o, q, r, c)
    PROVE  Alone(q, s, c) /\ OnTrack(a, o, q, s, c)
<1>1. Replacements \subseteq Kinds /\ {"new", "bulk"} \subseteq Kinds
      /\ "replace" \in Replacements /\ "bulkReplace" \in Replacements
    BY DEF Replacements, Kinds
<1>2. \A k \in Replacements : Claimed(s, k, c) => Claimed(r, k, c)
    BY <1>1 DEF Eases
<1>3. Engaged(q, s, c) => Engaged(q, r, c)
    BY <1>2 DEF Engaged
<1>4. Alone(q, s, c)
    BY <1>1, <1>2 DEF Alone
<1>5. \A k \in {"new", "bulk"} : s[k].sent /\ c \in s[k].cs /\ c \in a.ordersClID =>
          a.orders[c].status = "PendingNew" /\ a.orders[c].leaves = s[k].qty
    BY <1>1 DEF OnTrack, Eases
<1>6. \A k \in Kinds \ {"new", "bulk"} : s[k].ans # "none" /\ c \in s[k].cs =>
          a.orders[c].status # "PendingNew"
    BY DEF OnTrack, Eases
<1>7. \A k \in Replacements :
          s[k].ans = "waiting" /\ c \in s[k].cs /\ a.orders[c].status = "PendingReplace" =>
             a.orders[c].amendQty = s[k].qty
    BY <1>1 DEF OnTrack, Eases
<1> QED
    BY <1>3, <1>4, <1>5, <1>6, <1>7 DEF OnTrack

\* The head of the queue is taken.
LEMMA TailIs ==
    ASSUME NEW q \in Seq(Event), q # <<>>
    PROVE  /\ Len(q) \in Nat \ {0} /\ Len(Tail(q)) = Len(q) - 1 /\ Tail(q) \in Seq(Event)
           /\ q[1] = Head(q) /\ q[1] \in Event
           /\ \A i \in 1..Len(q) - 1 : Tail(q)[i] = q[i + 1] /\ i + 1 \in 1..Len(q)
           /\ \A i \in 1..Len(q) : i = 1 \/ i - 1 \in 1..Len(q) - 1
OBVIOUS

\* What is alone in the queue is alone in its tail.
LEMMA AloneTail ==
    ASSUME NEW q \in Seq(Event), q # <<>>, NEW r, NEW c, Alone(q, r, c)
    PROVE  Alone(Tail(q), r, c) /\ (Amending(Tail(q), c) => Amending(q, c))
<1>1. PICK p : p = Tail(q)
    OBVIOUS
<1>2. /\ Len(q) \in Nat /\ Len(p) = Len(q) - 1
      /\ \A i \in 1..Len(p) : p[i] = q[i + 1] /\ i + 1 \in 1..Len(q) /\ i \in Nat
    BY <1>1, TailIs
<1>3. Amending(p, c) => Amending(q, c)
    BY <1>2 DEF Amending
<1>4. ASSUME NEW i \in 1..Len(p), NEW j \in 1..Len(p), p[i].ev = "replaced", p[i].c = c,
             p[j].ev = "replaced", p[j].c = c
      PROVE  i = j
  <2>1. i + 1 = j + 1
      BY <1>2, <1>4 DEF Alone
  <2> QED
      BY <1>2, <2>1
<1> QED
    BY <1>1, <1>3, <1>4 DEF Alone

\* The history of the tail begins after the head.
LEMMA HistoryTail ==
    ASSUME NEW q \in Seq(Event), q # <<>>, NEW o, NEW c, NEW f, History(f, q, o, c),
           NEW g, g = [i \in 0..Len(q) - 1 |-> f[i + 1]]
    PROVE  /\ History(g, Tail(q), o, c) /\ g[0] = f[1] /\ f[0] \in Lots /\ f[1] \in Lots
           /\ \A a : Promised(a, f, q, c) => Promised(a, g, Tail(q), c)
<1>1. PICK p : p = Tail(q)
    OBVIOUS
<1>2. PICK n \in Nat : n + 1 = Len(q)
    BY TailIs
<1>3. /\ Len(p) = n /\ \A i \in 1..n : p[i] = q[i + 1] /\ i + 1 \in 1..n + 1
      /\ f \in [0..n + 1 -> Lots] /\ f[n + 1] = o.leaves
    BY <1>1, <1>2, TailIs DEF History
<1>4. g = [i \in 0..n |-> f[i + 1]]
    BY <1>2
<1>5. g \in [0..n -> Lots] /\ g[n] = o.leaves /\ g[0] = f[1] /\ \A i \in 0..n : g[i] = f[i + 1]
    BY <1>3, <1>4
<1>6. ASSUME NEW i \in 1..n
      PROVE  /\ p[i].c # c \/ p[i].ev \notin {"trade", "replaced"} => g[i] = g[i - 1]
             /\ p[i].c = c /\ p[i].ev = "trade" => g[i] = g[i - 1] - p[i].qty
             /\ p[i].c = c /\ p[i].ev = "new" =>
                   /\ g[i] = p[i].qty
                   /\ \A j \in 1..i - 1 : p[j].c = c => p[j].ev \notin {"trade", "new", "replaced"}
  <2>1. g[i] = f[i + 1] /\ g[i - 1] = f[(i + 1) - 1] /\ p[i] = q[i + 1] /\ i + 1 \in 1..Len(q)
    <3>1. i - 1 \in 0..n /\ (i - 1) + 1 = (i + 1) - 1
        OBVIOUS
    <3> QED
        BY <1>2, <1>3, <1>5, <3>1
  <2>2. ASSUME p[i].c = c, p[i].ev = "new", NEW j \in 1..i - 1, p[j].c = c
        PROVE  p[j].ev \notin {"trade", "new", "replaced"}
    <3>1. j \in 1..n /\ j + 1 \in 1..(i + 1) - 1
        OBVIOUS
    <3> QED
        BY <1>3, <2>1, <2>2, <3>1 DEF History
  <2> QED
      BY <2>1, <2>2 DEF History
<1>7. History(g, p, o, c)
    BY <1>3, <1>5, <1>6 DEF History
<1>8. ASSUME NEW a, Promised(a, f, q, c) PROVE Promised(a, g, p, c)
    BY <1>2, <1>3, <1>5, <1>8 DEF Promised
<1> QED
    BY <1>1, <1>2, <1>3, <1>5, <1>7, <1>8

\* An event that says nothing of what order c has left.
Bland(e, c) == e.c # c \/ e.ev \notin {"new", "trade", "replaced"}

\* Such an event is taken.
LEMMA BlandTail ==
    ASSUME NEW q \in Seq(Event), q # <<>>, NEW c, Bland(q[1], c), NEW a, NEW o, NEW r,
           Alone(q, r, c), OnTrack(a, o, q, r, c)
    PROVE  Alone(Tail(q), r, c) /\ OnTrack(a, o, Tail(q), r, c)
<1>1. Alone(Tail(q), r, c) /\ (Amending(Tail(q), c) => Amending(q, c))
    BY AloneTail
<1>2. Engaged(Tail(q), r, c) => Engaged(q, r, c)
    BY <1>1 DEF Engaged
<1>3. ASSUME Followed(a, o, q, c) PROVE Followed(a, o, Tail(q), c)
  <2>1. PICK f : /\ History(f, q, o, c) /\ Promised(a, f, q, c)
                 /\ Mine(a, o, c, f[0]) \/ Awaited(a, q, c, f[0])
      BY <1>3 DEF Followed
  <2>2. PICK g : g = [i \in 0..Len(q) - 1 |-> f[i + 1]]
      OBVIOUS
  <2>3. History(g, Tail(q), o, c) /\ Promised(a, g, Tail(q), c) /\ g[0] = f[1]
      BY <2>1, <2>2, HistoryTail
  <2>4. f[1] = f[0]
    <3>1. 1 \in 1..Len(q) /\ 1 - 1 = 0
        BY TailIs
    <3> QED
        BY <2>1, <3>1 DEF History, Bland
  <2>5. ASSUME Awaited(a, q, c, f[0]) PROVE Awaited(a, Tail(q), c, f[0])
    <3>1. PICK i \in 1..Len(q) : q[i].ev = "new" /\ q[i].c = c
        BY <2>5 DEF Awaited
    <3>2. i # 1
        BY <3>1 DEF Bland
    <3>3. i - 1 \in 1..Len(q) - 1 /\ (i - 1) + 1 = i
        BY <3>2, TailIs
    <3>4. Tail(q)[i - 1] = q[i] /\ i - 1 \in 1..Len(Tail(q))
        BY <3>3, TailIs
    <3> QED
        BY <2>5, <3>1, <3>4 DEF Awaited
  <2> QED
      BY <2>1, <2>3, <2>4, <2>5 DEF Followed
<1> QED
    BY <1>1, <1>2, <1>3 DEF OnTrack

\* The venue emits an event.
LEMMA AppendIs ==
    ASSUME NEW q \in Seq(Event), NEW e \in Event
    PROVE  /\ Len(q) \in Nat /\ Len(Append(q, e)) = Len(q) + 1 /\ Append(q, e) \in Seq(Event)
           /\ Append(q, e)[Len(q) + 1] = e /\ Len(q) + 1 \in 1..Len(Append(q, e))
           /\ \A i \in 1..Len(q) : Append(q, e)[i] = q[i] /\ i \in 1..Len(Append(q, e))
           /\ \A i \in 1..Len(Append(q, e)) : i \in 1..Len(q) \/ i = Len(q) + 1
OBVIOUS

\* An event that is no replacement of the order is emitted.
LEMMA AloneAppend ==
    ASSUME NEW q \in Seq(Event), NEW e \in Event, NEW c, e.c # c \/ e.ev # "replaced", NEW r,
           Alone(q, r, c)
    PROVE  Alone(Append(q, e), r, c) /\ (Amending(Append(q, e), c) => Amending(q, c))
<1>1. PICK p : p = Append(q, e)
    OBVIOUS
<1>2. PICK n \in Nat : n = Len(q)
    BY AppendIs
<1>3. /\ Len(p) = n + 1 /\ p[n + 1] = e /\ \A i \in 1..n : p[i] = q[i]
      /\ \A i \in 1..n + 1 : i \in 1..n \/ i = n + 1
    BY <1>1, <1>2, AppendIs
<1>4. \A i \in 1..Len(p) : p[i].ev = "replaced" /\ p[i].c = c => i \in 1..Len(q) /\ p[i] = q[i]
    BY <1>2, <1>3
<1> QED
    BY <1>1, <1>4 DEF Alone, Amending

\* What the order has left after it, n, continues its history.
LEMMA HistoryAppend ==
    ASSUME NEW q \in Seq(Event), NEW e \in Event, NEW o, NEW c, NEW f, History(f, q, o, c),
           NEW u, u.leaves \in Lots,
           e.c # c \/ e.ev # "new",
           e.c # c \/ e.ev \notin {"trade", "replaced"} => u.leaves = o.leaves,
           e.c = c /\ e.ev = "trade" => u.leaves = o.leaves - e.qty
    PROVE  \E g : /\ History(g, Append(q, e), u, c)
                  /\ g[Len(q) + 1] = u.leaves /\ \A i \in 0..Len(q) : g[i] = f[i]
<1>1. PICK p : p = Append(q, e)
    OBVIOUS
<1>2. PICK n \in Nat : n = Len(q)
    BY AppendIs
<1>3. /\ Len(p) = n + 1 /\ p[n + 1] = e /\ \A i \in 1..n : p[i] = q[i]
      /\ f \in [0..n -> Lots] /\ f[n] = o.leaves
    BY <1>1, <1>2, AppendIs DEF History
<1>4. PICK g : g = [i \in 0..n + 1 |-> IF i = n + 1 THEN u.leaves ELSE f[i]]
    OBVIOUS
<1>5. /\ g \in [0..n + 1 -> Lots] /\ g[n + 1] = u.leaves /\ \A i \in 0..n : g[i] = f[i]
    BY <1>3, <1>4
<1>6. ASSUME NEW i \in 1..n + 1
      PROVE  /\ p[i].c # c \/ p[i].ev \notin {"trade", "replaced"} => g[i] = g[i - 1]
             /\ p[i].c = c /\ p[i].ev = "trade" => g[i] = g[i - 1] - p[i].qty
             /\ p[i].c = c /\ p[i].ev = "new" =>
                   /\ g[i] = p[i].qty
                   /\ \A j \in 1..i - 1 : p[j].c = c => p[j].ev \notin {"trade", "new", "replaced"}
  <2>1. CASE i = n + 1
    <3>1. i - 1 = n /\ n \in 0..n
        BY <2>1
    <3>2. p[i] = e /\ g[i] = u.leaves /\ g[i - 1] = o.leaves
        BY <1>3, <1>5, <2>1, <3>1
    <3> QED
        BY <3>2
  <2>2. CASE i # n + 1
    <3>1. i \in 1..n /\ i \in 0..n /\ i - 1 \in 0..n /\ \A j \in 1..i - 1 : j \in 1..n
        BY <2>2
    <3>2. p[i] = q[i] /\ g[i] = f[i] /\ g[i - 1] = f[i - 1] /\ \A j \in 1..i - 1 : p[j] = q[j]
        BY <1>3, <1>5, <3>1
    <3> QED
        BY <1>2, <3>1, <3>2 DEF History
  <2> QED
      BY <2>1, <2>2
<1>7. History(g, p, u, c)
    BY <1>3, <1>5, <1>6 DEF History
<1> QED
    BY <1>1, <1>2, <1>5, <1>7

\* An event that says nothing of what the order has left is emitted.
LEMMA BlandAppend ==
    ASSUME NEW q \in Seq(Event), NEW e \in Event, NEW c, NEW a, NEW o, NEW r,
           e.c # c \/ e.ev # "replaced", o.at = "Live" => Bland(e, c),
           Alone(q, r, c), OnTrack(a, o, q, r, c)
    PROVE  Alone(Append(q, e), r, c) /\ OnTrack(a, o, Append(q, e), r, c)
<1>1. Alone(Append(q, e), r, c) /\ (Amending(Append(q, e), c) => Amending(q, c))
    BY AloneAppend
<1>2. Engaged(Append(q, e), r, c) => Engaged(q, r, c)
    BY <1>1 DEF Engaged
<1>3. ASSUME o.at = "Live", Followed(a, o, q, c) PROVE Followed(a, o, Append(q, e), c)
  <2>1. PICK f : /\ History(f, q, o, c) /\ Promised(a, f, q, c)
                 /\ Mine(a, o, c, f[0]) \/ Awaited(a, q, c, f[0])
      BY <1>3 DEF Followed
  <2>2. o.leaves \in Lots
    <3>1. Len(q) \in 0..Len(q)
        BY AppendIs
    <3> QED
        BY <2>1, <3>1 DEF History
  <2>3. PICK g : /\ History(g, Append(q, e), o, c) /\ \A i \in 0..Len(q) : g[i] = f[i]
      BY <1>3, <2>1, <2>2, HistoryAppend DEF Bland
  <2>4. 0 \in 0..Len(q) /\ \A i \in 1..Len(q) : i \in 0..Len(q)
      BY AppendIs
  <2>5. Promised(a, g, Append(q, e), c)
    <3>1. ASSUME NEW i \in 1..Len(Append(q, e)), Append(q, e)[i].ev = "replaced",
                 Append(q, e)[i].c = c
          PROVE  i \in 1..Len(q) /\ Append(q, e)[i] = q[i]
        BY <3>1, AppendIs
    <3> QED
        BY <2>1, <2>3, <2>4, <3>1 DEF Promised
  <2>6. Awaited(a, q, c, f[0]) => Awaited(a, Append(q, e), c, f[0])
      BY AppendIs DEF Awaited
  <2> QED
      BY <2>1, <2>3, <2>4, <2>5, <2>6 DEF Followed
<1> QED
    BY <1>1, <1>2, <1>3 DEF OnTrack

\* The order is executed in part.
LEMMA TradeAppend ==
    ASSUME NEW q \in Seq(Event), NEW e \in Event, NEW c, NEW a, NEW o, NEW r, NEW u,
           e.c = c, e.ev = "trade", o.at = "Live", u.id = o.id,
           u.leaves \in Lots, u.leaves = o.leaves - e.qty,
           Alone(q, r, c), OnTrack(a, o, q, r, c)
    PROVE  Alone(Append(q, e), r, c) /\ OnTrack(a, u, Append(q, e), r, c)
<1>1. Alone(Append(q, e), r, c) /\ (Amending(Append(q, e), c) => Amending(q, c))
    BY AloneAppend
<1>2. Engaged(Append(q, e), r, c) => Engaged(q, r, c)
    BY <1>1 DEF Engaged
<1>3. Followed(a, u, Append(q, e), c)
  <2>1. PICK f : /\ History(f, q, o, c) /\ Promised(a, f, q, c)
                 /\ Mine(a, o, c, f[0]) \/ Awaited(a, q, c, f[0])
      BY DEF OnTrack, Followed
  <2>2. PICK g : /\ History(g, Append(q, e), u, c) /\ \A i \in 0..Len(q) : g[i] = f[i]
      BY <2>1, HistoryAppend
  <2>3. 0 \in 0..Len(q) /\ \A i \in 1..Len(q) : i \in 0..Len(q)
      BY AppendIs
  <2>4. Promised(a, g, Append(q, e), c)
    <3>1. ASSUME NEW i \in 1..Len(Append(q, e)), Append(q, e)[i].ev = "replaced",
                 Append(q, e)[i].c = c
          PROVE  i \in 1..Len(q) /\ Append(q, e)[i] = q[i]
        BY <3>1, AppendIs
    <3> QED
        BY <2>1, <2>2, <2>3, <3>1 DEF Promised
  <2>5. Awaited(a, q, c, f[0]) => Awaited(a, Append(q, e), c, f[0])
      BY AppendIs DEF Awaited
  <2>6. Mine(a, o, c, f[0]) => Mine(a, u, c, f[0])
      BY DEF Mine
  <2> QED
      BY <2>1, <2>2, <2>3, <2>4, <2>5, <2>6 DEF Followed
<1> QED
    BY <1>1, <1>2, <1>3 DEF OnTrack

\* The order rests: the account awaits it.
LEMMA NewAppend ==
    ASSUME NEW q \in Seq(Event), NEW e \in Event, NEW c, NEW a, NEW o, NEW r, NEW u,
           e.c = c, e.ev = "new", u.at = "Live", u.leaves = e.qty, e.qty \in Lots,
           \A i \in 1..Len(q) : q[i].c = c => q[i].ev \notin {"trade", "new", "replaced"},
           c \in a.ordersClID => a.orders[c].status = "PendingNew" /\ a.orders[c].leaves = e.qty,
           Alone(q, r, c), OnTrack(a, o, q, r, c)
    PROVE  Alone(Append(q, e), r, c) /\ OnTrack(a, u, Append(q, e), r, c)
<1>1. Alone(Append(q, e), r, c) /\ (Amending(Append(q, e), c) => Amending(q, c))
    BY AloneAppend
<1>2. Engaged(Append(q, e), r, c) => Engaged(q, r, c)
    BY <1>1 DEF Engaged
<1>3. Followed(a, u, Append(q, e), c)
  <2>1. PICK p : p = Append(q, e)
      OBVIOUS
  <2>2. PICK n \in Nat : n = Len(q)
      BY AppendIs
  <2>3. /\ Len(p) = n + 1 /\ p[n + 1] = e /\ \A i \in 1..n : p[i] = q[i]
        /\ \A i \in 1..n + 1 : i \in 1..n \/ i = n + 1
      BY <2>1, <2>2, AppendIs
  <2>4. PICK f : f = [i \in 0..n + 1 |-> u.leaves]
      OBVIOUS
  <2>5. f \in [0..n + 1 -> Lots] /\ \A i \in 0..n + 1 : f[i] = e.qty
      BY <2>4
  <2>6. \A i \in 1..n + 1 : i \in 0..n + 1 /\ i - 1 \in 0..n + 1 /\ \A j \in 1..i - 1 : j \in 1..n
      OBVIOUS
  <2>7. \A i \in 1..n : p[i].c = c => p[i].ev \notin {"trade", "new", "replaced"}
      BY <2>2, <2>3
  <2>8. History(f, p, u, c)
    <3>1. 0 \in 0..n + 1 /\ n + 1 \in 0..n + 1
        OBVIOUS
    <3>2. ASSUME NEW i \in 1..n + 1
          PROVE  /\ f[i] = f[i - 1]
                 /\ p[i].c = c => p[i].ev \notin {"trade", "replaced"}
                 /\ p[i].c = c /\ p[i].ev = "new" => f[i] = p[i].qty
                 /\ \A j \in 1..i - 1 : p[j].c = c => p[j].ev \notin {"trade", "new", "replaced"}
      <4>1. i = n + 1 \/ i \in 1..n
          BY <2>3
      <4>2. f[i] = f[i - 1] /\ f[i] = e.qty
          BY <2>5, <2>6
      <4>3. \A j \in 1..i - 1 : p[j].c = c => p[j].ev \notin {"trade", "new", "replaced"}
          BY <2>6, <2>7
      <4> QED
          BY <2>3, <2>7, <4>1, <4>2, <4>3
    <3> QED
        BY <2>3, <2>5, <3>1, <3>2 DEF History
  <2>9. f[0] = e.qty
      BY <2>5
  <2>10. Promised(a, f, p, c)
      BY <2>3, <2>7 DEF Promised
  <2>11. Awaited(a, p, c, f[0])
    <3>1. p[n + 1].ev = "new" /\ p[n + 1].c = c /\ n + 1 \in 1..Len(p)
        BY <2>3
    <3> QED
        BY <2>9, <3>1 DEF Awaited
  <2> QED
      BY <2>1, <2>8, <2>10, <2>11 DEF Followed
<1> QED
    BY <1>1, <1>2, <1>3 DEF OnTrack

\* The order has another quantity left, as request k asked: the request is settled
\* and its confirmation is on its way.
LEMMA ReplacedAppend ==
    ASSUME NEW q \in Seq(Event), NEW e \in Event, NEW c, NEW a, NEW o, NEW r, NEW s, NEW u,
           e.c = c, e.ev = "replaced", o.at = "Live", u.at = "Live", u.id = o.id,
           u.leaves \in Lots,
           NEW k \in Replacements, r[k].ans = "waiting", c \in r[k].cs, u.leaves = r[k].qty,
           Eases(r, s, c), ~Claimed(s, k, c),
           Alone(q, r, c), OnTrack(a, o, q, r, c)
    PROVE  Alone(Append(q, e), s, c) /\ OnTrack(a, u, Append(q, e), s, c)
<1>1. Alone(q, s, c) /\ OnTrack(a, o, q, s, c)
    BY EasedTrack
<1>2. Claimed(r, k, c) /\ ~Amending(q, c)
    BY DEF Claimed, Alone
<1>3. \A j \in Replacements : ~Claimed(s, j, c)
  <2>1. \A j \in Replacements : Claimed(s, j, c) => Claimed(r, j, c)
      BY DEF Eases, Replacements, Kinds
  <2> QED
      BY <1>2, <2>1 DEF Alone, Replacements
<1>4. a.orders[c].status \notin Ready
    BY <1>2 DEF OnTrack, Engaged
<1>5. \A i \in 1..Len(Append(q, e)) :
          Append(q, e)[i].ev = "replaced" /\ Append(q, e)[i].c = c => i = Len(q) + 1
    BY <1>2, AppendIs DEF Amending
<1>6. Alone(Append(q, e), s, c)
    BY <1>3, <1>5 DEF Alone, Replacements
<1>7. Followed(a, u, Append(q, e), c)
  <2>1. PICK f : /\ History(f, q, o, c) /\ Promised(a, f, q, c)
                 /\ Mine(a, o, c, f[0]) \/ Awaited(a, q, c, f[0])
      BY DEF OnTrack, Followed
  <2>2. PICK g : /\ History(g, Append(q, e), u, c) /\ \A i \in 0..Len(q) : g[i] = f[i]
                 /\ g[Len(q) + 1] = u.leaves
      BY <2>1, HistoryAppend
  <2>3. 0 \in 0..Len(q)
      BY AppendIs
  <2>4. a.orders[c].status = "PendingReplace" => a.orders[c].amendQty = u.leaves
      BY DEF OnTrack
  <2>5. Promised(a, g, Append(q, e), c)
      BY <1>5, <2>2, <2>4 DEF Promised
  <2>6. Awaited(a, q, c, f[0]) => Awaited(a, Append(q, e), c, f[0])
      BY AppendIs DEF Awaited
  <2>7. Mine(a, o, c, f[0]) => Mine(a, u, c, f[0])
      BY DEF Mine
  <2> QED
      BY <2>1, <2>2, <2>3, <2>5, <2>6, <2>7 DEF Followed
<1> QED
    BY <1>1, <1>4, <1>6, <1>7 DEF OnTrack

\* Event by event, what the venue emits leads from R[0] to R[n].
LEMMA EmitReaches ==
    ASSUME StateTypes, stream.up, NEW events \in Seq(Event), Emit(events),
           NEW R, stream.q \in R[0],
           \A i \in 1..Len(events) : \A q \in R[i - 1] :
               IF Carries(events[i].ev) THEN Append(q, events[i]) \in R[i] ELSE q \in R[i]
    PROVE  stream'.up /\ stream'.q \in R[Len(events)]
<1> DEFINE T == {e \in Event : Carries(e.ev)}
           G(f) == [i \in 0..Len(events) |->
                      IF i = 0 THEN stream.q
                      ELSE IF Carries(events[i].ev) THEN Append(f[i - 1], events[i])
                      ELSE f[i - 1]]
<1>1. (\A i \in 1..Len(events) : events[i] \in Event) /\ Len(events) \in Nat
    OBVIOUS
<1>2. \A i \in 1..Len(events) : Carries(events[i].ev) <=> events[i] \in T
    BY <1>1
<1>3. ASSUME NEW h PROVE h = G(h) <=> Kept(h, stream.q, events, T)
  <2> HIDE DEF T
  <2> QED
      BY <1>1, <1>2 DEF Kept
<1>4. PICK h : h = CHOOSE f : f = G(f)
    OBVIOUS
<1>5. Kept(h, stream.q, events, T)
  <2>1. \E f : Kept(f, stream.q, events, T)
      BY <1>1, KeptExists
  <2> HIDE DEF G
  <2> QED
      BY <1>3, <1>4, <2>1
<1>6. stream' = [stream EXCEPT !.q = h[Len(events)]]
    BY <1>4 DEF Emit
<1> HIDE DEF T, G
<1>7. \A i \in 1..Len(events) : \A q \in R[i - 1] :
          IF events[i] \in T THEN Append(q, events[i]) \in R[i] ELSE q \in R[i]
    BY <1>2
<1>8. h[Len(events)] \in R[Len(events)]
    BY <1>1, <1>5, <1>7, KeptReaches
<1> QED
    BY <1>6, <1>8 DEF StateTypes

\* Of the events of several orders one is this order's.
LEMMA InSequenceReaches ==
    ASSUME StateTypes, stream.up, NEW cs \in SUBSET ClIDs, NEW event,
           \A d \in cs : event[d] \in Event, InSequence(cs, event),
           NEW c, NEW B, NEW A, stream.q \in B,
           \A d \in cs \ {c}, q \in B : Carries(event[d].ev) => Append(q, event[d]) \in B,
           \A d \in cs \ {c}, q \in A : Carries(event[d].ev) => Append(q, event[d]) \in A,
           c \in cs => \A q \in B : IF Carries(event[c].ev) THEN Append(q, event[c]) \in A
                                    ELSE q \in A,
           c \notin cs => A = B
    PROVE  stream'.up /\ stream'.q \in A
<1>1. PICK s \in SetToSeqs(cs) : Emit([i \in DOMAIN s |-> event[s[i]]])
    BY DEF InSequence
<1>2. IsFiniteSet(cs)
    BY VenueOrderBounds, FS_Subset
<1>3. s \in Seq(ClIDs) /\ \A i \in 1..Len(s) : s[i] \in cs
    BY <1>1, <1>2, SequencesOf
<1>4. PICK es : es = [i \in DOMAIN s |-> event[s[i]]]
    OBVIOUS
<1>5. PICK n \in Nat : DOMAIN s = 1..n /\ Len(s) = n
    BY <1>3
<1>6. es = [i \in 1..n |-> event[s[i]]] /\ \A i \in 1..n : event[s[i]] \in Event
    BY <1>3, <1>4, <1>5
<1>7. es \in Seq(Event) /\ Len(es) = n /\ \A i \in 1..n : es[i] = event[s[i]]
    BY <1>6
<1>8. CASE c \notin cs
  <2>1. PICK R : R = [i \in 0..n |-> B]
      OBVIOUS
  <2>2. R[0] = B /\ \A i \in 1..n : R[i] = B /\ R[i - 1] = B
      BY <2>1
  <2>3. ASSUME NEW i \in 1..n, NEW q \in R[i - 1]
        PROVE  IF Carries(es[i].ev) THEN Append(q, es[i]) \in R[i] ELSE q \in R[i]
    <3>1. R[i] = B /\ q \in B
        BY <2>2, <2>3
    <3>2. s[i] \in cs \ {c} /\ es[i] = event[s[i]]
        BY <1>3, <1>5, <1>7, <1>8
    <3> QED
        BY <3>1, <3>2
  <2>4. stream'.up /\ stream'.q \in R[n]
      BY <1>1, <1>4, <1>7, <2>2, <2>3, EmitReaches
  <2>5. R[n] = B
      BY <2>1
  <2> QED
      BY <1>8, <2>4, <2>5
<1>9. CASE c \in cs
  <2>1. PICK m \in 1..n : \A j \in 1..n : s[j] = c <=> j = m
    <3>1. \E i \in 1..Len(s) : \A j \in 1..Len(s) : s[j] = c <=> j = i
        BY <1>2, <1>9, SequencesOfAll
    <3> QED
        BY <1>5, <3>1
  <2>2. PICK R : R = [i \in 0..n |-> IF i < m THEN B ELSE A]
      OBVIOUS
  <2>3. R[0] = B /\ R[n] = A
      BY <2>1, <2>2
  <2>4. ASSUME NEW i \in 1..n, NEW q \in R[i - 1]
        PROVE  IF Carries(es[i].ev) THEN Append(q, es[i]) \in R[i] ELSE q \in R[i]
    <3>1. i \in 0..n /\ i - 1 \in 0..n /\ es[i] = event[s[i]] /\ s[i] \in cs
        BY <1>3, <1>5, <1>7
    <3>2. CASE i < m
      <4>1. R[i] = B /\ R[i - 1] = B /\ s[i] # c
          BY <2>1, <2>2, <3>1, <3>2
      <4> QED
          BY <2>4, <3>1, <4>1
    <3>3. CASE i = m
      <4>1. R[i] = A /\ R[i - 1] = B /\ s[i] = c
          BY <2>1, <2>2, <3>1, <3>3
      <4> QED
          BY <1>9, <2>4, <3>1, <4>1
    <3>4. CASE i > m
      <4>1. ~(i < m) /\ ~(i - 1 < m) /\ i # m
          BY <3>4
      <4>2. R[i] = A /\ R[i - 1] = A /\ s[i] # c
          BY <2>1, <2>2, <3>1, <4>1
      <4> QED
          BY <2>4, <3>1, <4>2
    <3> QED
        BY <3>2, <3>3, <3>4
  <2>5. stream'.up /\ stream'.q \in R[n]
      BY <1>1, <1>4, <1>7, <2>3, <2>4, EmitReaches
  <2> QED
      BY <2>3, <2>5
<1> QED
    BY <1>8, <1>9

\* The case of an order whose event is heard.
LEMMA OneInSequence ==
    ASSUME StateTypes, stream.up, NEW cs \in SUBSET ClIDs, NEW event,
           \A d \in cs : event[d] \in Event, InSequence(cs, event),
           NEW c \in cs, NEW B, NEW A, stream.q \in B,
           \A d \in cs \ {c}, q \in B : Append(q, event[d]) \in B,
           \A d \in cs \ {c}, q \in A : Append(q, event[d]) \in A,
           Carries(event[c].ev), \A q \in B : Append(q, event[c]) \in A
    PROVE  stream'.q \in A
BY InSequenceReaches

\* Events that say nothing of what an order has left.
LEMMA EmitBland ==
    ASSUME StateTypes, stream.up, NEW events \in Seq(Event), Emit(events),
           NEW c, NEW a, NEW o, NEW r,
           \A i \in 1..Len(events) : /\ events[i].c # c \/ events[i].ev # "replaced"
                                     /\ o.at = "Live" => Bland(events[i], c),
           Alone(stream.q, r, c), OnTrack(a, o, stream.q, r, c)
    PROVE  stream'.up /\ Alone(stream'.q, r, c) /\ OnTrack(a, o, stream'.q, r, c)
<1>1. PICK B : B = {q \in Seq(Event) : Alone(q, r, c) /\ OnTrack(a, o, q, r, c)}
    OBVIOUS
<1>2. PICK n \in Nat : n = Len(events) /\ \A i \in 1..n : events[i] \in Event
    OBVIOUS
<1>3. PICK R : R = [i \in 0..n |-> B]
    OBVIOUS
<1>4. R[0] = B /\ R[n] = B /\ \A i \in 1..n : R[i] = B /\ R[i - 1] = B
    BY <1>3
<1>5. ASSUME NEW i \in 1..n, NEW q \in B PROVE Append(q, events[i]) \in B
    BY <1>1, <1>2, <1>5, BlandAppend, AppendIs
<1>6. stream.q \in B
    BY <1>1 DEF StateTypes
<1>7. stream'.up /\ stream'.q \in R[n]
    BY <1>2, <1>4, <1>5, <1>6, EmitReaches
<1> QED
    BY <1>1, <1>4, <1>7

\* Several orders' events that say nothing of what they have left.
LEMMA InSequenceBland ==
    ASSUME StateTypes, stream.up, NEW cs \in SUBSET ClIDs, NEW event,
           \A d \in cs : event[d] \in Event /\ event[d].ev \notin {"new", "trade", "replaced"},
           InSequence(cs, event), NEW c, NEW a, NEW o, NEW r,
           Alone(stream.q, r, c), OnTrack(a, o, stream.q, r, c)
    PROVE  stream'.up /\ Alone(stream'.q, r, c) /\ OnTrack(a, o, stream'.q, r, c)
<1>1. PICK B : B = {q \in Seq(Event) : Alone(q, r, c) /\ OnTrack(a, o, q, r, c)}
    OBVIOUS
<1>2. ASSUME NEW d \in cs, NEW q \in B PROVE Append(q, event[d]) \in B
    BY <1>1, <1>2, BlandAppend, AppendIs DEF Bland
<1>3. stream.q \in B
    BY <1>1 DEF StateTypes
<1>4. stream'.up /\ stream'.q \in B
    BY <1>2, <1>3, InSequenceReaches
<1> QED
    BY <1>1, <1>4

\* What an event of the queue tells of has happened, at venues e.
Told(e, x) ==
    /\ x.ev # "rejected" => e[x.c].at # "None"
    /\ x.ev = "replaced" => rules.replace = "stream"

\* The venue emits events that tell of what has happened.
LEMMA EmitTold ==
    ASSUME StateTypes, stream.up, NEW e, \A i \in 1..Len(stream.q) : Told(e, stream.q[i]),
           NEW T, T = {x \in Event : Told(e, x)}, NEW events \in Seq(T), Emit(events)
    PROVE  stream'.up /\ \A i \in 1..Len(stream'.q) : Told(e, stream'.q[i])
<1>1. PICK n \in Nat : n = Len(events) /\ \A i \in 1..n : events[i] \in T
    OBVIOUS
<1>2. PICK R : R = [i \in 0..n |-> Seq(T)]
    OBVIOUS
<1>3. R[0] = Seq(T) /\ R[n] = Seq(T) /\ \A i \in 1..n : R[i] = Seq(T) /\ R[i - 1] = Seq(T)
    BY <1>2
<1>4. stream.q \in R[0] /\ events \in Seq(Event)
  <2>1. stream.q \in Seq(Event)
      BY DEF StateTypes
  <2>2. \A i \in 1..Len(stream.q) : stream.q[i] \in T
      BY <2>1
  <2>3. \A q \in Seq(Event) : (\A i \in 1..Len(q) : q[i] \in T) => q \in Seq(T)
      OBVIOUS
  <2>4. \A q \in Seq(T) : q \in Seq(Event)
      OBVIOUS
  <2> QED
      BY <1>3, <2>1, <2>2, <2>3, <2>4
<1>5. ASSUME NEW i \in 1..n, NEW q \in R[i - 1]
      PROVE  IF Carries(events[i].ev) THEN Append(q, events[i]) \in R[i] ELSE q \in R[i]
  <2>1. q \in Seq(T) /\ R[i] = Seq(T) /\ events[i] \in T
      BY <1>1, <1>3, <1>5
  <2>2. Append(q, events[i]) \in Seq(T)
      BY <2>1
  <2> QED
      BY <2>1, <2>2
<1>6. stream'.up /\ stream'.q \in R[n]
    BY <1>1, <1>4, <1>5, EmitReaches
<1>7. \A i \in 1..Len(stream'.q) : stream'.q[i] \in T
    BY <1>3, <1>6
<1> QED
    BY <1>6, <1>7

\* The same for the events of several orders.
LEMMA InSequenceTold ==
    ASSUME StateTypes, stream.up, NEW e, \A i \in 1..Len(stream.q) : Told(e, stream.q[i]),
           NEW cs \in SUBSET ClIDs, NEW event,
           \A d \in cs : event[d] \in Event /\ Told(e, event[d]), InSequence(cs, event)
    PROVE  stream'.up /\ \A i \in 1..Len(stream'.q) : Told(e, stream'.q[i])
<1>1. PICK s \in SetToSeqs(cs) : Emit([i \in DOMAIN s |-> event[s[i]]])
    BY DEF InSequence
<1>2. IsFiniteSet(cs)
    BY VenueOrderBounds, FS_Subset
<1>3. s \in Seq(ClIDs) /\ \A i \in 1..Len(s) : s[i] \in cs
    BY <1>1, <1>2, SequencesOf
<1>4. PICK es : es = [i \in DOMAIN s |-> event[s[i]]]
    OBVIOUS
<1>5. PICK n \in Nat : DOMAIN s = 1..n /\ Len(s) = n
    BY <1>3
<1>6. PICK T : T = {x \in Event : Told(e, x)}
    OBVIOUS
<1>7. es = [i \in 1..n |-> event[s[i]]] /\ \A i \in 1..n : event[s[i]] \in T
    BY <1>3, <1>4, <1>5, <1>6
<1>8. es \in Seq(T)
    BY <1>7
<1> QED
    BY <1>1, <1>4, <1>6, <1>8, EmitTold

\* An order that does not work at the venue has nothing to follow.
LEMMA RestTrack ==
    ASSUME NEW a, NEW o, NEW u, NEW q, NEW r, NEW c, OnTrack(a, o, q, r, c), u.at # "Live"
    PROVE  OnTrack(a, u, q, r, c)
BY DEF OnTrack

\* What a step has to show.
LEMMA TrackingStep ==
    ASSUME rules' = rules, stream'.up, Planned(exch', stream'.q, call'),
           Confirmable(stream'.q, call'),
           \A c \in ClIDs : /\ Alone(stream'.q, call', c)
                            /\ OnTrack(acct', exch'[c], stream'.q, call', c)
    PROVE  Tracking'
BY DEF Tracking, AllOnTrack, Confirmable

\* What is known of all orders before the step.
LEMMA TrackedBefore ==
    ASSUME Tracking, rules' = rules, Following', spotless' => spotless,
           phase' = "running" => phase = "running"
    PROVE  /\ Following /\ stream.up /\ AllOnTrack(acct, exch, stream.q, call)
           /\ Planned(exch, stream.q, call) /\ Confirmable(stream.q, call)
           /\ \A c \in ClIDs : /\ Alone(stream.q, call, c)
                               /\ OnTrack(acct, exch[c], stream.q, call, c)
           /\ \A i \in 1..Len(stream.q) : Told(exch, stream.q[i])
<1>1. Following /\ stream.up /\ AllOnTrack(acct, exch, stream.q, call)
    BY DEF Tracking, Following, Carries
<1> QED
    BY <1>1 DEF AllOnTrack, Planned, Confirmable, Told

\* A request that reaches the venue.
LEMMA ArrivedEases ==
    ASSUME StateTypes, NEW k \in Kinds, NEW a \in Final, Arrived(k, a), NEW c
    PROVE  /\ Eases(call, call', c)
           /\ k \in Replacements /\ a = "ok" /\ call[k].ans = "waiting" => ~Claimed(call', k, c)
<1>1. \A j \in Kinds \ {k} : call'[j] = call[j]
    BY DEF StateTypes, Arrived
<1>2. call'[k] = IF call[k].ans = "none" THEN [NoCall EXCEPT !.owed = call[k].owed]
                 ELSE [call[k] EXCEPT !.sent = FALSE,
                                      !.ans = IF call[k].ans = "waiting" THEN a ELSE call[k].ans]
    BY DEF StateTypes, Arrived
<1>3. PICK r \in CallType : r = call[k]
    BY DEF StateTypes
<1>4. PICK n : n = call'[k]
    OBVIOUS
<1>5. /\ n.sent = FALSE
      /\ r.ans = "none" => n.ans = "none"
      /\ r.ans # "none" => n.cs = r.cs /\ n.qty = r.qty
                           /\ n.ans = IF r.ans = "waiting" THEN a ELSE r.ans
    BY <1>2, <1>3, <1>4 DEF NoCall, CallType
<1>6. a # "waiting" /\ a # "none"
    BY DEF Final
<1> QED
    BY <1>1, <1>3, <1>4, <1>5, <1>6 DEF Eases, Claimed

\* What the arrival of a request has to show.
LEMMA ArrivalTrack ==
    ASSUME IInv, NEW k \in Kinds, Arrival(k), NEW a \in Final \ {"timeout"}, Arrived(k, a),
           Planned(exch, stream.q, call), Confirmable(stream.q, call),
           \A c \in ClIDs : exch[c].at # "None" => exch'[c].at # "None",
           a \in {"ok", "filled", "expired"} /\ k \in {"new", "bulk"} =>
               \A c \in call[k].cs : exch'[c].at # "None",
           stream'.up, \A i \in 1..Len(stream'.q) : Told(exch', stream'.q[i]),
           \A c \in ClIDs : /\ Alone(stream'.q, call', c)
                            /\ OnTrack(acct, exch'[c], stream'.q, call', c)
    PROVE  Tracking'
<1>1. /\ StateTypes /\ call[k].sent /\ rules' = rules /\ acct' = acct
      /\ \A j \in Kinds : \A c \in call[j].cs : c \in ClIDs
    BY DEF IInv, Arrival, StateTypes, CallType
<1>2. \A j \in Kinds \ {k} : call'[j] = call[j]
    BY <1>1 DEF StateTypes, Arrived
<1>3. call'[k] = IF call[k].ans = "none" THEN [NoCall EXCEPT !.owed = call[k].owed]
                 ELSE [call[k] EXCEPT !.sent = FALSE,
                                      !.ans = IF call[k].ans = "waiting" THEN a ELSE call[k].ans]
    BY <1>1 DEF StateTypes, Arrived
<1>4. PICK r \in CallType : r = call[k]
    BY <1>1 DEF StateTypes
<1>5. PICK n : n = call'[k]
    OBVIOUS
<1>6. /\ n.sent = FALSE
      /\ r.ans = "none" => n.ans = "none"
      /\ r.ans # "none" => n.cs = r.cs /\ n.ans = IF r.ans = "waiting" THEN a ELSE r.ans
    BY <1>3, <1>4, <1>5 DEF NoCall, CallType
<1>7. \A j \in {"new", "bulk"} : call'[j].ans \in {"ok", "filled", "expired"} =>
          \A c \in call'[j].cs : exch'[c].at # "None"
  <2>1. ASSUME NEW j \in {"new", "bulk"}, call'[j].ans \in {"ok", "filled", "expired"},
               NEW c \in call'[j].cs
        PROVE  exch'[c].at # "None"
    <3>1. j \in Kinds
        BY DEF Kinds
    <3>2. CASE j # k \/ r.ans # "waiting"
      <4>1. call[j].ans \in {"ok", "filled", "expired"} /\ c \in call[j].cs
          BY <1>2, <1>4, <1>5, <1>6, <2>1, <3>1, <3>2
      <4>2. c \in ClIDs /\ exch[c].at # "None"
          BY <1>1, <3>1, <4>1 DEF Planned
      <4> QED
          BY <4>2
    <3>3. CASE j = k /\ r.ans = "waiting"
        BY <1>4, <1>5, <1>6, <2>1, <3>3
    <3> QED
        BY <3>2, <3>3
  <2> QED
      BY <2>1
<1>8. \A j \in Replacements : /\ call'[j].sent => call'[j].ans = "waiting"
                              /\ call'[j].ans # "timeout"
    BY <1>2, <1>4, <1>5, <1>6 DEF Planned, Replacements, Kinds
<1>9. Planned(exch', stream'.q, call')
    BY <1>7, <1>8 DEF Planned, Told
<1>10. \A j \in Replacements : call'[j].sent \/ call'[j].ans # "none" =>
           call[j].sent \/ call[j].ans # "none"
    BY <1>2, <1>4, <1>5, <1>6 DEF Replacements, Kinds
<1>11. Confirmable(stream'.q, call')
    BY <1>10 DEF Confirmable, Told
<1> QED
    BY <1>1, <1>9, <1>11, TrackingStep

\* A request that arrives and tells nothing of what the orders that work have left.
LEMMA BlandArrival ==
    ASSUME IInv, NEW k \in Kinds, Arrival(k), NEW a \in Final, Arrived(k, a),
           NEW c, Alone(stream.q, call, c), OnTrack(acct, exch[c], stream.q, call, c),
           exch'[c] = exch[c] \/ exch'[c].at # "Live"
    PROVE  /\ Alone(stream.q, call', c)
           /\ OnTrack(acct, exch'[c], stream.q, call', c)
<1>1. StateTypes
    BY DEF IInv
<1>2. Eases(call, call', c)
    BY <1>1, ArrivedEases
<1>3. Alone(stream.q, call', c) /\ OnTrack(acct, exch[c], stream.q, call', c)
    BY <1>2, EasedTrack
<1> QED
    BY <1>3, RestTrack

\* Orders come to rest.
LEMMA OrdersRestTrack ==
    ASSUME IInv, Tracking, Telling(rules), NEW k \in {"new", "bulk"}, OrdersRest(k)
    PROVE  Tracking'
<1> SUFFICES ASSUME Following' PROVE Tracking'
    BY DEF Tracking
<1> PICK cs, qty : cs = call[k].cs /\ qty = call[k].qty
    OBVIOUS
<1> PICK event : event = [c \in ClIDs |-> Happened("new", c, IdOf[c], qty)]
    OBVIOUS
<1>1. Arrival(k) /\ Arrived(k, "ok") /\ InSequence(cs, event) /\ call[k].sent
      /\ exch' = [c \in ClIDs |-> IF c \in cs THEN Placed(c, "Live", qty, 0) ELSE exch[c]]
      /\ UNCHANGED <<rules, acct, phase, sweep, spotless, calls, faults>>
    BY DEF OrdersRest, Arrival
<1>2. /\ StateTypes /\ World /\ k \in Kinds /\ qty \in Lots /\ qty \in 0..MaxLots
      /\ cs \in SUBSET ClIDs /\ \A c \in cs : exch[c].at = "None"
    BY <1>1, NewRequest
<1>3. /\ Following /\ stream.up
      /\ Planned(exch, stream.q, call) /\ Confirmable(stream.q, call)
      /\ \A c \in ClIDs : /\ Alone(stream.q, call, c)
                          /\ OnTrack(acct, exch[c], stream.q, call, c)
      /\ \A i \in 1..Len(stream.q) : Told(exch, stream.q[i])
    BY <1>1, TrackedBefore
<1>4. Carries("new") /\ Carries("trade")
    BY <1>3 DEF Following, Telling, Carries
<1>5. ASSUME NEW c \in cs PROVE /\ exch'[c].at = "Live" /\ exch'[c].id = IdOf[c]
                                /\ exch'[c].leaves = qty
  <2>1. c \in ClIDs /\ exch'[c] = Placed(c, "Live", qty, 0)
      BY <1>1, <1>2, <1>5
  <2> QED
      BY <1>2, <2>1, PlacedShape
<1>6. \A c \in ClIDs \ cs : exch'[c] = exch[c]
    BY <1>1
<1>7. \A c \in ClIDs : exch[c].at # "None" => exch'[c].at # "None"
    BY <1>2, <1>5, <1>6
<1>8. ASSUME NEW c \in ClIDs
      PROVE  /\ event[c].ev = "new" /\ event[c].c = c /\ event[c].qty = qty
             /\ event[c] \in Event
    BY <1>2, IdsApart DEF Happened, Event, Kind
<1>9. stream'.up /\ \A i \in 1..Len(stream'.q) : Told(exch', stream'.q[i])
  <2>1. \A i \in 1..Len(stream.q) : Told(exch', stream.q[i])
    <3>1. \A i \in 1..Len(stream.q) : stream.q[i] \in Event
        BY <1>2 DEF StateTypes
    <3>2. \A i \in 1..Len(stream.q) : stream.q[i].c \in ClIDs
        BY <3>1 DEF Event
    <3> QED
        BY <1>3, <1>7, <3>2 DEF Told
  <2>2. \A d \in cs : event[d] \in Event /\ Told(exch', event[d])
      BY <1>2, <1>5, <1>8 DEF Told
  <2> QED
      BY <1>1, <1>2, <1>3, <2>1, <2>2, InSequenceTold
<1>10. ASSUME NEW c \in ClIDs
       PROVE  /\ Alone(stream'.q, call', c)
              /\ OnTrack(acct, exch'[c], stream'.q, call', c)
  <2>1. "ok" \in Final
      BY DEF Final
  <2>2. Eases(call, call', c)
      BY <1>1, <1>2, <2>1, ArrivedEases
  <2>3. \A d \in cs : event[d] \in Event /\ event[d].c = d /\ event[d].ev = "new"
      BY <1>2, <1>8
  <2>4. PICK A : A = {q \in Seq(Event) : /\ Alone(q, call', c)
                                         /\ OnTrack(acct, exch'[c], q, call', c)}
      OBVIOUS
  <2>5. \A d \in cs \ {c}, q \in A : Append(q, event[d]) \in A
    <3>1. ASSUME NEW d \in cs \ {c}, NEW q \in A PROVE Append(q, event[d]) \in A
      <4>1. /\ q \in Seq(Event) /\ event[d] \in Event /\ event[d].c # c
            /\ Alone(q, call', c) /\ OnTrack(acct, exch'[c], q, call', c)
          BY <2>3, <2>4, <3>1
      <4>2. /\ Alone(Append(q, event[d]), call', c)
            /\ OnTrack(acct, exch'[c], Append(q, event[d]), call', c)
          BY <4>1, BlandAppend DEF Bland
      <4>3. Append(q, event[d]) \in Seq(Event)
          BY <4>1, AppendIs
      <4> QED
          BY <2>4, <4>2, <4>3
    <3> QED
        BY <3>1
  <2>6. CASE c \notin cs
    <3>1. exch'[c] = exch[c]
        BY <1>6, <2>6
    <3>2. stream.q \in A
        BY <1>1, <1>2, <1>3, <2>1, <2>4, <3>1, BlandArrival DEF StateTypes
    <3>3. stream'.q \in A
        BY <1>1, <1>2, <1>3, <2>3, <2>5, <2>6, <3>2, InSequenceReaches
    <3> QED
        BY <2>4, <3>3
  <2>7. CASE c \in cs
    <3>1. exch[c].at = "None"
        BY <1>2, <2>7
    <3>2. PICK B : B = {q \in Seq(Event) :
                          /\ Alone(q, call', c) /\ OnTrack(acct, exch[c], q, call', c)
                          /\ \A i \in 1..Len(q) : q[i].c = c =>
                                q[i].ev \notin {"trade", "new", "replaced"}}
        OBVIOUS
    <3>3. stream.q \in B
      <4>1. Alone(stream.q, call', c) /\ OnTrack(acct, exch[c], stream.q, call', c)
          BY <1>3, <2>2, EasedTrack
      <4>2. \A i \in 1..Len(stream.q) : stream.q[i].c = c =>
                stream.q[i].ev \notin {"trade", "new", "replaced"}
          BY <1>3, <3>1 DEF Told
      <4> QED
          BY <1>2, <3>2, <4>1, <4>2 DEF StateTypes
    <3>4. ASSUME NEW d \in cs \ {c}, NEW q \in B PROVE Append(q, event[d]) \in B
      <4>1. PICK p : p = Append(q, event[d])
          OBVIOUS
      <4>2. q \in Seq(Event) /\ event[d] \in Event /\ event[d].c # c
          BY <2>3, <3>2, <3>4
      <4>3. p \in Seq(Event) /\ Alone(p, call', c) /\ OnTrack(acct, exch[c], p, call', c)
          BY <3>2, <3>4, <4>1, <4>2, BlandAppend, AppendIs DEF Bland
      <4>4. \A i \in 1..Len(p) : p[i].c = c => p[i].ev \notin {"trade", "new", "replaced"}
        <5>1. ASSUME NEW i \in 1..Len(p), p[i].c = c PROVE i \in 1..Len(q) /\ p[i] = q[i]
            BY <4>1, <4>2, <5>1, AppendIs
        <5> QED
            BY <3>2, <3>4, <5>1
      <4>5. p \in B
          BY <3>2, <4>3, <4>4
      <4> QED
          BY <4>1, <4>5
    <3>5. ASSUME NEW q \in B PROVE Append(q, event[c]) \in A
      <4>1. /\ q \in Seq(Event) /\ event[c] \in Event /\ event[c].c = c /\ event[c].ev = "new"
            /\ event[c].qty = qty
          BY <1>8, <3>2, <3>5
      <4>2. c \in acct.ordersClID =>
              acct.orders[c].status = "PendingNew" /\ acct.orders[c].leaves = qty
          BY <1>1, <1>3, <2>7 DEF OnTrack
      <4>3. exch'[c].at = "Live" /\ exch'[c].leaves = qty
          BY <1>5, <2>7
      <4>4. /\ Alone(q, call', c) /\ OnTrack(acct, exch[c], q, call', c)
            /\ \A i \in 1..Len(q) : q[i].c = c => q[i].ev \notin {"trade", "new", "replaced"}
          BY <3>2, <3>5
      <4>5. /\ Alone(Append(q, event[c]), call', c)
            /\ OnTrack(acct, exch'[c], Append(q, event[c]), call', c)
          BY <1>2, <4>1, <4>2, <4>3, <4>4, NewAppend
      <4>6. Append(q, event[c]) \in Seq(Event)
          BY <4>1, AppendIs
      <4> QED
          BY <2>4, <4>5, <4>6
    <3>6. Carries(event[c].ev)
        BY <1>4, <1>8
    <3>7. stream'.q \in A
        BY <1>1, <1>2, <1>3, <2>3, <2>5, <2>7, <3>3, <3>4, <3>5, <3>6, InSequenceReaches
    <3> QED
        BY <2>4, <3>7
  <2> QED
      BY <2>6, <2>7
<1>11. "ok" \in Final \ {"timeout"} /\ \A c \in call[k].cs : exch'[c].at # "None"
    BY <1>5 DEF Final
<1> QED
    BY <1>1, <1>2, <1>3, <1>7, <1>9, <1>10, <1>11, ArrivalTrack

\* What was told stays true of orders the venue has.
LEMMA StillTold ==
    ASSUME StateTypes, \A i \in 1..Len(stream.q) : Told(exch, stream.q[i]),
           \A c \in ClIDs : exch[c].at # "None" => exch'[c].at # "None"
    PROVE  \A i \in 1..Len(stream.q) : Told(exch', stream.q[i])
<1>1. \A i \in 1..Len(stream.q) : stream.q[i] \in Event
    BY DEF StateTypes
<1>2. \A i \in 1..Len(stream.q) : stream.q[i].c \in ClIDs
    BY <1>1 DEF Event
<1> QED
    BY <1>2 DEF Told

\* The events of an order that are no replacements.
OwnEvents(c) == {e \in Event : e.c = c /\ e.ev # "replaced"}

\* The events of one order, which is done.
LEMMA DoneTrack ==
    ASSUME StateTypes, stream.up, NEW c \in ClIDs, exch'[c].at = "Done",
           \A i \in 1..Len(stream.q) : Told(exch', stream.q[i]),
           NEW S, S = OwnEvents(c), NEW es \in Seq(S), Emit(es),
           NEW r, \A d \in ClIDs : /\ Alone(stream.q, r, d)
                                   /\ OnTrack(acct, exch'[d], stream.q, r, d)
    PROVE  /\ stream'.up /\ \A i \in 1..Len(stream'.q) : Told(exch', stream'.q[i])
           /\ \A d \in ClIDs : /\ Alone(stream'.q, r, d)
                               /\ OnTrack(acct, exch'[d], stream'.q, r, d)
<1>1. /\ es \in Seq(Event)
      /\ \A i \in 1..Len(es) : es[i] \in Event /\ es[i].c = c /\ es[i].ev # "replaced"
  <2>1. \A i \in 1..Len(es) : es[i] \in S
      OBVIOUS
  <2>2. S \subseteq Event
      BY DEF OwnEvents
  <2> QED
      BY <2>1, <2>2 DEF OwnEvents
<1>2. stream'.up /\ \A i \in 1..Len(stream'.q) : Told(exch', stream'.q[i])
  <2>1. PICK T : T = {x \in Event : Told(exch', x)}
      OBVIOUS
  <2>2. S \subseteq T
      BY <2>1 DEF Told, OwnEvents
  <2>3. es \in Seq(T)
      BY <2>2
  <2> QED
      BY <2>1, <2>3, EmitTold
<1>3. ASSUME NEW d \in ClIDs
      PROVE  Alone(stream'.q, r, d) /\ OnTrack(acct, exch'[d], stream'.q, r, d)
  <2>1. \A i \in 1..Len(es) : /\ es[i].c # d \/ es[i].ev # "replaced"
                              /\ exch'[d].at = "Live" => Bland(es[i], d)
      BY <1>1 DEF Bland
  <2> QED
      BY <1>1, <2>1, EmitBland
<1> QED
    BY <1>2, <1>3

\* What a new order that arrives alone and is done at once has in common.
LEMMA DoneAtOnce ==
    ASSUME IInv, Tracking, Following', Arrival("new"), NEW a \in Final \ {"timeout"},
           Arrived("new", a), NEW c, c = CHOOSE d \in call["new"].cs : TRUE,
           NEW leaves \in 0..MaxLots, NEW cum \in Nat,
           exch' = [exch EXCEPT ![c] = Placed(c, "Done", leaves, cum)],
           NEW S, S = OwnEvents(c), NEW es \in Seq(S), Emit(es)
    PROVE  Tracking'
<1>1. "new" \in Kinds /\ call["new"].sent
      /\ UNCHANGED <<rules, acct, phase, sweep, spotless, calls, faults>>
    BY DEF Arrival, Kinds
<1>2. /\ StateTypes /\ \A d \in call["new"].cs : exch[d].at = "None"
    BY NewRequest
<1>3. c \in ClIDs /\ call["new"].cs = {c} /\ exch'[c].at = "Done"
    BY OneNewOrder
<1>4. \A d \in ClIDs \ {c} : exch'[d] = exch[d]
    BY <1>2 DEF StateTypes
<1>5. /\ stream.up
      /\ Planned(exch, stream.q, call) /\ Confirmable(stream.q, call)
      /\ \A d \in ClIDs : /\ Alone(stream.q, call, d)
                          /\ OnTrack(acct, exch[d], stream.q, call, d)
      /\ \A i \in 1..Len(stream.q) : Told(exch, stream.q[i])
    BY <1>1, TrackedBefore
<1>6. \A d \in ClIDs : exch[d].at # "None" => exch'[d].at # "None"
    BY <1>3, <1>4
<1>7. \A d \in ClIDs : /\ Alone(stream.q, call', d)
                       /\ OnTrack(acct, exch'[d], stream.q, call', d)
  <2>1. ASSUME NEW d \in ClIDs
        PROVE  Alone(stream.q, call', d) /\ OnTrack(acct, exch'[d], stream.q, call', d)
    <3>1. exch'[d] = exch[d] \/ exch'[d].at # "Live"
        BY <1>3, <1>4
    <3> QED
        BY <1>1, <1>5, <3>1, BlandArrival
  <2> QED
      BY <2>1
<1>8. \A i \in 1..Len(stream.q) : Told(exch', stream.q[i])
    BY <1>2, <1>5, <1>6, StillTold
<1>9. /\ stream'.up /\ \A i \in 1..Len(stream'.q) : Told(exch', stream'.q[i])
      /\ \A d \in ClIDs : /\ Alone(stream'.q, call', d)
                          /\ OnTrack(acct, exch'[d], stream'.q, call', d)
    BY <1>2, <1>3, <1>5, <1>7, <1>8, DoneTrack
<1>10. \A d \in call["new"].cs : exch'[d].at # "None"
    BY <1>3
<1> QED
    BY <1>1, <1>5, <1>6, <1>9, <1>10, ArrivalTrack

\* An event that happened to the order.
LEMMA HappenedTo ==
    ASSUME NEW kind \in Kind, NEW c \in ClIDs, NEW qty \in 0..MaxLots
    PROVE  /\ Happened(kind, c, IdOf[c], qty) \in Event
           /\ Happened(kind, c, IdOf[c], qty).c = c
           /\ Happened(kind, c, IdOf[c], qty).ev = kind
           /\ Happened(kind, c, IdOf[c], qty).qty = qty
           /\ kind # "replaced" => Happened(kind, c, IdOf[c], qty) \in OwnEvents(c)
BY IdsApart DEF Happened, Event, OwnEvents

\* An order that is executed at once.
LEMMA OrderFillsTrack ==
    ASSUME IInv, Tracking, OrderFills
    PROVE  Tracking'
<1> SUFFICES ASSUME Following' PROVE Tracking'
    BY DEF Tracking
<1> PICK c, qty : c = (CHOOSE d \in call["new"].cs : TRUE) /\ qty = call["new"].qty
    OBVIOUS
<1>1. PICK a \in Final \ {"timeout"} :
        /\ Arrival("new") /\ exch' = [exch EXCEPT ![c] = Placed(c, "Done", 0, qty)]
        /\ Arrived("new", a)
    BY DEF OrderFills, Final
<1>2. StateTypes /\ qty \in 0..MaxLots /\ qty \in Nat /\ 0 \in 0..MaxLots
    BY <1>1, NewRequest
<1>3. c \in ClIDs
    BY <1>1, <1>2, OneNewOrder
<1>4. PICK S : S = OwnEvents(c)
    OBVIOUS
<1>5. PICK n \in S, trade \in S, full \in S :
        /\ n = Happened("new", c, IdOf[c], qty) /\ trade = Happened("trade", c, IdOf[c], qty)
        /\ full = Happened("filled", c, IdOf[c], qty)
  <2>1. "new" \in Kind /\ "trade" \in Kind /\ "filled" \in Kind
      BY DEF Kind
  <2>2. \A kind \in {"new", "trade", "filled"} : Happened(kind, c, IdOf[c], qty) \in S
      BY <1>2, <1>3, <1>4, <2>1, HappenedTo
  <2> QED
      BY <2>2
<1>6. PICK events \in Executed(c, qty) : Emit(IF Carries("filled") THEN events ELSE <<n>> \o events)
    BY <1>5 DEF OrderFills
<1>7. events \in Seq(S) /\ <<n>> \in Seq(S)
    BY <1>5, <1>6, ExecutedTrue, Singletons
<1>8. <<n>> \o events \in Seq(S)
    BY <1>7
<1>9. PICK es \in Seq(S) : Emit(es)
    BY <1>6, <1>7, <1>8
<1> QED
    BY <1>1, <1>2, <1>4, <1>9, DoneAtOnce

\* An order that expires at once.
LEMMA OrderExpiresTrack ==
    ASSUME IInv, Tracking, OrderExpires
    PROVE  Tracking'
<1> SUFFICES ASSUME Following' PROVE Tracking'
    BY DEF Tracking
<1> PICK c, qty : c = (CHOOSE d \in call["new"].cs : TRUE) /\ qty = call["new"].qty
    OBVIOUS
<1>1. PICK a \in Final \ {"timeout"} :
        /\ Arrival("new") /\ exch' = [exch EXCEPT ![c] = Placed(c, "Done", qty, 0)]
        /\ Arrived("new", a)
    BY DEF OrderExpires, Final
<1>2. StateTypes /\ qty \in 0..MaxLots /\ 0 \in 0..MaxLots
    BY <1>1, NewRequest
<1>3. c \in ClIDs
    BY <1>1, <1>2, OneNewOrder
<1>4. PICK S : S = OwnEvents(c)
    OBVIOUS
<1>5. PICK kind \in {"expired", "canceled"} :
        Emit(<<Happened("new", c, IdOf[c], qty), Happened(kind, c, IdOf[c], 0)>>)
    BY DEF OrderExpires
<1>6. PICK n \in S, gone \in S :
        n = Happened("new", c, IdOf[c], qty) /\ gone = Happened(kind, c, IdOf[c], 0)
  <2>1. "new" \in Kind /\ kind \in Kind /\ kind # "replaced"
      BY DEF Kind
  <2>2. Happened("new", c, IdOf[c], qty) \in S /\ Happened(kind, c, IdOf[c], 0) \in S
      BY <1>2, <1>3, <1>4, <2>1, HappenedTo
  <2> QED
      BY <2>2
<1>7. PICK es \in Seq(S) : Emit(es)
    BY <1>5, <1>6, Singletons
<1> QED
    BY <1>1, <1>2, <1>4, <1>7, DoneAtOnce

\* A cancel.
LEMMA CancelArrivesTrack ==
    ASSUME IInv, Tracking, CancelArrives
    PROVE  Tracking'
<1> SUFFICES ASSUME Following' PROVE Tracking'
    BY DEF Tracking
<1> PICK c : c = CHOOSE d \in call["cancel"].cs : TRUE
    OBVIOUS
<1>1. /\ StateTypes /\ World /\ "cancel" \in Kinds /\ Arrival("cancel") /\ call["cancel"].sent
      /\ UNCHANGED <<rules, acct, phase, sweep, spotless, calls, faults>>
    BY DEF IInv, CancelArrives, Kinds, Arrival
<1>2. c \in ClIDs
  <2>1. \E d \in ClIDs : call["cancel"].cs = {d}
      BY <1>1 DEF World, CallTrue, Arrival
  <2> QED
      BY <2>1
<1>3. /\ stream.up
      /\ Planned(exch, stream.q, call) /\ Confirmable(stream.q, call)
      /\ \A d \in ClIDs : /\ Alone(stream.q, call, d)
                          /\ OnTrack(acct, exch[d], stream.q, call, d)
      /\ \A i \in 1..Len(stream.q) : Told(exch, stream.q[i])
    BY <1>1, TrackedBefore
<1>4. PICK a \in Final \ {"timeout"} : Arrived("cancel", a)
    BY DEF CancelArrives, Final
<1>5. CASE Live(c)
  <2>1. exch' = [exch EXCEPT ![c].at = "Done"] /\ Emit(<<Happened("canceled", c, IdOf[c], 0)>>)
      BY <1>5 DEF CancelArrives
  <2>2. exch'[c].at = "Done" /\ \A d \in ClIDs \ {c} : exch'[d] = exch[d]
    <3>1. exch \in [ClIDs -> VenueOrder] /\ exch[c] \in VenueOrder
        BY <1>1, <1>2 DEF StateTypes
    <3>2. PICK o : o = [exch[c] EXCEPT !.at = "Done"]
        OBVIOUS
    <3>3. o.at = "Done"
        BY <3>1, <3>2, DoneShape
    <3> QED
        BY <1>2, <2>1, <3>1, <3>2, <3>3
  <2>3. \A d \in ClIDs : exch[d].at # "None" => exch'[d].at # "None"
      BY <2>2
  <2>4. \A d \in ClIDs : /\ Alone(stream.q, call', d)
                         /\ OnTrack(acct, exch'[d], stream.q, call', d)
    <3>1. ASSUME NEW d \in ClIDs
          PROVE  Alone(stream.q, call', d) /\ OnTrack(acct, exch'[d], stream.q, call', d)
      <4>1. exch'[d] = exch[d] \/ exch'[d].at # "Live"
          BY <2>2
      <4> QED
          BY <1>1, <1>3, <1>4, <4>1, BlandArrival
    <3> QED
        BY <3>1
  <2>5. PICK S : S = OwnEvents(c)
      OBVIOUS
  <2>6. PICK es \in Seq(S) : Emit(es)
    <3>1. "canceled" \in Kind /\ 0 \in 0..MaxLots
        BY AccountConstants DEF Kind
    <3>2. Happened("canceled", c, IdOf[c], 0) \in S
        BY <1>2, <2>5, <3>1, HappenedTo
    <3> QED
        BY <2>1, <3>2, Singletons
  <2>7. \A i \in 1..Len(stream.q) : Told(exch', stream.q[i])
      BY <1>1, <1>3, <2>3, StillTold
  <2>8. /\ stream'.up /\ \A i \in 1..Len(stream'.q) : Told(exch', stream'.q[i])
        /\ \A d \in ClIDs : /\ Alone(stream'.q, call', d)
                            /\ OnTrack(acct, exch'[d], stream'.q, call', d)
      BY <1>1, <1>2, <1>3, <2>2, <2>4, <2>5, <2>6, <2>7, DoneTrack
  <2> QED
      BY <1>1, <1>3, <1>4, <2>3, <2>8, ArrivalTrack
<1>6. CASE ~Live(c)
  <2>1. exch' = exch /\ stream' = stream
      BY <1>6 DEF CancelArrives
  <2>2. \A d \in ClIDs : /\ Alone(stream'.q, call', d)
                         /\ OnTrack(acct, exch'[d], stream'.q, call', d)
      BY <1>1, <1>3, <1>4, <2>1, BlandArrival
  <2> QED
      BY <1>1, <1>3, <1>4, <2>1, <2>2, ArrivalTrack
<1> QED
    BY <1>5, <1>6

\* All orders that work at the venue are canceled: none has to be followed.
LEMMA AllCanceledTrack ==
    ASSUME StateTypes, AllCanceled, stream.up,
           \A i \in 1..Len(stream.q) : Told(exch, stream.q[i]),
           NEW r, \A d \in ClIDs : /\ Alone(stream.q, r, d)
                                   /\ OnTrack(acct, exch[d], stream.q, r, d)
    PROVE  /\ \A d \in ClIDs : exch[d].at # "None" => exch'[d].at # "None"
           /\ stream'.up /\ \A i \in 1..Len(stream'.q) : Told(exch', stream'.q[i])
           /\ \A d \in ClIDs : /\ Alone(stream'.q, r, d)
                               /\ OnTrack(acct, exch'[d], stream'.q, r, d)
<1> PICK cs \in SUBSET ClIDs : cs = {c \in ClIDs : Live(c)}
    OBVIOUS
<1> PICK event : event = [c \in ClIDs |-> Happened("canceled", c, IdOf[c], 0)]
    OBVIOUS
<1>1. /\ exch' = [c \in ClIDs |-> IF Live(c) THEN [exch[c] EXCEPT !.at = "Done"] ELSE exch[c]]
      /\ InSequence(cs, event)
    BY DEF AllCanceled
<1>2. ASSUME NEW c \in ClIDs
      PROVE  /\ c \notin cs => exch'[c] = exch[c] /\ exch[c].at # "Live"
             /\ c \in cs => exch'[c].at = "Done"
  <2>1. PICK v \in VenueOrder : v = exch[c]
      BY DEF StateTypes
  <2>2. CASE Live(c)
    <3>1. exch'[c] = [v EXCEPT !.at = "Done"]
        BY <1>1, <2>1, <2>2
    <3>2. exch'[c].at = "Done"
        BY <3>1, DoneShape
    <3> QED
        BY <2>1, <2>2, <3>2
  <2>3. CASE ~Live(c)
      BY <1>1, <2>1, <2>3 DEF Live
  <2> QED
      BY <2>2, <2>3
<1>3. \A d \in ClIDs : exch[d].at # "None" => exch'[d].at # "None"
    BY <1>2
<1>4. \A c \in cs : event[c] \in Event /\ event[c].c = c /\ event[c].ev = "canceled"
  <2>1. "canceled" \in Kind /\ 0 \in 0..MaxLots
      BY AccountConstants DEF Kind
  <2>2. ASSUME NEW c \in ClIDs
        PROVE  /\ Happened("canceled", c, IdOf[c], 0) \in Event
               /\ Happened("canceled", c, IdOf[c], 0).c = c
               /\ Happened("canceled", c, IdOf[c], 0).ev = "canceled"
      BY <2>1, HappenedTo
  <2>3. \A c \in ClIDs : event[c] = Happened("canceled", c, IdOf[c], 0)
      OBVIOUS
  <2> QED
      BY <2>2, <2>3
<1>5. \A i \in 1..Len(stream.q) : Told(exch', stream.q[i])
    BY <1>3, StillTold
<1>6. stream'.up /\ \A i \in 1..Len(stream'.q) : Told(exch', stream'.q[i])
  <2>1. \A d \in cs : event[d] \in Event /\ Told(exch', event[d])
      BY <1>2, <1>4 DEF Told
  <2> QED
      BY <1>1, <1>5, <2>1, InSequenceTold
<1>7. ASSUME NEW d \in ClIDs
      PROVE  Alone(stream'.q, r, d) /\ OnTrack(acct, exch'[d], stream'.q, r, d)
  <2>1. Alone(stream.q, r, d) /\ OnTrack(acct, exch'[d], stream.q, r, d)
      BY <1>2, RestTrack
  <2>2. \A c \in cs : event[c] \in Event /\ event[c].ev \notin {"new", "trade", "replaced"}
      BY <1>4
  <2> QED
      BY <1>1, <2>1, <2>2, InSequenceBland
<1> QED
    BY <1>3, <1>6, <1>7

\* A mass cancel.
LEMMA MassCancelArrivesTrack ==
    ASSUME IInv, Tracking, MassCancelArrives
    PROVE  Tracking'
<1> SUFFICES ASSUME Following' PROVE Tracking'
    BY DEF Tracking
<1>1. /\ StateTypes /\ "mass" \in Kinds /\ Arrival("mass") /\ AllCanceled
      /\ Arrived("mass", "ok") /\ "ok" \in Final
      /\ UNCHANGED <<rules, acct, phase, sweep, spotless, calls, faults>>
    BY DEF IInv, MassCancelArrives, Kinds, Arrival, Final
<1>2. /\ stream.up
      /\ Planned(exch, stream.q, call) /\ Confirmable(stream.q, call)
      /\ \A d \in ClIDs : /\ Alone(stream.q, call, d)
                          /\ OnTrack(acct, exch[d], stream.q, call, d)
      /\ \A i \in 1..Len(stream.q) : Told(exch, stream.q[i])
    BY <1>1, TrackedBefore
<1>3. \A d \in ClIDs : /\ Alone(stream.q, call', d)
                       /\ OnTrack(acct, exch[d], stream.q, call', d)
  <2>1. ASSUME NEW d \in ClIDs
        PROVE  Alone(stream.q, call', d) /\ OnTrack(acct, exch[d], stream.q, call', d)
    <3>1. Eases(call, call', d)
        BY <1>1, ArrivedEases
    <3> QED
        BY <1>2, <3>1, EasedTrack
  <2> QED
      BY <2>1
<1>4. /\ \A d \in ClIDs : exch[d].at # "None" => exch'[d].at # "None"
      /\ stream'.up /\ \A i \in 1..Len(stream'.q) : Told(exch', stream'.q[i])
      /\ \A d \in ClIDs : /\ Alone(stream'.q, call', d)
                          /\ OnTrack(acct, exch'[d], stream'.q, call', d)
    BY <1>1, <1>2, <1>3, AllCanceledTrack
<1> QED
    BY <1>1, <1>2, <1>4, ArrivalTrack

\* What is left of the requests' part when they stay.
LEMMA SameCallsTrack ==
    ASSUME StateTypes, rules' = rules, acct' = acct, call' = call,
           Planned(exch, stream.q, call), Confirmable(stream.q, call),
           \A c \in ClIDs : exch[c].at # "None" => exch'[c].at # "None",
           stream'.up, \A i \in 1..Len(stream'.q) : Told(exch', stream'.q[i]),
           \A c \in ClIDs : /\ Alone(stream'.q, call, c)
                            /\ OnTrack(acct, exch'[c], stream'.q, call, c)
    PROVE  Tracking'
<1>1. \A k \in {"new", "bulk"} : \A c \in call[k].cs : c \in ClIDs
    BY DEF StateTypes, CallType, Kinds
<1>2. Planned(exch', stream'.q, call)
    BY <1>1 DEF Planned, Told
<1>3. Confirmable(stream'.q, call)
    BY DEF Confirmable, Told
<1> QED
    BY <1>2, <1>3, TrackingStep

\* The mass cancel that Clean sends.
LEMMA SweepArrivesTrack ==
    ASSUME IInv, Tracking, SweepArrives
    PROVE  Tracking'
<1> SUFFICES ASSUME Following' PROVE Tracking'
    BY DEF Tracking
<1>1. /\ StateTypes /\ AllCanceled
      /\ UNCHANGED <<rules, acct, phase, call, drift, spotless, calls, faults>>
    BY DEF IInv, SweepArrives
<1>2. /\ stream.up
      /\ Planned(exch, stream.q, call) /\ Confirmable(stream.q, call)
      /\ \A d \in ClIDs : /\ Alone(stream.q, call, d)
                          /\ OnTrack(acct, exch[d], stream.q, call, d)
      /\ \A i \in 1..Len(stream.q) : Told(exch, stream.q[i])
    BY <1>1, TrackedBefore
<1>3. /\ \A d \in ClIDs : exch[d].at # "None" => exch'[d].at # "None"
      /\ stream'.up /\ \A i \in 1..Len(stream'.q) : Told(exch', stream'.q[i])
      /\ \A d \in ClIDs : /\ Alone(stream'.q, call, d)
                          /\ OnTrack(acct, exch'[d], stream'.q, call, d)
    BY <1>1, <1>2, AllCanceledTrack
<1> QED
    BY <1>1, <1>2, <1>3, SameCallsTrack

\* A refusal, with or without events.
LEMMA RefuseTrack ==
    ASSUME IInv, Tracking, NEW k \in Kinds, Refuse(k)
    PROVE  Tracking'
<1> SUFFICES ASSUME Following' PROVE Tracking'
    BY DEF Tracking
<1> PICK event : event = [c \in ClIDs |-> Happened("rejected", c, IdOf[c], 0)]
    OBVIOUS
<1>1. /\ StateTypes /\ Arrival(k) /\ Arrived(k, "refused") /\ exch' = exch
      /\ "refused" \in Final
      /\ UNCHANGED <<rules, acct, phase, sweep, spotless, calls, faults>>
    BY DEF IInv, Refuse, Arrival, Final
<1>2. /\ stream.up
      /\ Planned(exch, stream.q, call) /\ Confirmable(stream.q, call)
      /\ \A d \in ClIDs : /\ Alone(stream.q, call, d)
                          /\ OnTrack(acct, exch[d], stream.q, call, d)
      /\ \A i \in 1..Len(stream.q) : Told(exch, stream.q[i])
    BY <1>1, TrackedBefore
<1>3. \A d \in ClIDs : /\ Alone(stream.q, call', d)
                       /\ OnTrack(acct, exch[d], stream.q, call', d)
  <2>1. ASSUME NEW d \in ClIDs
        PROVE  Alone(stream.q, call', d) /\ OnTrack(acct, exch[d], stream.q, call', d)
    <3>1. Eases(call, call', d)
        BY <1>1, ArrivedEases
    <3> QED
        BY <1>2, <3>1, EasedTrack
  <2> QED
      BY <2>1
<1>4. /\ stream'.up /\ \A i \in 1..Len(stream'.q) : Told(exch, stream'.q[i])
      /\ \A d \in ClIDs : /\ Alone(stream'.q, call', d)
                          /\ OnTrack(acct, exch[d], stream'.q, call', d)
  <2>1. CASE k \in {"new", "bulk"}
    <3>1. PICK cs \in SUBSET call[k].cs : InSequence(cs, event)
        BY <2>1 DEF Refuse
    <3>2. cs \in SUBSET ClIDs
        BY <1>1 DEF StateTypes, CallType
    <3>3. \A c \in cs : event[c] \in Event /\ event[c].ev = "rejected"
      <4>1. "rejected" \in Kind /\ 0 \in 0..MaxLots
          BY AccountConstants DEF Kind
      <4>2. ASSUME NEW c \in ClIDs
            PROVE  /\ Happened("rejected", c, IdOf[c], 0) \in Event
                   /\ Happened("rejected", c, IdOf[c], 0).ev = "rejected"
          BY <4>1, HappenedTo
      <4>3. \A c \in ClIDs : event[c] = Happened("rejected", c, IdOf[c], 0)
          OBVIOUS
      <4> QED
          BY <3>2, <4>2, <4>3
    <3>4. stream'.up /\ \A i \in 1..Len(stream'.q) : Told(exch, stream'.q[i])
      <4>1. \A d \in cs : event[d] \in Event /\ Told(exch, event[d])
          BY <3>3 DEF Told
      <4> QED
          BY <1>1, <1>2, <3>1, <3>2, <4>1, InSequenceTold
    <3>5. ASSUME NEW d \in ClIDs
          PROVE  Alone(stream'.q, call', d) /\ OnTrack(acct, exch[d], stream'.q, call', d)
      <4>1. \A c \in cs : event[c] \in Event /\ event[c].ev \notin {"new", "trade", "replaced"}
          BY <3>3
      <4> QED
          BY <1>1, <1>2, <1>3, <3>1, <3>2, <4>1, InSequenceBland
    <3> QED
        BY <3>4, <3>5
  <2>2. CASE k \notin {"new", "bulk"}
    <3>1. stream' = stream
        BY <2>2 DEF Refuse
    <3> QED
        BY <1>2, <1>3, <3>1
  <2> QED
      BY <2>1, <2>2
<1> QED
    BY <1>1, <1>2, <1>4, ArrivalTrack

\* A replacement: what it asks for is what the account was told to expect.
LEMMA ReplaceArrivesTrack ==
    ASSUME IInv, Tracking, Telling(rules), NEW k \in Replacements, ReplaceArrives(k)
    PROVE  Tracking'
<1> SUFFICES ASSUME Following' PROVE Tracking'
    BY DEF Tracking
<1> PICK cs, qty : cs = call[k].cs /\ qty = call[k].qty
    OBVIOUS
<1> PICK event : event = [c \in ClIDs |-> Happened("replaced", c, IdOf[c], 0)]
    OBVIOUS
<1>1. /\ StateTypes /\ World /\ k \in Kinds /\ Arrival(k) /\ call[k].sent
      /\ UNCHANGED <<rules, acct, phase, sweep, spotless, calls, faults>>
    BY DEF IInv, ReplaceArrives, Kinds, Arrival, Replacements
<1>2. cs \in SUBSET ClIDs /\ qty \in Lots
  <2>1. call[k] \in CallType /\ CallTrue(k)
      BY <1>1 DEF StateTypes, World
  <2> QED
      BY <1>1, <2>1 DEF CallType, CallTrue, Replacements
<1>3. /\ Following /\ stream.up
      /\ Planned(exch, stream.q, call) /\ Confirmable(stream.q, call)
      /\ \A d \in ClIDs : /\ Alone(stream.q, call, d)
                          /\ OnTrack(acct, exch[d], stream.q, call, d)
      /\ \A i \in 1..Len(stream.q) : Told(exch, stream.q[i])
    BY <1>1, TrackedBefore
<1>4. call[k].ans = "waiting" /\ rules.replace = "stream" /\ Carries("replaced")
  <2>1. call[k].ans = "waiting" /\ rules.replace = "stream"
      BY <1>1, <1>3 DEF Planned, Confirmable
  <2> QED
      BY <1>3, <2>1 DEF Telling, Following, Carries
<1>5. "ok" \in Final /\ "unknown" \in Final /\ "ok" # "timeout" /\ "unknown" # "timeout"
    BY DEF Final
<1>6. CASE \A c \in cs : Live(c)
  <2>1. /\ Arrived(k, "ok") /\ InSequence(cs, event)
        /\ exch' = [c \in ClIDs |-> IF c \in cs THEN [exch[c] EXCEPT !.leaves = qty] ELSE exch[c]]
      BY <1>6 DEF ReplaceArrives
  <2>2. ASSUME NEW c \in ClIDs
        PROVE  /\ c \notin cs => exch'[c] = exch[c]
               /\ c \in cs => /\ exch[c].at = "Live" /\ exch'[c].at = "Live"
                              /\ exch'[c].id = exch[c].id /\ exch'[c].leaves = qty
    <3>1. PICK r \in VenueOrder : r = exch[c]
        BY <1>1 DEF StateTypes
    <3>2. \A o : o = [r EXCEPT !.leaves = qty] => o.at = r.at /\ o.id = r.id /\ o.leaves = qty
        BY DEF VenueOrder
    <3> QED
        BY <1>6, <2>1, <3>1, <3>2 DEF Live
  <2>3. \A c \in ClIDs : exch[c].at # "None" => exch'[c].at # "None"
      BY <2>2
  <2>4. ASSUME NEW c \in ClIDs
        PROVE  event[c] \in Event /\ event[c].c = c /\ event[c].ev = "replaced"
    <3>1. "replaced" \in Kind /\ 0 \in 0..MaxLots
        BY AccountConstants DEF Kind
    <3>2. event[c] = Happened("replaced", c, IdOf[c], 0)
        OBVIOUS
    <3> QED
        BY <3>1, <3>2, HappenedTo
  <2>5. stream'.up /\ \A i \in 1..Len(stream'.q) : Told(exch', stream'.q[i])
    <3>1. \A i \in 1..Len(stream.q) : Told(exch', stream.q[i])
        BY <1>1, <1>3, <2>3, StillTold
    <3>2. \A d \in cs : event[d] \in Event /\ Told(exch', event[d])
        BY <1>2, <1>4, <2>2, <2>4 DEF Told
    <3> QED
        BY <1>1, <1>2, <1>3, <2>1, <3>1, <3>2, InSequenceTold
  <2>6. ASSUME NEW c \in ClIDs
        PROVE  /\ Alone(stream'.q, call', c)
               /\ OnTrack(acct, exch'[c], stream'.q, call', c)
    <3>1. Eases(call, call', c) /\ ~Claimed(call', k, c)
        BY <1>1, <1>4, <1>5, <2>1, ArrivedEases
    <3>2. \A d \in cs : event[d] \in Event /\ event[d].c = d
        BY <1>2, <2>4
    <3>3. PICK A : A = {q \in Seq(Event) : /\ Alone(q, call', c)
                                           /\ OnTrack(acct, exch'[c], q, call', c)}
        OBVIOUS
    <3>4. PICK B : B = {q \in Seq(Event) : /\ Alone(q, call, c)
                                           /\ OnTrack(acct, exch[c], q, call, c)}
        OBVIOUS
    <3>5. \A d \in cs \ {c}, q \in A : Append(q, event[d]) \in A
      <4>1. ASSUME NEW d \in cs \ {c}, NEW q \in A PROVE Append(q, event[d]) \in A
        <5>1. /\ q \in Seq(Event) /\ event[d] \in Event /\ event[d].c # c
              /\ Alone(q, call', c) /\ OnTrack(acct, exch'[c], q, call', c)
            BY <3>2, <3>3, <4>1
        <5>2. /\ Alone(Append(q, event[d]), call', c)
              /\ OnTrack(acct, exch'[c], Append(q, event[d]), call', c)
            BY <5>1, BlandAppend DEF Bland
        <5>3. Append(q, event[d]) \in Seq(Event)
            BY <5>1, AppendIs
        <5> QED
            BY <3>3, <5>2, <5>3
      <4> QED
          BY <4>1
    <3>6. CASE c \notin cs
      <4>1. exch'[c] = exch[c]
          BY <2>2, <3>6
      <4>2. stream.q \in A
          BY <1>1, <1>3, <3>1, <3>3, <4>1, EasedTrack DEF StateTypes
      <4>3. stream'.q \in A
          BY <1>1, <1>2, <1>3, <2>1, <3>2, <3>5, <3>6, <4>2, InSequenceReaches
      <4> QED
          BY <3>3, <4>3
    <3>7. CASE c \in cs
      <4>1. stream.q \in B
          BY <1>1, <1>3, <3>4 DEF StateTypes
      <4>2. \A d \in cs \ {c}, q \in B : Append(q, event[d]) \in B
        <5>1. ASSUME NEW d \in cs \ {c}, NEW q \in B PROVE Append(q, event[d]) \in B
          <6>1. /\ q \in Seq(Event) /\ event[d] \in Event /\ event[d].c # c
                /\ Alone(q, call, c) /\ OnTrack(acct, exch[c], q, call, c)
              BY <3>2, <3>4, <5>1
          <6>2. /\ Alone(Append(q, event[d]), call, c)
                /\ OnTrack(acct, exch[c], Append(q, event[d]), call, c)
              BY <6>1, BlandAppend DEF Bland
          <6>3. Append(q, event[d]) \in Seq(Event)
              BY <6>1, AppendIs
          <6> QED
              BY <3>4, <6>2, <6>3
        <5> QED
            BY <5>1
      <4>3. \A q \in B : Append(q, event[c]) \in A
        <5>1. ASSUME NEW q \in B PROVE Append(q, event[c]) \in A
          <6>1. /\ q \in Seq(Event) /\ event[c] \in Event /\ event[c].c = c
                /\ event[c].ev = "replaced"
                /\ Alone(q, call, c) /\ OnTrack(acct, exch[c], q, call, c)
              BY <2>4, <3>4, <5>1
          <6>2. /\ exch[c].at = "Live" /\ exch'[c].at = "Live" /\ exch'[c].id = exch[c].id
                /\ exch'[c].leaves \in Lots /\ exch'[c].leaves = call[k].qty /\ c \in call[k].cs
              BY <1>2, <2>2, <3>7
          <6>3. /\ Alone(Append(q, event[c]), call', c)
                /\ OnTrack(acct, exch'[c], Append(q, event[c]), call', c)
              BY <1>4, <3>1, <6>1, <6>2, ReplacedAppend
          <6>4. Append(q, event[c]) \in Seq(Event)
              BY <6>1, AppendIs
          <6> QED
              BY <3>3, <6>3, <6>4
        <5> QED
            BY <5>1
      <4>4. Carries(event[c].ev)
          BY <1>4, <2>4
      <4>5. /\ StateTypes /\ stream.up /\ InSequence(cs, event)
            /\ \A d \in cs : event[d] \in Event
          BY <1>1, <1>3, <2>1, <3>2
      <4>6. stream'.q \in A
          BY <1>2, <3>5, <3>7, <4>1, <4>2, <4>3, <4>4, <4>5, OneInSequence
      <4> QED
          BY <3>3, <4>6
    <3> QED
        BY <3>6, <3>7
  <2> QED
      BY <1>1, <1>3, <1>5, <2>1, <2>3, <2>5, <2>6, ArrivalTrack DEF Replacements
<1>7. CASE ~\A c \in cs : Live(c)
  <2>1. Arrived(k, "unknown") /\ exch' = exch /\ stream' = stream
      BY <1>7 DEF ReplaceArrives
  <2>2. \A d \in ClIDs : /\ Alone(stream'.q, call', d)
                         /\ OnTrack(acct, exch'[d], stream'.q, call', d)
      BY <1>1, <1>3, <1>5, <2>1, BlandArrival
  <2> QED
      BY <1>1, <1>3, <1>5, <2>1, <2>2, ArrivalTrack
<1> QED
    BY <1>6, <1>7

\* An execution.
LEMMA TradeTrack ==
    ASSUME IInv, Tracking, NEW c \in ClIDs, NEW qty \in Lots, Trade(c, qty)
    PROVE  Tracking'
<1> SUFFICES ASSUME Following' PROVE Tracking'
    BY DEF Tracking
<1>1. /\ StateTypes /\ World /\ Live(c) /\ qty <= exch[c].leaves
      /\ exch' = [exch EXCEPT ![c].leaves = @ - qty, ![c].cum = @ + qty,
                              ![c].at = IF qty = exch[c].leaves THEN "Done" ELSE "Live"]
      /\ UNCHANGED <<rules, acct, phase, call, sweep, spotless, calls, faults>>
    BY DEF IInv, Trade
<1>2. PICK r \in VenueOrder : r = exch[c] /\ r.leaves \in Lots /\ qty <= r.leaves /\ r.at = "Live"
    BY <1>1 DEF StateTypes, World, OrderTrue, Live
<1>3. PICK o : o = [r EXCEPT !.leaves = r.leaves - qty, !.cum = r.cum + qty,
                             !.at = IF qty = r.leaves THEN "Done" ELSE "Live"]
    OBVIOUS
<1>4. /\ o.id = r.id /\ o.at = (IF qty = r.leaves THEN "Done" ELSE "Live")
      /\ o.leaves = r.leaves - qty
      /\ qty # r.leaves => o.leaves \in Lots
  <2>1. qty # r.leaves => r.leaves - qty \in Lots
      BY <1>2, AccountConstants DEF Lots
  <2>2. /\ o.id = r.id /\ o.at = (IF qty = r.leaves THEN "Done" ELSE "Live")
        /\ o.leaves = r.leaves - qty
      BY <1>3 DEF VenueOrder
  <2> QED
      BY <2>1, <2>2
<1>5. exch'[c] = o /\ \A d \in ClIDs \ {c} : exch'[d] = exch[d]
  <2>1. exch \in [ClIDs -> VenueOrder]
      BY <1>1 DEF StateTypes
  <2>2. exch' = [exch EXCEPT ![c] = o]
      BY <1>1, <1>2, <1>3, <2>1
  <2> QED
      BY <2>1, <2>2
<1>6. /\ Following /\ stream.up
      /\ Planned(exch, stream.q, call) /\ Confirmable(stream.q, call)
      /\ \A d \in ClIDs : /\ Alone(stream.q, call, d)
                          /\ OnTrack(acct, exch[d], stream.q, call, d)
      /\ \A i \in 1..Len(stream.q) : Told(exch, stream.q[i])
    BY <1>1, TrackedBefore
<1>7. \A d \in ClIDs : exch[d].at # "None" => exch'[d].at # "None"
    BY <1>4, <1>5
<1>8. \A i \in 1..Len(stream.q) : Told(exch', stream.q[i])
    BY <1>1, <1>6, <1>7, StillTold
<1>9. "trade" \in Kind /\ "filled" \in Kind /\ qty \in 0..MaxLots
    BY DEF Kind, Lots
<1>10. PICK S : S = OwnEvents(c)
    OBVIOUS
<1>11. /\ Happened("trade", c, IdOf[c], qty) \in S
       /\ Happened("filled", c, IdOf[c], qty) \in S
    BY <1>9, <1>10, HappenedTo
<1>12. CASE qty = r.leaves
  <2>1. PICK events \in Executed(c, qty) : Emit(events)
      BY <1>2, <1>12 DEF Trade
  <2>2. events \in Seq(S)
      BY <1>11, <2>1, ExecutedTrue
  <2>3. exch'[c].at = "Done"
      BY <1>4, <1>5, <1>12
  <2>4. \A d \in ClIDs : /\ Alone(stream.q, call, d)
                         /\ OnTrack(acct, exch'[d], stream.q, call, d)
      BY <1>5, <1>6, <2>3, RestTrack
  <2>5. /\ stream'.up /\ \A i \in 1..Len(stream'.q) : Told(exch', stream'.q[i])
        /\ \A d \in ClIDs : /\ Alone(stream'.q, call, d)
                            /\ OnTrack(acct, exch'[d], stream'.q, call, d)
      BY <1>1, <1>6, <1>8, <1>10, <2>1, <2>2, <2>3, <2>4, DoneTrack
  <2> QED
      BY <1>1, <1>6, <1>7, <2>5, SameCallsTrack
<1>13. CASE qty # r.leaves
  <2>1. PICK e : e = Happened("trade", c, IdOf[c], qty)
      OBVIOUS
  <2>2. e \in Event /\ e.c = c /\ e.ev = "trade" /\ e.qty = qty
      BY <1>9, <2>1, HappenedTo
  <2>3. Emit(<<e>>) /\ <<e>> \in Seq(Event) /\ Len(<<e>>) = 1 /\ <<e>>[1] = e
      BY <1>2, <1>13, <2>1, <2>2, Singletons DEF Trade
  <2>4. exch'[c].at = "Live" /\ exch'[c].id = exch[c].id
        /\ exch'[c].leaves \in Lots /\ exch'[c].leaves = exch[c].leaves - e.qty
      BY <1>2, <1>4, <1>5, <1>13, <2>2
  <2>5. stream'.up /\ \A i \in 1..Len(stream'.q) : Told(exch', stream'.q[i])
    <3>1. PICK T : T = {x \in Event : Told(exch', x)}
        OBVIOUS
    <3>2. Told(exch', e)
        BY <2>2, <2>4 DEF Told
    <3>3. <<e>> \in Seq(T)
        BY <2>2, <3>1, <3>2, Singletons
    <3> QED
        BY <1>1, <1>6, <1>8, <2>3, <3>1, <3>3, EmitTold
  <2>6. ASSUME NEW d \in ClIDs
        PROVE  Alone(stream'.q, call, d) /\ OnTrack(acct, exch'[d], stream'.q, call, d)
    <3>1. CASE d # c
      <4>1. \A i \in 1..Len(<<e>>) : /\ <<e>>[i].c # d \/ <<e>>[i].ev # "replaced"
                                     /\ exch'[d].at = "Live" => Bland(<<e>>[i], d)
          BY <2>2, <2>3, <3>1 DEF Bland
      <4>2. Alone(stream.q, call, d) /\ OnTrack(acct, exch'[d], stream.q, call, d)
          BY <1>5, <1>6, <3>1
      <4> QED
          BY <1>1, <1>6, <2>3, <4>1, <4>2, EmitBland
    <3>2. CASE d = c
      <4>1. PICK R : R = [i \in 0..1 |->
                 IF i = 0 THEN {stream.q}
                 ELSE {q \in Seq(Event) : Alone(q, call, c) /\ OnTrack(acct, exch'[c], q, call, c)}]
          OBVIOUS
      <4>2. stream.q \in R[0] /\ \A q \in R[0] : q = stream.q
          BY <4>1
      <4>3. R[1] = {q \in Seq(Event) : Alone(q, call, c) /\ OnTrack(acct, exch'[c], q, call, c)}
          BY <4>1
      <4>4. Append(stream.q, e) \in R[1]
        <5>1. stream.q \in Seq(Event) /\ exch[c].at = "Live"
            BY <1>1, <1>2 DEF StateTypes
        <5>2. /\ Alone(Append(stream.q, e), call, c)
              /\ OnTrack(acct, exch'[c], Append(stream.q, e), call, c)
            BY <1>6, <2>2, <2>4, <5>1, TradeAppend
        <5> QED
            BY <2>2, <4>3, <5>1, <5>2, AppendIs
      <4>5. Carries(e.ev)
          BY <1>6, <2>2 DEF Following
      <4>6. \A i \in 1..Len(<<e>>) : i = 1 /\ i - 1 = 0
          BY <2>3
      <4>7. stream'.q \in R[1]
          BY <1>1, <1>6, <2>3, <4>2, <4>4, <4>5, <4>6, EmitReaches
      <4> QED
          BY <3>2, <4>3, <4>7
    <3> QED
        BY <3>1, <3>2
  <2> QED
      BY <1>1, <1>6, <1>7, <2>5, <2>6, SameCallsTrack
<1> QED
    BY <1>12, <1>13

----------------------------------------------------------------------------
(***************************************************************************)
(* What the account's methods do to an order that is on its track.         *)
(***************************************************************************)

\* An order's change from o to p that loses nothing; "there" says that it is known
\* by client id.
Slight(o, p, there) ==
    /\ p.status = "PendingCancel" => p.prev # "PendingNew"
    /\ p.status \in Ready => o.status \in Ready
    /\ p.status = "PendingReplace" => o.status = "PendingReplace" /\ p.amendQty = o.amendQty
    /\ p.status = "PendingNew" => o.status = "PendingNew"
    /\ o.status = "PendingNew" /\ there => p.status = "PendingNew"
    /\ o.status \notin ClosedStatus => p.status \notin ClosedStatus /\ p.leaves = o.leaves

\* Such a change.
LEMMA SlightTrack ==
    ASSUME NEW a \in AccountType, NEW c \in ClIDs, NEW p \in Order, NEW there,
           Slight(a.orders[c], p, there), c \in a.ordersClID => there, NEW v,
           v.at = "Live" => v.id \in ExIDs, NEW q, NEW r, OnTrack(a, v, q, r, c)
    PROVE  OnTrack(Put(a, c, p), v, q, r, c)
<1>1. PICK b \in AccountType :
        /\ b = Put(a, c, p) /\ b.ordersClID = a.ordersClID
        /\ b.ordersID = a.ordersID /\ b.orders[c] = p
    BY PutShape
<1>2. Calm(a, b, c)
    BY <1>1 DEF Calm, Slight
<1> QED
    BY <1>1, <1>2, CalmTrack

\* A cancel of an order that is confirmed.
LEMMA CancelOrderTrack ==
    ASSUME NEW a, Linked(a), NEW c \in ClIDs, NEW k, Known(a, k), Find(a, k) = c,
           a.orders[c].status \in OpenStatus, NEW v,
           v.at = "Live" => v.id \in ExIDs, NEW q, NEW r, OnTrack(a, v, q, r, c)
    PROVE  OnTrack(CancelOrder(a, k), v, q, r, c)
<1>1. PICK o \in Order : a \in AccountType /\ o = a.orders[c]
    BY DEF Linked, AccountInv, AccountType
<1>2. PICK p : p = Save(o, "PendingCancel")
    OBVIOUS
<1>3. p \in Order /\ p.status = "PendingCancel" /\ p.prev = o.status /\ p.leaves = o.leaves
    BY <1>2, SaveShape DEF OrderStatus, PendingStatus
<1>4. Slight(o, p, TRUE)
    BY <1>1, <1>3 DEF Slight, Ready, OpenStatus, ClosedStatus
<1>5. CancelOrder(a, k) = Put(a, c, p)
    BY <1>1, <1>2 DEF CancelOrder
<1> QED
    BY <1>1, <1>3, <1>4, <1>5, SlightTrack

\* A cancel that is refused.
LEMMA RejectCancelTrack ==
    ASSUME NEW a, Linked(a), NEW c \in ClIDs, c \in a.ordersClID, NEW u \in BOOLEAN, NEW v,
           v.at = "Live" => v.id \in ExIDs, NEW q, NEW r, OnTrack(a, v, q, r, c)
    PROVE  OnTrack(RejectCancelOrder(a, c, u), v, q, r, c)
<1>1. PICK o \in Order : a \in AccountType /\ o = a.orders[c] /\ OrderInv(a, c)
    BY DEF Linked, AccountInv, AccountType
<1>2. Find(a, c) = c
    BY FindsOwn
<1>3. CASE o.status # "PendingCancel"
    BY <1>1, <1>2, <1>3 DEF RejectCancelOrder
<1>4. CASE o.status = "PendingCancel"
  <2>1. o.prev \in OpenStatus
      BY <1>1, <1>4 DEF OrderInv, SavedStatusSound, OnTrack, CancelableStatus, OpenStatus
  <2>2. PICK p : p = CancelRejected(o, u)
      OBVIOUS
  <2>3. p \in Order /\ p.status \in {o.status, o.prev} /\ p.prev = o.prev /\ p.leaves = o.leaves
    <3> DEFINE m == MissedFill(o, u)
               n == IF u THEN o.unknown + 1 ELSE o.unknown
               t == IF m THEN o.status ELSE o.prev
               w == o.stale /\ m
    <3>1. p = [o EXCEPT !.unknown = n, !.status = t, !.stale = w]
        BY <2>2 DEF CancelRejected
    <3>2. w \in BOOLEAN /\ t \in {o.status, o.prev} /\ n \in Nat
        BY DEF Order
    <3> HIDE DEF m, n, t, w
    <3>3. t \in OrderStatus \cup {"Blank"}
        BY <3>2 DEF Order
    <3> QED
        BY <3>1, <3>2, <3>3 DEF Order
  <2>4. Slight(o, p, TRUE)
      BY <1>4, <2>1, <2>3 DEF Slight, Ready, OpenStatus, ClosedStatus
  <2>5. RejectCancelOrder(a, c, u) = Put(a, c, p)
      BY <1>1, <1>2, <1>4, <2>2 DEF RejectCancelOrder
  <2> QED
      BY <1>1, <2>3, <2>4, <2>5, SlightTrack
<1> QED
    BY <1>3, <1>4

\* An order that is said to be executed, and is confirmed if it is known at all.
LEMMA PendingFilledTrack ==
    ASSUME NEW a, Linked(a), NEW c \in ClIDs, NEW k, Known(a, k), Find(a, k) = c,
           c \in a.ordersClID => a.orders[c].status # "PendingNew", NEW v,
           v.at = "Live" => v.id \in ExIDs, NEW q, NEW r, OnTrack(a, v, q, r, c)
    PROVE  OnTrack(PendingFilled(a, k), v, q, r, c)
<1>1. PICK o \in Order : a \in AccountType /\ o = a.orders[c]
    BY DEF Linked, AccountInv, AccountType
<1>2. CASE o.status = "Filled"
    BY <1>1, <1>2 DEF PendingFilled
<1>3. CASE o.status # "Filled"
  <2>1. PICK p : p = Save(o, "PendingFilled")
      OBVIOUS
  <2>2. p \in Order /\ p.status = "PendingFilled" /\ p.leaves = o.leaves
      BY <2>1, SaveShape DEF OrderStatus, PendingStatus
  <2>3. Slight(o, p, c \in a.ordersClID)
      BY <1>1, <2>2 DEF Slight, Ready, OpenStatus, ClosedStatus
  <2>4. PendingFilled(a, k) = Put(a, c, p)
      BY <1>1, <1>3, <2>1 DEF PendingFilled
  <2> QED
      BY <1>1, <2>2, <2>3, <2>4, SlightTrack
<1> QED
    BY <1>2, <1>3

\* Time that passes.
LEMMA AgeTrack ==
    ASSUME NEW a, Linked(a), NEW c \in ClIDs, NEW v,
           v.at = "Live" => v.id \in ExIDs, NEW q, NEW r, OnTrack(a, v, q, r, c)
    PROVE  OnTrack(Age(a, c), v, q, r, c)
<1>1. PICK o \in Order : a \in AccountType /\ o = a.orders[c]
    BY DEF Linked, AccountInv, AccountType
<1>2. PICK p : p = [o EXCEPT !.stale = TRUE]
    OBVIOUS
<1>3. p \in Order /\ p.status = o.status /\ p.prev = o.prev /\ p.leaves = o.leaves
      /\ p.amendQty = o.amendQty
    BY <1>2 DEF Order
<1>4. Slight(o, p, TRUE)
    BY <1>1, <1>3 DEF Slight, OnTrack
<1>5. Age(a, c) = Put(a, c, p)
    BY <1>1, <1>2 DEF Age, Put, AccountType
<1> QED
    BY <1>1, <1>3, <1>4, <1>5, SlightTrack

\* A new order that is refused.
LEMMA DropTrack ==
    ASSUME NEW a, Linked(a), NEW c \in ClIDs, NEW v,
           v.at = "Live" => v.id \in ExIDs, NEW q, NEW r, OnTrack(a, v, q, r, c)
    PROVE  OnTrack(RejectNewOrder(a, c), v, q, r, c)
<1>1. PICK o \in Order : a \in AccountType /\ o = a.orders[c]
    BY DEF Linked, AccountInv, AccountType
<1>2. PICK p : p = [o EXCEPT !.status = "Rejected"]
    OBVIOUS
<1>3. p \in Order /\ p.status = "Rejected" /\ p.leaves = o.leaves
    BY <1>2 DEF Order, OrderStatus
<1>4. PICK n : n = [Put(a, c, p) EXCEPT !.ordersClID = @ \ {c}]
    OBVIOUS
<1>5. /\ n \in AccountType /\ n.ordersClID = a.ordersClID \ {c} /\ n.ordersID = a.ordersID
      /\ n.orders[c] = p
    BY <1>1, <1>3, <1>4 DEF Put, AccountType
<1>6. PICK b : b = Collect(n)
    OBVIOUS
<1>7. /\ b.ordersClID = n.ordersClID /\ b.ordersID = n.ordersID
      /\ b.orders[c] = IF Referenced(n, c) THEN p ELSE Blank
    BY <1>5, <1>6, CollectShape
<1>8. Referenced(b, c) <=> Referenced(n, c)
    BY <1>7 DEF Referenced
<1>9. Blank.status = "Blank"
    BY DEF Blank
<1>10. Calm(a, b, c)
    BY <1>1, <1>3, <1>5, <1>7, <1>8, <1>9 DEF Calm, Ready, OpenStatus, ClosedStatus
<1>11. RejectNewOrder(a, c) = b
    BY <1>1, <1>2, <1>4, <1>6 DEF RejectNewOrder
<1> QED
    BY <1>10, <1>11, CalmTrack

\* Closed orders that are cleaned away.
LEMMA CleanTrack ==
    ASSUME NEW a, Linked(a), NEW c \in ClIDs, NEW v,
           v.at = "Live" => v.id \in ExIDs, NEW q, NEW r, OnTrack(a, v, q, r, c)
    PROVE  OnTrack(CleanOrders(a), v, q, r, c)
<1> DEFINE gone == {d \in a.ordersClID : a.orders[d].status \in ClosedStatus /\ a.orders[d].stale}
           ids == [x \in ExIDs |-> IF \E d \in gone : a.orders[d].id = x
                                   THEN NoID ELSE a.ordersID[x]]
           n == [a EXCEPT !.ordersClID = @ \ gone, !.ordersID = ids]
           b == Collect(n)
<1>1. a \in AccountType /\ Agrees(a, c)
    BY DEF Linked, AccountInv
<1>2. gone \subseteq a.ordersClID /\ \A d \in gone : a.orders[d].status \in ClosedStatus
    OBVIOUS
<1>3. CleanOrders(a) = b
    BY <1>1 DEF CleanOrders, AccountType
<1> HIDE DEF gone
<1>4. ids \in [ExIDs -> ClIDs \cup {NoID}]
    BY <1>1 DEF AccountType
<1>5. \A x \in ExIDs : (\E d \in gone : a.orders[d].id = x) \/ ids[x] = a.ordersID[x]
    OBVIOUS
<1> HIDE DEF ids
<1>6. /\ n \in AccountType /\ n.ordersClID = a.ordersClID \ gone /\ n.ordersID = ids
      /\ n.orders = a.orders
    BY <1>1, <1>4 DEF AccountType
<1> HIDE DEF n
<1>7. /\ b.ordersClID = a.ordersClID \ gone /\ b.ordersID = ids
      /\ b.orders[c] = IF Referenced(n, c) THEN a.orders[c] ELSE Blank
    BY <1>6, CollectShape
<1>8. Referenced(b, c) <=> Referenced(n, c)
    BY <1>6, <1>7 DEF Referenced
<1> HIDE DEF b
<1>9. ASSUME a.orders[c].status \notin ClosedStatus, NEW x \in ExIDs, a.ordersID[x] = c
      PROVE  ids[x] = c
  <2>1. x = IdOf[c] /\ x # NoID
      BY <1>1, <1>9, AccountConstants DEF Agrees
  <2>2. \A d \in ClIDs \ {c} : a.orders[d].id # x
      BY <2>1, ItsOwnID
  <2>3. c \notin gone /\ gone \subseteq ClIDs
      BY <1>1, <1>2, <1>9 DEF AccountType
  <2> QED
      BY <1>5, <1>9, <2>2, <2>3
<1>10. Blank.status = "Blank"
    BY DEF Blank
<1>11. a.orders[c].status = "PendingCancel" => a.orders[c].prev # "PendingNew"
    BY DEF OnTrack
<1>12. c \in b.ordersClID => Referenced(b, c)
    BY DEF Referenced
<1>13. Calm(a, b, c)
    BY <1>7, <1>8, <1>9, <1>10, <1>11, <1>12 DEF Calm, Ready, OpenStatus
<1> QED
    BY <1>3, <1>13, CalmTrack

\* Request k for a new order c does not have to reach the venue any more.
Heard(r, c) == \A k \in {"new", "bulk"} : ~(r[k].sent /\ c \in r[k].cs)

\* A replacement that is refused, and nothing else is on its way for the order.
LEMMA RejectReplaceTrack ==
    ASSUME NEW a, Linked(a), NEW c \in ClIDs, c \in a.ordersClID, NEW v,
           NEW q, NEW r, ~Engaged(q, r, c), OnTrack(a, v, q, r, c)
    PROVE  LET b == RejectReplaceOrder(a, c) IN
           /\ OnTrack(b, v, q, r, c)
           /\ a.orders[c].status # "PendingNew" => b.orders[c].status # "PendingNew"
<1>1. PICK o \in Order : a \in AccountType /\ o = a.orders[c] /\ OrderInv(a, c)
    BY DEF Linked, AccountInv, AccountType
<1>2. Find(a, c) = c
    BY FindsOwn
<1>3. CASE o.status # "PendingReplace"
    BY <1>1, <1>2, <1>3 DEF RejectReplaceOrder
<1>4. CASE o.status = "PendingReplace"
  <2>1. o.prev \in OpenStatus
      BY <1>1, <1>4 DEF OrderInv, SavedStatusSound
  <2>2. PICK p : p = Stamp(o, o.prev)
      OBVIOUS
  <2>3. p \in Order /\ p.status \in OpenStatus /\ p.leaves = o.leaves
      BY <2>1, <2>2, StampShape DEF OpenStatus, OrderStatus
  <2>4. PICK b : b = Put(a, c, p)
      OBVIOUS
  <2>5. b.orders[c] = p /\ b.ordersClID = a.ordersClID /\ b.ordersID = a.ordersID
      BY <1>1, <2>3, <2>4, PutShape
  <2>6. RejectReplaceOrder(a, c) = b
      BY <1>1, <1>2, <1>4, <2>2, <2>4 DEF RejectReplaceOrder
  <2>7. p.status \notin {"PendingNew", "PendingCancel", "PendingReplace"} \cup ClosedStatus
      BY <2>3 DEF OpenStatus, ClosedStatus
  <2>8. ASSUME Followed(a, v, q, c) PROVE Followed(b, v, q, c)
    <3>1. PICK f : /\ History(f, q, v, c) /\ Promised(a, f, q, c)
                   /\ Mine(a, v, c, f[0]) \/ Awaited(a, q, c, f[0])
        BY <2>8 DEF Followed
    <3>2. Mine(a, v, c, f[0])
        BY <1>1, <1>4, <3>1 DEF Awaited
    <3>3. Mine(b, v, c, f[0])
        BY <1>1, <2>3, <2>5, <2>7, <3>2 DEF Mine
    <3>4. Promised(b, f, q, c)
        BY <2>5, <2>7 DEF Promised
    <3> QED
        BY <3>1, <3>3, <3>4 DEF Followed
  <2>9. \A k \in {"new", "bulk"} : ~(r[k].sent /\ c \in r[k].cs)
      BY <1>1, <1>4 DEF OnTrack
  <2>10. OnTrack(b, v, q, r, c)
      BY <2>5, <2>7, <2>8, <2>9 DEF OnTrack
  <2>11. b.orders[c].status # "PendingNew"
      BY <2>5, <2>7
  <2> QED
      BY <2>6, <2>10, <2>11
<1> QED
    BY <1>3, <1>4

\* A new order nobody has heard of.
LEMMA NewOrderTrack ==
    ASSUME NEW a \in AccountType, NEW c \in ClIDs, NEW qty \in Lots, NEW v, v.at # "Live",
           NEW q, NEW r, ~Engaged(q, r, c),
           \A k \in {"new", "bulk"} : c \in r[k].cs => r[k].qty = qty,
           \A k \in Kinds \ {"new", "bulk"} : c \notin r[k].cs
    PROVE  OnTrack(NewOrder(a, c, "Buy", "Limit", 1, qty), v, q, r, c)
<1>1. "Buy" \in Sides /\ "Limit" \in Types /\ 1 \in Prices
    BY AccountConstants DEF Prices
<1>2. PICK b : b = NewOrder(a, c, "Buy", "Limit", 1, qty)
    OBVIOUS
<1>3. b.orders[c].status = "PendingNew" /\ b.orders[c].leaves = qty
    BY <1>1, <1>2, NewOrderShape
<1> QED
    BY <1>2, <1>3 DEF OnTrack, Replacements, Kinds

\* A replacement of an order that works, by request k.
LEMMA ReplaceOrderTrack ==
    ASSUME NEW a, Linked(a), NEW c \in ClIDs, c \in a.ordersClID,
           a.orders[c].status \in OpenStatus, NEW qty \in Lots, NEW v, NEW q, NEW r, NEW s,
           NEW k \in Replacements, s[k].qty = qty, \A j \in Kinds \ {k} : s[j] = r[j],
           OnTrack(a, v, q, r, c)
    PROVE  OnTrack(ReplaceOrder(a, c, NoPrice, qty), v, q, s, c)
<1>1. PICK o \in Order : a \in AccountType /\ o = a.orders[c] /\ OrderInv(a, c)
    BY DEF Linked, AccountInv, AccountType
<1>2. Find(a, c) = c /\ qty \in 0..MaxLots /\ NoPrice \in Prices \cup {NoPrice}
    BY FindsOwn, Quantities
<1>3. PICK p : p = [Save(o, "PendingReplace") EXCEPT !.amendPrice = NoPrice, !.amendQty = qty]
    OBVIOUS
<1>4. p \in Order /\ p.status = "PendingReplace" /\ p.leaves = o.leaves /\ p.amendQty = qty
  <2>1. PICK w \in Order : w = Save(o, "PendingReplace")
      BY SaveShape DEF OrderStatus, PendingStatus
  <2>2. w.status = "PendingReplace" /\ w.leaves = o.leaves
      BY <2>1, SaveShape DEF OrderStatus, PendingStatus
  <2> QED
      BY <1>2, <1>3, <2>1, <2>2 DEF Order
<1>5. PICK b : b = Put(a, c, p)
    OBVIOUS
<1>6. b.orders[c] = p /\ b.ordersClID = a.ordersClID /\ b.ordersID = a.ordersID
    BY <1>1, <1>4, <1>5, PutShape
<1>7. ReplaceOrder(a, c, NoPrice, qty) = b
    BY <1>1, <1>2, <1>3, <1>5 DEF ReplaceOrder
<1>8. o.status \in Ready /\ o.status # "PendingNew"
    BY <1>1 DEF Ready, OpenStatus
<1>9. ~Engaged(q, r, c)
    BY <1>1, <1>8 DEF OnTrack
<1>10. \A j \in {"new", "bulk"} : ~(s[j].sent /\ c \in s[j].cs)
  <2>1. \A j \in {"new", "bulk"} : ~(r[j].sent /\ c \in r[j].cs)
      BY <1>1, <1>8 DEF OnTrack
  <2>2. \A j \in {"new", "bulk"} : s[j] = r[j]
      BY DEF Replacements, Kinds
  <2> QED
      BY <2>1, <2>2
<1>11. \A j \in Replacements : s[j].ans = "waiting" /\ c \in s[j].cs => s[j].qty = qty
  <2>1. ASSUME NEW j \in Replacements, j # k PROVE ~(s[j].ans = "waiting" /\ c \in s[j].cs)
    <3>1. s[j] = r[j]
        BY <2>1 DEF Replacements, Kinds
    <3> QED
        BY <1>9, <3>1 DEF Engaged, Claimed
  <2> QED
      BY <2>1
<1>12. ASSUME Followed(a, v, q, c) PROVE Followed(b, v, q, c)
  <2>1. PICK f : /\ History(f, q, v, c) /\ Promised(a, f, q, c)
                 /\ Mine(a, v, c, f[0]) \/ Awaited(a, q, c, f[0])
      BY <1>12 DEF Followed
  <2>2. Mine(a, v, c, f[0])
      BY <1>1, <1>8, <2>1 DEF Awaited
  <2>3. Mine(b, v, c, f[0])
      BY <1>1, <1>4, <1>6, <2>2 DEF Mine, ClosedStatus
  <2>4. Promised(b, f, q, c)
      BY <1>9 DEF Promised, Engaged, Amending
  <2> QED
      BY <2>1, <2>3, <2>4 DEF Followed
<1>13. OnTrack(b, v, q, s, c)
    BY <1>4, <1>6, <1>10, <1>11, <1>12 DEF OnTrack, Ready, OpenStatus
<1> QED
    BY <1>7, <1>13

\* A confirmation of an order the venue has heard of.
LEMMA ConfirmTrack ==
    ASSUME NEW a, Linked(a), NEW c \in ClIDs, c \in a.ordersClID, NEW v,
           v.at = "Live" => v.id = IdOf[c], NEW q, NEW r, Heard(r, c), OnTrack(a, v, q, r, c)
    PROVE  LET b == ConfirmNewOrder(a, c, IdOf[c], 0) IN
           OnTrack(b, v, q, r, c) /\ c \in b.ordersClID /\ b.orders[c].status # "PendingNew"
<1>1. /\ a \in AccountType /\ IdOf[c] \in ExIDs /\ 0 \in 0..MaxLots
    BY IdsApart, Quantities DEF Linked, AccountInv
<1>2. PICK b : b = ConfirmNewOrder(a, c, IdOf[c], 0)
    OBVIOUS
<1>3. CASE a.orders[c].status # "PendingNew"
    BY <1>3 DEF ConfirmNewOrder
<1>4. CASE a.orders[c].status = "PendingNew"
  <2>1. Confirms(a, b, c, IdOf[c], 0)
      BY <1>1, <1>2, <1>4, ConfirmNewOrderShape
  <2>2. /\ b.ordersClID = a.ordersClID /\ b.ordersID[IdOf[c]] = c
        /\ b.orders[c].status = "New" /\ b.orders[c].leaves = a.orders[c].leaves
      BY <1>1, <2>1 DEF Confirms, AccountType
  <2>3. ~Engaged(q, r, c)
      BY <1>4 DEF OnTrack, Ready
  <2>4. ASSUME v.at = "Live" PROVE Followed(b, v, q, c)
    <3>1. PICK f : /\ History(f, q, v, c) /\ Promised(a, f, q, c)
                   /\ Mine(a, v, c, f[0]) \/ Awaited(a, q, c, f[0])
        BY <2>4 DEF OnTrack, Followed
    <3>2. Mine(b, v, c, f[0])
        BY <2>2, <2>4, <3>1 DEF Mine, Awaited, ClosedStatus
    <3>3. Promised(b, f, q, c)
        BY <2>2 DEF Promised
    <3> QED
        BY <3>1, <3>2, <3>3 DEF Followed
  <2>5. OnTrack(b, v, q, r, c)
      BY <2>2, <2>3, <2>4 DEF OnTrack, Heard
  <2> QED
      BY <1>2, <2>2, <2>5
<1> QED
    BY <1>3, <1>4

\* An order that is done at the venue is closed.
LEMMA ClosedTrack ==
    ASSUME NEW a, Linked(a), NEW c \in ClIDs, NEW k, Known(a, k), Find(a, k) = c, NEW v,
           v.at # "Live", NEW q, NEW r, Heard(r, c), OnTrack(a, v, q, r, c)
    PROVE  /\ OnTrack(ConfirmCancelOrder(a, k), v, q, r, c)
           /\ OnTrack(ConfirmExpiredOrder(a, k), v, q, r, c)
<1>1. PICK o \in Order : a \in AccountType /\ o = a.orders[c]
    BY DEF Linked, AccountInv, AccountType
<1>2. ASSUME NEW b, b.orders[c].status \in {"Canceled", "Expired"} PROVE OnTrack(b, v, q, r, c)
    BY <1>2 DEF OnTrack, Heard, Ready, OpenStatus
<1>3. ASSUME NEW p \in Order
      PROVE  BookRemove(Put(a, c, p), c).orders[c] = p
  <2>1. PICK n \in AccountType : n = Put(a, c, p) /\ n.orders[c] = p
      BY <1>1, PutShape
  <2>2. Touches(n, BookRemove(n, c), c)
      BY <2>1, BookShapes
  <2> QED
      BY <2>1, <2>2 DEF Touches
<1>4. OnTrack(ConfirmCancelOrder(a, k), v, q, r, c)
  <2>1. PICK p : p = Stamp(o, "Canceled")
      OBVIOUS
  <2>2. p \in Order /\ p.status = "Canceled"
      BY <2>1, StampShape DEF OrderStatus, ClosedStatus
  <2>3. o.status # "Canceled" => ConfirmCancelOrder(a, k) = BookRemove(Put(a, c, p), c)
      BY <1>1, <2>1 DEF ConfirmCancelOrder
  <2>4. o.status = "Canceled" => ConfirmCancelOrder(a, k) = a
      BY <1>1 DEF ConfirmCancelOrder
  <2> QED
      BY <1>2, <1>3, <2>2, <2>3, <2>4
<1>5. OnTrack(ConfirmExpiredOrder(a, k), v, q, r, c)
  <2>1. PICK p : p = [Stamp(o, "Expired") EXCEPT !.leaves = 0]
      OBVIOUS
  <2>2. p \in Order /\ p.status = "Expired"
    <3>1. Stamp(o, "Expired") \in Order /\ Stamp(o, "Expired").status = "Expired"
        BY StampShape DEF OrderStatus, ClosedStatus
    <3> QED
        BY <2>1, <3>1 DEF Order
  <2>3. o.status # "Expired" => ConfirmExpiredOrder(a, k) = BookRemove(Put(a, c, p), c)
      BY <1>1, <2>1 DEF ConfirmExpiredOrder
  <2>4. o.status = "Expired" => ConfirmExpiredOrder(a, k) = a
      BY <1>1 DEF ConfirmExpiredOrder
  <2> QED
      BY <1>2, <1>3, <2>2, <2>3, <2>4
<1> QED
    BY <1>4, <1>5

\* What the answer to a new order makes of it.
LEMMA AcceptedTrack ==
    ASSUME NEW a, Linked(a), NEW c \in ClIDs, NEW ans, NEW v,
           v.at = "Live" => v.id = IdOf[c], ans = "expired" => v.at # "Live",
           NEW q, NEW r, Heard(r, c), OnTrack(a, v, q, r, c)
    PROVE  OnTrack(Accepted(a, c, ans), v, q, r, c)
<1> DEFINE b == IF ConfirmNewOrderError(a, c) THEN a ELSE Confirm(a, c)
<1>1. /\ Linked(b) /\ OnTrack(b, v, q, r, c)
      /\ c \in b.ordersClID => b.orders[c].status # "PendingNew"
  <2>1. CASE ConfirmNewOrderError(a, c)
      BY <2>1 DEF ConfirmNewOrderError
  <2>2. CASE ~ConfirmNewOrderError(a, c)
    <3>1. PICK d : d = ConfirmNewOrder(a, c, IdOf[c], 0)
        OBVIOUS
    <3>2. b = d /\ c \in a.ordersClID
        BY <2>2, <3>1 DEF Confirm, ConfirmNewOrderError
    <3>3. Linked(d)
        BY <3>1, <3>2, ConfirmNewLinked
    <3>4. OnTrack(d, v, q, r, c) /\ d.orders[c].status # "PendingNew"
        BY <3>1, <3>2, ConfirmTrack
    <3> HIDE DEF b
    <3> QED
        BY <3>2, <3>3, <3>4
  <2> QED
      BY <2>1, <2>2
<1>2. Accepted(a, c, ans) =
        CASE ans = "expired" /\ Known(b, IdOf[c]) -> ConfirmExpiredOrder(b, IdOf[c])
          [] ans = "filled" /\ Known(b, IdOf[c])  -> PendingFilled(b, IdOf[c])
          [] OTHER -> b
    BY DEF Accepted
<1> HIDE DEF b
<1>3. /\ Known(b, IdOf[c]) => Find(b, IdOf[c]) = c
      /\ v.at = "Live" => v.id \in ExIDs
    BY <1>1, FindsOwn, IdsApart
<1>4. CASE ans = "expired" /\ Known(b, IdOf[c])
  <2>1. OnTrack(ConfirmExpiredOrder(b, IdOf[c]), v, q, r, c)
      BY <1>1, <1>3, <1>4, ClosedTrack
  <2> QED
      BY <1>2, <1>4, <2>1
<1>5. CASE ans = "filled" /\ Known(b, IdOf[c])
  <2>1. OnTrack(PendingFilled(b, IdOf[c]), v, q, r, c)
      BY <1>1, <1>3, <1>5, PendingFilledTrack
  <2> QED
      BY <1>2, <1>5, <2>1
<1>6. CASE /\ ~(ans = "expired" /\ Known(b, IdOf[c]))
           /\ ~(ans = "filled" /\ Known(b, IdOf[c]))
    BY <1>1, <1>2, <1>6
<1> QED
    BY <1>4, <1>5, <1>6

----------------------------------------------------------------------------
(***************************************************************************)
(* What the head of the queue makes of the order it is about.              *)
(***************************************************************************)

\* The first event of the queue, and what was left before and after it.
LEMMA HeadOf ==
    ASSUME NEW q \in Seq(Event), q # <<>>, NEW a, NEW o, NEW c, NEW f, History(f, q, o, c),
           Promised(a, f, q, c)
    PROVE  /\ f[0] \in Lots /\ f[1] \in Lots /\ 1 \in 1..Len(q)
           /\ q[1].c # c \/ q[1].ev \notin {"trade", "replaced"} => f[1] = f[0]
           /\ q[1].c = c /\ q[1].ev = "trade" => f[1] = f[0] - q[1].qty
           /\ q[1].c = c /\ q[1].ev = "new" => f[1] = q[1].qty
           /\ q[1].c = c /\ q[1].ev = "replaced" /\ a.orders[c].status = "PendingReplace" =>
                 f[1] = a.orders[c].amendQty
           /\ \E g : History(g, Tail(q), o, c) /\ Promised(a, g, Tail(q), c) /\ g[0] = f[1]
<1>1. PICK g : g = [i \in 0..Len(q) - 1 |-> f[i + 1]]
    OBVIOUS
<1>2. /\ History(g, Tail(q), o, c) /\ Promised(a, g, Tail(q), c) /\ g[0] = f[1]
      /\ f[0] \in Lots /\ f[1] \in Lots
    BY <1>1, HistoryTail
<1>3. 1 \in 1..Len(q) /\ 1 - 1 = 0
    BY TailIs
<1>4. /\ q[1].c # c \/ q[1].ev \notin {"trade", "replaced"} => f[1] = f[0]
      /\ q[1].c = c /\ q[1].ev = "trade" => f[1] = f[0] - q[1].qty
      /\ q[1].c = c /\ q[1].ev = "new" => f[1] = q[1].qty
    BY <1>3 DEF History
<1>5. q[1].c = c /\ q[1].ev = "replaced" /\ a.orders[c].status = "PendingReplace" =>
          f[1] = a.orders[c].amendQty
    BY <1>3 DEF Promised
<1> QED
    BY <1>2, <1>3, <1>4, <1>5

\* An order that is executed was heard of before.
LEMMA NotAwaited ==
    ASSUME NEW q \in Seq(Event), q # <<>>, NEW a, NEW o, NEW c, NEW f, History(f, q, o, c),
           q[1].c = c, q[1].ev \in {"trade", "replaced"}, NEW n
    PROVE  ~Awaited(a, q, c, n)
<1> SUFFICES ASSUME Awaited(a, q, c, n) PROVE FALSE
    OBVIOUS
<1>1. PICK i \in 1..Len(q) : q[i].ev = "new" /\ q[i].c = c
    BY DEF Awaited
<1>2. i # 1
    BY <1>1
<1>3. 1 \in 1..i - 1
    BY <1>1, <1>2, TailIs
<1> QED
    BY <1>1, <1>3 DEF History

\* What a fill makes of an order.
LEMMA ConfirmFillShape ==
    ASSUME NEW a \in AccountType, NEW c \in ClIDs, NEW k, Find(a, k) = c, NEW qty \in Lots,
           qty <= a.orders[c].leaves
    PROVE  LET b == ConfirmFill(a, k, qty)
               o == a.orders[c]
           IN  /\ Only(a, b, c) /\ b.ordersClID = a.ordersClID /\ b.ordersID = a.ordersID
               /\ b.orders[c].status = FillStatus(o, qty) /\ b.orders[c].prev = o.prev
               /\ b.orders[c].leaves = o.leaves - qty /\ b.orders[c].amendQty = o.amendQty
<1>1. PICK o \in Order : o = a.orders[c]
    BY DEF AccountType
<1>2. PICK p : p = Filled(o, qty)
    OBVIOUS
<1>3. /\ p \in Order /\ p.status = FillStatus(o, qty) /\ p.prev = o.prev
      /\ p.leaves = o.leaves - qty /\ p.amendQty = o.amendQty
  <2>1. PICK t : t = FillStatus(o, qty)
      OBVIOUS
  <2>2. t \in OrderStatus \cup {"Blank"}
      BY <1>1, <2>1 DEF FillStatus, Order, OrderStatus, OpenStatus, ClosedStatus
  <2>3. o.leaves - qty \in Nat /\ o.cum + qty \in Nat
      BY <1>1 DEF Order, Lots
  <2>4. p = [o EXCEPT !.status = t, !.stale = FALSE, !.leaves = o.leaves - qty,
                      !.cum = o.cum + qty]
      BY <1>2, <2>1, <2>2 DEF Filled, Stamp, Order
  <2> QED
      BY <2>1, <2>2, <2>3, <2>4 DEF Order
<1>4. PICK n \in AccountType : /\ n = Put(a, c, p) /\ n.ordersClID = a.ordersClID
                               /\ n.ordersID = a.ordersID /\ n.orders[c] = p
    BY <1>3, PutShape
<1>5. PICK b : b = IF n.orders[c].status = "Filled" THEN BookRemove(n, c) ELSE BookUpdateQuantity(n, c)
    OBVIOUS
<1>6. Touches(n, b, c)
    BY <1>5, BookShapes
<1>7. /\ Only(a, b, c) /\ b.ordersClID = a.ordersClID /\ b.ordersID = a.ordersID
      /\ b.orders[c] = p
  <2>1. Only(a, b, c)
      BY <1>3, <1>4, <1>6, OnlyShown
  <2> QED
      BY <1>4, <1>6, <2>1 DEF Touches
<1>8. ConfirmFill(a, k, qty) = b
    BY <1>1, <1>2, <1>4, <1>5 DEF ConfirmFill
<1> QED
    BY <1>1, <1>3, <1>7, <1>8

\* An execution is told.
LEMMA TradeTail ==
    ASSUME NEW q \in Seq(Event), q # <<>>, NEW c \in ClIDs, q[1].c = c, q[1].ev = "trade",
           q[1].qty \in Lots, NEW a, Linked(a), NEW k, Find(a, k) = c,
           q[1].qty <= a.orders[c].leaves, NEW v, NEW r, Heard(r, c),
           Alone(q, r, c), OnTrack(a, v, q, r, c)
    PROVE  /\ Only(a, ConfirmFill(a, k, q[1].qty), c)
           /\ Alone(Tail(q), r, c)
           /\ OnTrack(ConfirmFill(a, k, q[1].qty), v, Tail(q), r, c)
<1>1. PICK qty \in Lots : qty = q[1].qty
    OBVIOUS
<1>2. PICK o \in Order : a \in AccountType /\ o = a.orders[c]
    BY DEF Linked, AccountInv, AccountType
<1>3. PICK b : b = ConfirmFill(a, k, qty)
    OBVIOUS
<1>4. /\ Only(a, b, c) /\ b.ordersClID = a.ordersClID /\ b.ordersID = a.ordersID
      /\ b.orders[c].status = FillStatus(o, qty) /\ b.orders[c].prev = o.prev
      /\ b.orders[c].leaves = o.leaves - qty /\ b.orders[c].amendQty = o.amendQty
    BY <1>1, <1>2, <1>3, ConfirmFillShape
<1>5. Alone(Tail(q), r, c) /\ (Amending(Tail(q), c) => Amending(q, c))
    BY AloneTail
<1>6. Engaged(Tail(q), r, c) => Engaged(q, r, c)
    BY <1>5 DEF Engaged
<1>7. \/ b.orders[c].status = o.status
      \/ o.status \in OpenStatus /\ b.orders[c].status = "PartiallyFilled"
      \/ qty = o.leaves /\ b.orders[c].status = "Filled"
    BY <1>4 DEF FillStatus
<1>8. ASSUME v.at = "Live" PROVE Followed(b, v, Tail(q), c)
  <2>1. PICK f : /\ History(f, q, v, c) /\ Promised(a, f, q, c)
                 /\ Mine(a, v, c, f[0]) \/ Awaited(a, q, c, f[0])
      BY <1>8 DEF OnTrack, Followed
  <2>2. PICK g : History(g, Tail(q), v, c) /\ Promised(a, g, Tail(q), c) /\ g[0] = f[1]
      BY <2>1, HeadOf
  <2>3. f[1] \in Lots /\ f[1] = f[0] - qty
      BY <1>1, <2>1, HeadOf
  <2>4. Mine(a, v, c, f[0])
      BY <2>1, NotAwaited
  <2>5. o.leaves = f[0] /\ qty # o.leaves
      BY <1>2, <2>3, <2>4 DEF Mine, Lots
  <2>6. b.orders[c].status \notin ClosedStatus
      BY <1>2, <1>7, <2>4, <2>5 DEF Mine, ClosedStatus
  <2>7. Mine(b, v, c, g[0])
      BY <1>4, <2>2, <2>3, <2>4, <2>5, <2>6 DEF Mine
  <2>8. Promised(b, g, Tail(q), c)
      BY <1>2, <1>4, <1>7, <2>2 DEF Promised
  <2> QED
      BY <2>2, <2>7, <2>8 DEF Followed
<1>9. b.orders[c].status = "PendingCancel" => b.orders[c].prev # "PendingNew"
    BY <1>2, <1>4, <1>7 DEF OnTrack
<1>10. \A j \in Kinds \ {"new", "bulk"} : r[j].ans # "none" /\ c \in r[j].cs =>
           b.orders[c].status # "PendingNew"
    BY <1>2, <1>7 DEF OnTrack
<1>11. Engaged(Tail(q), r, c) => b.orders[c].status \notin Ready
    BY <1>2, <1>6, <1>7 DEF OnTrack, Ready, OpenStatus
<1>12. b.orders[c].status = "PendingReplace" => o.status = "PendingReplace"
    BY <1>7
<1>13. OnTrack(b, v, Tail(q), r, c)
    BY <1>2, <1>4, <1>8, <1>9, <1>10, <1>11, <1>12 DEF OnTrack, Heard
<1> QED
    BY <1>1, <1>3, <1>4, <1>5, <1>13

\* What a confirmed replacement makes of an order.
LEMMA ConfirmReplaceShape ==
    ASSUME NEW a, Linked(a), NEW c \in ClIDs, ~NotPendingReplace(a, c)
    PROVE  LET b == ConfirmReplaceOrder(a, c, NoID)
               o == a.orders[c]
           IN  /\ Only(a, b, c) /\ b.ordersClID = a.ordersClID /\ b.ordersID = a.ordersID
               /\ c \in a.ordersClID /\ o.status = "PendingReplace"
               /\ b.orders[c].status \in OpenStatus
               /\ o.amendQty # 0 => b.orders[c].leaves = o.amendQty
<1>1. c \in a.ordersClID /\ Find(a, c) = c
    BY FindsOwn DEF NotPendingReplace
<1>2. PICK o \in Order : a \in AccountType /\ o = a.orders[c] /\ OrderInv(a, c)
    BY DEF Linked, AccountInv, AccountType
<1>3. o.status = "PendingReplace" /\ o.prev \in OpenStatus
    BY <1>1, <1>2 DEF NotPendingReplace, OrderInv, SavedStatusSound
<1>4. PICK b : b = ConfirmReplaceOrder(a, c, NoID)
    OBVIOUS
<1>5. PICK p : p = AmendedQuantity(o)
    OBVIOUS
<1>6. p \in Order /\ p.status = o.prev /\ (o.amendQty # 0 => p.leaves = o.amendQty)
  <2>1. PICK w \in Order : w = Stamp(o, o.prev) /\ w.status = o.prev
      BY <1>3, StampShape DEF OrderStatus
  <2>2. PICK n \in Nat : n = (IF o.amendQty = 0 THEN o.leaves ELSE o.amendQty)
      BY DEF Order
  <2>3. p = [w EXCEPT !.leaves = n, !.amendQty = 0]
      BY <1>5, <2>1, <2>2 DEF AmendedQuantity
  <2> QED
      BY <2>1, <2>2, <2>3, Quantities DEF Order
<1>7. CASE ReplacePriceError(a, c)
  <2>1. b = Put(a, c, p)
      BY <1>1, <1>2, <1>4, <1>5, <1>7 DEF ConfirmReplaceOrder
  <2>2. Only(a, b, c)
      BY <1>2, <2>1, OnlyPut
  <2> QED
      BY <1>1, <1>2, <1>3, <1>4, <1>6, <2>1, <2>2, PutShape
<1>8. CASE ~ReplacePriceError(a, c)
  <2>1. PICK w : w = Amended(o, NoID)
      OBVIOUS
  <2>2. w \in Order /\ w.status = p.status /\ w.leaves = p.leaves
    <3>1. PICK x \in Prices \cup {NoPrice} :
              x = IF o.amendPrice = NoPrice THEN o.price ELSE o.amendPrice
        BY DEF Order
    <3>2. w = [p EXCEPT !.price = x, !.amendPrice = NoPrice, !.id = o.id]
        BY <1>5, <2>1, <3>1 DEF Amended
    <3>3. o.id \in ExIDs \cup {NoID} /\ NoPrice \in Prices \cup {NoPrice}
        BY DEF Order
    <3> QED
        BY <1>6, <3>1, <3>2, <3>3 DEF Order
  <2>3. PICK n \in AccountType : /\ n = Put(a, c, w) /\ n.ordersClID = a.ordersClID
                                 /\ n.ordersID = a.ordersID /\ n.orders[c] = w
      BY <1>2, <2>2, PutShape
  <2>4. b = BookUpdate(n, c)
      BY <1>1, <1>2, <1>4, <1>8, <2>1, <2>3 DEF ConfirmReplaceOrder
  <2>5. Touches(n, b, c)
      BY <2>3, <2>4, BookShapes
  <2>6. Only(a, b, c)
      BY <1>2, <2>2, <2>3, <2>5, OnlyShown
  <2> QED
      BY <1>1, <1>2, <1>3, <1>4, <1>6, <2>2, <2>3, <2>5, <2>6 DEF Touches
<1> QED
    BY <1>7, <1>8

\* A replacement is told.
LEMMA ReplacedTail ==
    ASSUME NEW q \in Seq(Event), q # <<>>, NEW c \in ClIDs, q[1].c = c, q[1].ev = "replaced",
           NEW a, Linked(a), ~NotPendingReplace(a, c), NEW v, NEW r, Heard(r, c),
           Alone(q, r, c), OnTrack(a, v, q, r, c)
    PROVE  /\ Only(a, ConfirmReplaceOrder(a, c, NoID), c)
           /\ Alone(Tail(q), r, c)
           /\ OnTrack(ConfirmReplaceOrder(a, c, NoID), v, Tail(q), r, c)
<1>1. PICK b : b = ConfirmReplaceOrder(a, c, NoID)
    OBVIOUS
<1>2. PICK o : o = a.orders[c]
    OBVIOUS
<1>3. /\ Only(a, b, c) /\ b.ordersClID = a.ordersClID /\ b.ordersID = a.ordersID
      /\ c \in a.ordersClID /\ o.status = "PendingReplace"
      /\ b.orders[c].status \in OpenStatus
      /\ o.amendQty # 0 => b.orders[c].leaves = o.amendQty
    BY <1>1, <1>2, ConfirmReplaceShape
<1>4. Alone(Tail(q), r, c)
    BY AloneTail
<1>5. ~Engaged(Tail(q), r, c)
  <2>1. Amending(q, c) /\ \A k \in Replacements : ~Claimed(r, k, c)
      BY TailIs DEF Amending, Alone
  <2>2. ASSUME NEW i \in 1..Len(Tail(q)), Tail(q)[i].ev = "replaced", Tail(q)[i].c = c
        PROVE  FALSE
    <3>1. Tail(q)[i] = q[i + 1] /\ i + 1 \in 1..Len(q) /\ 1 \in 1..Len(q) /\ i + 1 # 1
        BY TailIs
    <3> QED
        BY <2>2, <3>1 DEF Alone
  <2> QED
      BY <2>1, <2>2 DEF Engaged, Amending
<1>6. b.orders[c].status \notin {"PendingNew", "PendingCancel", "PendingReplace"} \cup ClosedStatus
    BY <1>3 DEF OpenStatus, ClosedStatus
<1>7. ASSUME v.at = "Live" PROVE Followed(b, v, Tail(q), c)
  <2>1. PICK f : /\ History(f, q, v, c) /\ Promised(a, f, q, c)
                 /\ Mine(a, v, c, f[0]) \/ Awaited(a, q, c, f[0])
      BY <1>7 DEF OnTrack, Followed
  <2>2. PICK g : History(g, Tail(q), v, c) /\ Promised(a, g, Tail(q), c) /\ g[0] = f[1]
      BY <2>1, HeadOf
  <2>3. f[1] \in Lots /\ f[1] = o.amendQty
      BY <1>2, <1>3, <2>1, HeadOf
  <2>4. Mine(a, v, c, f[0])
      BY <2>1, NotAwaited
  <2>5. b.orders[c].leaves = g[0]
      BY <1>3, <2>2, <2>3 DEF Lots
  <2>6. Mine(b, v, c, g[0])
      BY <1>3, <1>6, <2>4, <2>5 DEF Mine
  <2>7. Promised(b, g, Tail(q), c)
      BY <1>6 DEF Promised
  <2> QED
      BY <2>2, <2>6, <2>7 DEF Followed
<1>8. OnTrack(b, v, Tail(q), r, c)
    BY <1>5, <1>6, <1>7 DEF OnTrack, Heard
<1> QED
    BY <1>1, <1>3, <1>4, <1>8

\* A new order is told, and confirmed if it is not.
LEMMA NewTail ==
    ASSUME NEW q \in Seq(Event), q # <<>>, NEW c \in ClIDs, q[1].c = c, q[1].ev = "new",
           NEW a, Linked(a), c \in a.ordersClID, NEW v, v.at = "Live" => v.id = IdOf[c],
           NEW r, Heard(r, c), Alone(q, r, c), OnTrack(a, v, q, r, c)
    PROVE  /\ Alone(Tail(q), r, c)
           /\ OnTrack(ConfirmNewOrder(a, c, IdOf[c], 0), v, Tail(q), r, c)
<1>1. PICK b : b = ConfirmNewOrder(a, c, IdOf[c], 0)
    OBVIOUS
<1>2. OnTrack(b, v, q, r, c) /\ c \in b.ordersClID /\ b.orders[c].status # "PendingNew"
    BY <1>1, ConfirmTrack
<1>3. Alone(Tail(q), r, c) /\ (Amending(Tail(q), c) => Amending(q, c))
    BY AloneTail
<1>4. Engaged(Tail(q), r, c) => Engaged(q, r, c)
    BY <1>3 DEF Engaged
<1>5. ASSUME v.at = "Live" PROVE Followed(b, v, Tail(q), c)
  <2>1. PICK f : /\ History(f, q, v, c) /\ Promised(b, f, q, c)
                 /\ Mine(b, v, c, f[0]) \/ Awaited(b, q, c, f[0])
      BY <1>2, <1>5 DEF OnTrack, Followed
  <2>2. PICK g : History(g, Tail(q), v, c) /\ Promised(b, g, Tail(q), c) /\ g[0] = f[1]
      BY <2>1, HeadOf
  <2>3. f[1] = f[0]
      BY <2>1, HeadOf
  <2>4. Mine(b, v, c, f[0])
      BY <1>2, <2>1 DEF Awaited
  <2> QED
      BY <2>2, <2>3, <2>4 DEF Followed
<1>6. OnTrack(b, v, Tail(q), r, c)
    BY <1>2, <1>4, <1>5 DEF OnTrack
<1> QED
    BY <1>1, <1>3, <1>6

\* A new order is told that the account does not have: it is entered.
LEMMA EnteredTail ==
    ASSUME NEW q \in Seq(Event), q # <<>>, NEW c \in ClIDs, q[1].c = c, q[1].ev = "new",
           q[1].qty \in Lots, NEW a, Linked(a), c \notin a.ordersClID,
           NEW v, v.at = "Live" => v.id = IdOf[c],
           NEW r, Heard(r, c), ~Engaged(q, r, c), Alone(q, r, c), OnTrack(a, v, q, r, c)
    PROVE  LET b == ConfirmNewOrder(NewOrder(a, c, "Buy", "Limit", 1, q[1].qty), c, IdOf[c], 0)
           IN  Only(a, b, c) /\ Alone(Tail(q), r, c) /\ OnTrack(b, v, Tail(q), r, c)
<1>1. PICK qty \in Lots : qty = q[1].qty
    OBVIOUS
<1>2. /\ a \in AccountType /\ IdOf[c] \in ExIDs /\ 0 \in 0..MaxLots
      /\ "Buy" \in Sides /\ "Limit" \in Types /\ 1 \in Prices
      /\ a.ordersID[IdOf[c]] \in {NoID, c} /\ NoID \notin ClIDs
    BY IdsApart, ItsOwnID, Quantities, AccountConstants DEF Linked, AccountInv, Prices
<1>3. PICK n \in AccountType : n = NewOrder(a, c, "Buy", "Limit", 1, qty)
    BY <1>2, NewOrderShape
<1>4. /\ n.ordersClID = a.ordersClID \cup {c} /\ n.ordersID = a.ordersID
      /\ n.orders[c].status = "PendingNew" /\ n.orders[c].leaves = qty
      /\ \A d \in ClIDs \ {c} : n.orders[d] = a.orders[d]
    BY <1>2, <1>3, NewOrderShape
<1>5. PICK b : b = ConfirmNewOrder(n, c, IdOf[c], 0)
    OBVIOUS
<1>6. Confirms(n, b, c, IdOf[c], 0)
    BY <1>2, <1>4, <1>5, ConfirmNewOrderShape
<1>7. /\ b.ordersClID = a.ordersClID \cup {c}
      /\ \A x \in ExIDs : b.ordersID[x] = IF x = IdOf[c] THEN c ELSE a.ordersID[x]
      /\ b.orders[c].status = "New" /\ b.orders[c].leaves = qty
      /\ \A d \in ClIDs \ {c} : b.orders[d] = a.orders[d]
    BY <1>2, <1>4, <1>6 DEF Confirms, AccountType
<1>8. Only(a, b, c)
  <2>1. ASSUME NEW d \in ClIDs \ {c} PROVE SameOrder(a, b, d)
    <3>1. \A x \in ExIDs : b.ordersID[x] = d <=> a.ordersID[x] = d
        BY <1>2, <1>7
    <3> QED
        BY <1>7, <3>1 DEF SameOrder
  <2> QED
      BY <2>1 DEF Only
<1>9. Alone(Tail(q), r, c) /\ (Amending(Tail(q), c) => Amending(q, c))
    BY AloneTail
<1>10. ~Engaged(Tail(q), r, c)
    BY <1>9 DEF Engaged
<1>11. ASSUME v.at = "Live" PROVE Followed(b, v, Tail(q), c)
  <2>1. PICK f : /\ History(f, q, v, c) /\ Promised(a, f, q, c)
                 /\ Mine(a, v, c, f[0]) \/ Awaited(a, q, c, f[0])
      BY <1>11 DEF OnTrack, Followed
  <2>2. PICK g : History(g, Tail(q), v, c) /\ Promised(a, g, Tail(q), c) /\ g[0] = f[1]
      BY <2>1, HeadOf
  <2>3. f[1] = qty
      BY <1>1, <2>1, HeadOf
  <2>4. Mine(b, v, c, g[0])
      BY <1>2, <1>7, <1>11, <2>2, <2>3 DEF Mine, ClosedStatus
  <2>5. Promised(b, g, Tail(q), c)
      BY <1>7 DEF Promised
  <2> QED
      BY <2>2, <2>4, <2>5 DEF Followed
<1>12. OnTrack(b, v, Tail(q), r, c)
    BY <1>7, <1>10, <1>11 DEF OnTrack, Heard
<1> QED
    BY <1>1, <1>3, <1>5, <1>8, <1>9, <1>12

----------------------------------------------------------------------------
(***************************************************************************)
(* The steps of the users and of the actor, and the faults.                *)
(***************************************************************************)

\* One request changes.
LEMMA OneCallPlan ==
    ASSUME StateTypes, NEW k \in Kinds, NEW n, call' = [call EXCEPT ![k] = n],
           n.ans \notin {"ok", "filled", "expired"},
           k \in Replacements => /\ n.sent => n.ans = "waiting"
                                 /\ n.ans # "timeout"
                                 /\ n.sent \/ n.ans # "none" => rules.replace = "stream",
           NEW e, NEW q, Planned(e, q, call), Confirmable(q, call)
    PROVE  Planned(e, q, call') /\ Confirmable(q, call')
<1>1. call'[k] = n /\ \A j \in Kinds \ {k} : call'[j] = call[j]
    BY DEF StateTypes
<1>2. Replacements \subseteq Kinds /\ {"new", "bulk"} \subseteq Kinds
    BY DEF Replacements, Kinds
<1>3. ASSUME NEW j \in {"new", "bulk"}, call'[j].ans \in {"ok", "filled", "expired"}
      PROVE  \A c \in call'[j].cs : e[c].at # "None"
  <2>1. call'[j] = call[j]
      BY <1>1, <1>2, <1>3
  <2> QED
      BY <1>3, <2>1 DEF Planned
<1>4. ASSUME NEW j \in Replacements
      PROVE  /\ call'[j].sent => call'[j].ans = "waiting"
             /\ call'[j].ans # "timeout"
             /\ call'[j].sent \/ call'[j].ans # "none" => rules.replace = "stream"
  <2>1. CASE j = k
      BY <1>1, <2>1
  <2>2. CASE j # k
    <3>1. call'[j] = call[j]
        BY <1>1, <1>2, <2>2
    <3> QED
        BY <3>1 DEF Planned, Confirmable
  <2> QED
      BY <2>1, <2>2
<1> QED
    BY <1>3, <1>4 DEF Planned, Confirmable

\* One request asks no more of an order.
LEMMA OneCallEases ==
    ASSUME StateTypes, NEW k \in Kinds, NEW n, call' = [call EXCEPT ![k] = n], NEW c,
           k \in {"new", "bulk"} /\ n.sent /\ c \in n.cs =>
               call[k].sent /\ c \in call[k].cs /\ call[k].qty = n.qty,
           n.ans # "none" /\ c \in n.cs => call[k].ans # "none" /\ c \in call[k].cs,
           k \in Replacements => n.ans = "none" \/ c \notin n.cs
    PROVE  Eases(call, call', c)
<1>1. call'[k] = n /\ \A j \in Kinds \ {k} : call'[j] = call[j]
    BY DEF StateTypes
<1>2. ASSUME NEW j \in Kinds
      PROVE  /\ j \in {"new", "bulk"} /\ call'[j].sent /\ c \in call'[j].cs =>
                   call[j].sent /\ c \in call[j].cs /\ call[j].qty = call'[j].qty
             /\ call'[j].ans # "none" /\ c \in call'[j].cs =>
                   call[j].ans # "none" /\ c \in call[j].cs
             /\ j \in Replacements =>
                   /\ Claimed(call', j, c) => Claimed(call, j, c)
                   /\ call'[j].ans = "waiting" /\ c \in call'[j].cs =>
                         call[j].ans = "waiting" /\ c \in call[j].cs /\ call[j].qty = call'[j].qty
  <2>1. CASE j = k
      BY <1>1, <2>1 DEF Claimed
  <2>2. CASE j # k
      BY <1>1, <2>2 DEF Claimed
  <2> QED
      BY <2>1, <2>2
<1> QED
    BY <1>2 DEF Eases

\* An answer that is lost.
LEMMA LoseAnswerTrack ==
    ASSUME IInv, Tracking, NEW k \in Kinds, LoseAnswer(k)
    PROVE  Tracking'
<1> SUFFICES ASSUME Following' PROVE Tracking'
    BY DEF Tracking
<1>1. /\ StateTypes /\ call[k].ans = "waiting"
      /\ UNCHANGED <<rules, acct, phase, sweep, stream, exch, drift>>
      /\ spotless' = (spotless /\ k \notin {"replace", "bulkReplace"})
    BY DEF IInv, LoseAnswer
<1>2. PICK a \in {"timeout", "refused"} : call' = [call EXCEPT ![k].ans = a]
    BY DEF LoseAnswer
<1>3. PICK n : n = [call[k] EXCEPT !.ans = a]
    OBVIOUS
<1>4. call[k] \in CallType
    BY <1>1 DEF StateTypes
<1>5. /\ call' = [call EXCEPT ![k] = n] /\ n.ans = a
      /\ n.sent = call[k].sent /\ n.cs = call[k].cs /\ n.qty = call[k].qty
    BY <1>1, <1>2, <1>3, <1>4 DEF StateTypes, CallType
<1>6. /\ stream.up
      /\ Planned(exch, stream.q, call) /\ Confirmable(stream.q, call)
      /\ \A d \in ClIDs : /\ Alone(stream.q, call, d)
                          /\ OnTrack(acct, exch[d], stream.q, call, d)
    BY <1>1, TrackedBefore
<1>7. k \notin Replacements
    BY <1>1 DEF Replacements, Following
<1>8. Planned(exch, stream.q, call') /\ Confirmable(stream.q, call')
    BY <1>1, <1>5, <1>6, <1>7, OneCallPlan
<1>9. ASSUME NEW d \in ClIDs
      PROVE  Alone(stream.q, call', d) /\ OnTrack(acct, exch[d], stream.q, call', d)
  <2>1. Eases(call, call', d)
      BY <1>1, <1>5, <1>7, OneCallEases
  <2> QED
      BY <1>6, <2>1, EasedTrack
<1> QED
    BY <1>1, <1>6, <1>8, <1>9, TrackingStep

\* Every step of the venue, and the faults.
LEMMA VenueTrack ==
    ASSUME IInv, Tracking, Telling(rules),
           \/ \E k \in Kinds : Arrives(k) \/ LoseAnswer(k)
           \/ SweepArrives \/ SocketFails
           \/ \E c \in ClIDs, qty \in Lots : Trade(c, qty)
    PROVE  Tracking'
<1>1. ASSUME NEW k \in Kinds, Arrives(k) PROVE Tracking'
    BY <1>1, OrdersRestTrack, OrderFillsTrack, OrderExpiresTrack, CancelArrivesTrack,
       MassCancelArrivesTrack, ReplaceArrivesTrack, RefuseTrack DEF Arrives, Replacements
<1>2. ASSUME SocketFails PROVE Tracking'
    BY <1>2 DEF SocketFails, Tracking, Following
<1> QED
    BY <1>1, <1>2, LoseAnswerTrack, SweepArrivesTrack, TradeTrack

\* An order that works at the venue has an id.
LEMMA LiveIDs ==
    ASSUME IInv
    PROVE  \A d \in ClIDs : exch[d].at = "Live" => exch[d].id = IdOf[d] /\ exch[d].id \in ExIDs
<1>1. ASSUME NEW d \in ClIDs, exch[d].at = "Live"
      PROVE  exch[d].id = IdOf[d] /\ exch[d].id \in ExIDs
    BY <1>1, IdsApart DEF IInv, World, OrderTrue
<1> QED
    BY <1>1

\* What a request finds.
LEMMA RequestBefore ==
    ASSUME IInv, Tracking, NEW k \in Kinds, Request(k), Following', spotless' => spotless
    PROVE  /\ StateTypes /\ Linked(acct) /\ rules' = rules /\ stream' = stream /\ exch' = exch
           /\ ~call[k].sent /\ call[k].ans = "none" /\ call[k].cs = {}
           /\ Following /\ stream.up
           /\ Planned(exch, stream.q, call) /\ Confirmable(stream.q, call)
           /\ \A c \in ClIDs : /\ Alone(stream.q, call, c)
                               /\ OnTrack(acct, exch[c], stream.q, call, c)
           /\ \A i \in 1..Len(stream.q) : Told(exch, stream.q[i])
<1>1. /\ StateTypes /\ Linked(acct) /\ call[k] = NoCall /\ phase = "running"
      /\ UNCHANGED <<rules, phase, sweep, stream, exch, drift, faults>>
    BY DEF IInv, Request
<1>2. ~call[k].sent /\ call[k].ans = "none" /\ call[k].cs = {}
    BY <1>1 DEF NoCall
<1> QED
    BY <1>1, <1>2, TrackedBefore

\* The requests that are no replacements do not engage an order.
LEMMA SameReplacements ==
    ASSUME NEW r, NEW s, \A j \in Replacements : s[j] = r[j], NEW q, NEW c
    PROVE  /\ Engaged(q, s, c) <=> Engaged(q, r, c)
           /\ Alone(q, r, c) => Alone(q, s, c)
<1>1. "replace" \in Replacements /\ "bulkReplace" \in Replacements
    BY DEF Replacements
<1>2. \A j \in Replacements : Claimed(s, j, c) <=> Claimed(r, j, c)
    BY DEF Claimed
<1> QED
    BY <1>1, <1>2 DEF Engaged, Alone

\* New orders have new ids.
LEMMA UnusedTrack ==
    ASSUME IInv, NEW k \in {"new", "bulk"}, NEW cs, cs \subseteq Unused, NEW qty \in Lots, NEW n,
           call' = [call EXCEPT ![k] = n], n.cs = cs, n.qty = qty,
           \A i \in 1..Len(stream.q) : Told(exch, stream.q[i]),
           \A c \in ClIDs : /\ Alone(stream.q, call, c)
                            /\ OnTrack(acct, exch[c], stream.q, call, c)
    PROVE  /\ \A d \in ClIDs : Alone(stream.q, call', d)
           /\ \A d \in ClIDs \ cs : OnTrack(acct, exch[d], stream.q, call', d)
           /\ \A c \in cs : \A a \in AccountType :
                 OnTrack(NewOrder(a, c, "Buy", "Limit", 1, qty), exch[c], stream.q, call', c)
<1>1. /\ StateTypes /\ k \in Kinds /\ k \notin Replacements
      /\ Replacements \subseteq Kinds /\ {"new", "bulk"} \subseteq Kinds
    BY DEF IInv, Kinds, Replacements
<1>2. call'[k] = n /\ \A j \in Kinds \ {k} : call'[j] = call[j]
    BY <1>1 DEF StateTypes
<1>3. \A j \in Replacements : call'[j] = call[j]
    BY <1>1, <1>2
<1>4. \A d \in ClIDs : Alone(stream.q, call', d)
    BY <1>3, SameReplacements
<1>5. ASSUME NEW d \in ClIDs \ cs PROVE OnTrack(acct, exch[d], stream.q, call', d)
  <2>1. Eases(call, call', d)
      BY <1>1, OneCallEases
  <2> QED
      BY <2>1, EasedTrack
<1>6. ASSUME NEW c \in cs, NEW a \in AccountType
      PROVE  OnTrack(NewOrder(a, c, "Buy", "Limit", 1, qty), exch[c], stream.q, call', c)
  <2>1. c \in ClIDs /\ exch[c].at = "None" /\ \A j \in Kinds : c \notin call[j].cs
      BY DEF Unused
  <2>2. ~Amending(stream.q, c)
      BY <2>1 DEF Amending, Told
  <2>3. ~Engaged(stream.q, call, c)
      BY <1>1, <2>1, <2>2 DEF Engaged, Claimed
  <2>4. ~Engaged(stream.q, call', c)
      BY <1>3, <2>3, SameReplacements
  <2>5. \A j \in {"new", "bulk"} : c \in call'[j].cs => call'[j].qty = qty
      BY <1>1, <1>2, <2>1
  <2>6. \A j \in Kinds \ {"new", "bulk"} : c \notin call'[j].cs
      BY <1>1, <1>2, <2>1
  <2> QED
      BY <2>1, <2>4, <2>5, <2>6, NewOrderTrack
<1> QED
    BY <1>4, <1>5, <1>6

\* One new order.
LEMMA OnNewOrderSingleTrack ==
    ASSUME IInv, Tracking, NEW qty \in Lots, OnNewOrderSingleRequest(qty)
    PROVE  Tracking'
<1> SUFFICES ASSUME Following' PROVE Tracking'
    BY DEF Tracking
<1> PICK c : c = CHOOSE d \in Unused : TRUE
    OBVIOUS
<1> PICK b : b = NewOrder(acct, c, "Buy", "Limit", 1, qty)
    OBVIOUS
<1>1. /\ Request("new") /\ "new" \in Kinds /\ c \in Unused /\ c \in ClIDs
      /\ Ask("new", {c}, qty, b, rules.twice) /\ spotless' = spotless
    BY DEF OnNewOrderSingleRequest, Kinds, Unused
<1>2. /\ StateTypes /\ Linked(acct) /\ rules' = rules /\ stream' = stream /\ exch' = exch
      /\ stream.up
      /\ Planned(exch, stream.q, call) /\ Confirmable(stream.q, call)
      /\ \A d \in ClIDs : /\ Alone(stream.q, call, d)
                          /\ OnTrack(acct, exch[d], stream.q, call, d)
      /\ \A i \in 1..Len(stream.q) : Told(exch, stream.q[i])
    BY <1>1, RequestBefore
<1>9. PICK n : n = [sent |-> TRUE, cs |-> {c}, qty |-> qty, ans |-> "waiting",
                    owed |-> ~rules.twice]
    OBVIOUS
<1>3. acct' = b /\ call' = [call EXCEPT !["new"] = n]
    BY <1>1, <1>9 DEF Ask
<1>4. n.sent /\ n.cs = {c} /\ n.qty = qty /\ n.ans = "waiting"
    BY <1>9
<1>5. acct \in AccountType /\ {c} \subseteq Unused
    BY <1>1, <1>2 DEF Linked, AccountInv
<1>6. /\ \A d \in ClIDs : Alone(stream.q, call', d)
      /\ \A d \in ClIDs \ {c} : OnTrack(acct, exch[d], stream.q, call', d)
      /\ OnTrack(b, exch[c], stream.q, call', c)
  <2>1. PICK cs : cs = {c}
      OBVIOUS
  <2>2. cs \subseteq Unused /\ c \in cs /\ n.cs = cs
      BY <1>4, <1>5, <2>1
  <2>3. /\ \A d \in ClIDs : Alone(stream.q, call', d)
        /\ \A d \in ClIDs \ cs : OnTrack(acct, exch[d], stream.q, call', d)
        /\ \A d \in cs : \A a \in AccountType :
              OnTrack(NewOrder(a, d, "Buy", "Limit", 1, qty), exch[d], stream.q, call', d)
      BY <1>2, <1>3, <1>4, <2>2, UnusedTrack
  <2> QED
      BY <1>5, <2>1, <2>2, <2>3
<1>7. \A d \in ClIDs : OnTrack(b, exch[d], stream.q, call', d)
  <2>1. Only(acct, b, c)
      BY <1>1, <1>5, NewOrderOnly
  <2>2. \A d \in ClIDs : exch[d].at = "Live" => exch[d].id \in ExIDs
      BY LiveIDs
  <2>3. ASSUME NEW d \in ClIDs PROVE OnTrack(b, exch[d], stream.q, call', d)
    <3>1. CASE d = c
        BY <1>6, <3>1
    <3>2. CASE d # c
      <4>1. SameOrder(acct, b, d) /\ OnTrack(acct, exch[d], stream.q, call', d)
          BY <1>6, <2>1, <3>2 DEF Only
      <4> QED
          BY <2>2, <4>1, SameTrack
    <3> QED
        BY <3>1, <3>2
  <2> QED
      BY <2>3
<1>8. Planned(exch, stream.q, call') /\ Confirmable(stream.q, call')
    BY <1>1, <1>2, <1>3, <1>4, OneCallPlan DEF Replacements
<1> QED
    BY <1>2, <1>3, <1>6, <1>7, <1>8, TrackingStep

\* Several new orders.
LEMMA OnNewOrderBulkTrack ==
    ASSUME IInv, Tracking, NEW cs \in SUBSET ClIDs, OnNewOrderBulkRequest(cs, 1)
    PROVE  Tracking'
<1> SUFFICES ASSUME Following' PROVE Tracking'
    BY DEF Tracking
<1> PICK a : a = acct
    OBVIOUS
<1> PICK m : m = [op |-> "new", with |-> 1]
    OBVIOUS
<1>1. Request("bulk") /\ "bulk" \in Kinds /\ cs \subseteq Unused /\ spotless' = spotless
    BY DEF OnNewOrderBulkRequest, Kinds
<1>2. FoldSet(LAMBDA c, d : NewOrder(d, c, "Buy", "Limit", 1, 1), a, cs) = AllOf(m, a, cs)
    BY NewOrdersAre
<1>3. PICK b : b = AllOf(m, a, cs)
    OBVIOUS
<1>4. Ask("bulk", cs, 1, b, TRUE)
    BY <1>2, <1>3 DEF OnNewOrderBulkRequest
<1>5. /\ StateTypes /\ Linked(a) /\ rules' = rules /\ stream' = stream /\ exch' = exch
      /\ stream.up
      /\ Planned(exch, stream.q, call) /\ Confirmable(stream.q, call)
      /\ \A d \in ClIDs : /\ Alone(stream.q, call, d)
                          /\ OnTrack(acct, exch[d], stream.q, call, d)
      /\ \A i \in 1..Len(stream.q) : Told(exch, stream.q[i])
    BY <1>1, RequestBefore
<1> PICK n : n = [sent |-> TRUE, cs |-> cs, qty |-> 1, ans |-> "waiting", owed |-> ~TRUE]
    OBVIOUS
<1>6. acct' = b /\ call' = [call EXCEPT !["bulk"] = n]
    BY <1>4 DEF Ask
<1>7. n.sent /\ n.cs = cs /\ n.qty = 1 /\ n.ans = "waiting"
    OBVIOUS
<1>8. /\ \A d \in ClIDs : Alone(stream.q, call', d)
      /\ \A d \in ClIDs \ cs : OnTrack(a, exch[d], stream.q, call', d)
      /\ \A c \in cs : \A x \in AccountType :
            OnTrack(NewOrder(x, c, "Buy", "Limit", 1, 1), exch[c], stream.q, call', c)
    BY <1>1, <1>5, <1>6, <1>7, UnusedTrack, Quantities
<1>9. \A d \in ClIDs : OnTrack(b, exch[d], stream.q, call', d)
  <2>1. \A c \in cs : Fits(m, a, c)
      BY <1>1, Quantities DEF Fits, Unused
  <2>2. \A c \in cs : \A x : Linked(x) =>
            OnTrack(Method(m, x, c), exch[c], stream.q, call', c)
      BY <1>8 DEF Method, Linked, AccountInv
  <2> QED
      BY <1>3, <1>5, <1>8, <2>1, <2>2, LiveIDs, FoldTrack
<1>10. Planned(exch, stream.q, call') /\ Confirmable(stream.q, call')
    BY <1>1, <1>5, <1>6, <1>7, OneCallPlan DEF Replacements
<1> QED
    BY <1>5, <1>6, <1>8, <1>9, <1>10, TrackingStep

\* A cancel is asked for an order that is confirmed.
LEMMA ToldToCancel ==
    ASSUME NEW r, NEW s, NEW k \in {"cancel", "mass"}, \A j \in Kinds \ {k} : s[j] = r[j],
           NEW a, NEW o, NEW q, NEW c, OnTrack(a, o, q, r, c), a.orders[c].status # "PendingNew"
    PROVE  OnTrack(a, o, q, s, c)
<1>1. /\ \A j \in Replacements : s[j] = r[j]
      /\ \A j \in {"new", "bulk"} : s[j] = r[j]
    BY DEF Replacements, Kinds
<1>2. Engaged(q, s, c) <=> Engaged(q, r, c)
    BY <1>1, SameReplacements
<1> QED
    BY <1>1, <1>2 DEF OnTrack

\* The order a cancel names.
LEMMA CancelNames ==
    ASSUME NEW a, a = acct, Linked(a), NEW c \in ClIDs, ~CancelOrderRejected(a, CancelKey(c))
    PROVE  Find(a, CancelKey(c)) = c
<1>1. PICK k : k = CancelKey(c)
    OBVIOUS
<1>2. Known(a, k) /\ NoID \notin ClIDs /\ NoID \notin ExIDs
    BY <1>1, AccountConstants DEF CancelOrderRejected
<1>3. k \in {c, NoID, IdOf[c]}
  <2>1. CASE rules.byID /\ Known(a, c)
    <3>1. k = a.orders[c].id
        BY <1>1, <2>1 DEF CancelKey
    <3> QED
        BY <3>1 DEF Linked, Agrees
  <2>2. CASE ~(rules.byID /\ Known(a, c))
      BY <1>1, <2>2 DEF CancelKey
  <2> QED
      BY <2>1, <2>2
<1>4. k # NoID
  <2>1. a.ordersClID \subseteq ClIDs
      BY DEF Linked, AccountInv, AccountType
  <2>2. Find(a, NoID) = NoID
      BY <1>2, <2>1 DEF Find
  <2> QED
      BY <1>2, <2>2 DEF Known
<1> QED
    BY <1>1, <1>2, <1>3, <1>4, FindsOwn

\* A cancel.
LEMMA OnOrderCancelTrack ==
    ASSUME IInv, Tracking, NEW c \in ClIDs, OnOrderCancelRequest(c)
    PROVE  Tracking'
<1> SUFFICES ASSUME Following' PROVE Tracking'
    BY DEF Tracking
<1> PICK a : a = acct
    OBVIOUS
<1> PICK k : k = CancelKey(c)
    OBVIOUS
<1>1. /\ Request("cancel") /\ "cancel" \in Kinds
      /\ spotless' = (spotless /\ acct.orders[c].status # "PendingNew")
    BY DEF OnOrderCancelRequest, Kinds
<1>2. spotless' => spotless
    BY <1>1
<1>3. /\ StateTypes /\ Linked(a) /\ rules' = rules /\ stream' = stream /\ exch' = exch
      /\ stream.up
      /\ Planned(exch, stream.q, call) /\ Confirmable(stream.q, call)
      /\ \A d \in ClIDs : /\ Alone(stream.q, call, d)
                          /\ OnTrack(a, exch[d], stream.q, call, d)
    BY <1>1, <1>2, RequestBefore
<1>4. a.orders[c].status # "PendingNew"
    BY <1>1 DEF Following
<1>5. CASE CancelOrderRejected(a, k)
  <2>1. Refused("cancel", c, 0)
      BY <1>5 DEF OnOrderCancelRequest
  <2>2. acct' = a
      BY <2>1 DEF Refused
  <2>3. CASE rules.forward
    <3>1. PICK n : n = [NoCall EXCEPT !.sent = TRUE, !.cs = {c}, !.qty = 0]
        OBVIOUS
    <3>2. call' = [call EXCEPT !["cancel"] = n]
        BY <2>1, <2>3, <3>1 DEF Refused
    <3>3. n.ans = "none"
        BY <3>1 DEF NoCall
    <3>4. Planned(exch, stream.q, call') /\ Confirmable(stream.q, call')
        BY <1>1, <1>3, <3>2, <3>3, OneCallPlan DEF Replacements
    <3>5. ASSUME NEW d \in ClIDs
          PROVE  Alone(stream.q, call', d) /\ OnTrack(a, exch[d], stream.q, call', d)
      <4>1. Eases(call, call', d)
          BY <1>1, <1>3, <3>2, <3>3, OneCallEases
      <4> QED
          BY <1>3, <4>1, EasedTrack
    <3> QED
        BY <1>3, <2>2, <3>4, <3>5, TrackingStep
  <2>4. CASE ~rules.forward
    <3>1. call' = call
        BY <2>1, <2>4 DEF Refused
    <3> QED
        BY <1>3, <2>2, <3>1, TrackingStep
  <2> QED
      BY <2>3, <2>4
<1>6. CASE ~CancelOrderRejected(a, k)
  <2>1. Ask("cancel", {c}, 0, CancelOrder(a, k), rules.twice)
      BY <1>6 DEF OnOrderCancelRequest
  <2>2. PICK n : n = [sent |-> TRUE, cs |-> {c}, qty |-> 0, ans |-> "waiting",
                      owed |-> ~rules.twice]
      OBVIOUS
  <2>3. PICK b : b = CancelOrder(a, k)
      OBVIOUS
  <2>4. acct' = b /\ call' = [call EXCEPT !["cancel"] = n]
      BY <2>1, <2>2, <2>3 DEF Ask
  <2>5. n.cs = {c} /\ n.ans = "waiting"
      BY <2>2
  <2>6. Find(a, k) = c /\ Known(a, k) /\ a.orders[c].status \in OpenStatus
    <3>1. Find(a, k) = c
        BY <1>3, <1>6, CancelNames
    <3> QED
        BY <1>4, <1>6, <3>1 DEF CancelOrderRejected, CancelableStatus, OpenStatus
  <2>7. a \in AccountType
      BY <1>3 DEF Linked, AccountInv
  <2>8. PICK p : p = Save(a.orders[c], "PendingCancel")
      OBVIOUS
  <2>9. p \in Order /\ p.status = "PendingCancel" /\ b = Put(a, c, p)
    <3>1. a.orders[c] \in Order
        BY <2>7 DEF AccountType
    <3> QED
        BY <2>3, <2>6, <2>8, <3>1, SaveShape DEF CancelOrder, OrderStatus, PendingStatus
  <2>10. Only(a, b, c) /\ b.orders[c] = p
      BY <2>7, <2>9, OnlyPut, PutShape
  <2>11. \A j \in Kinds \ {"cancel"} : call'[j] = call[j]
      BY <1>3, <2>4 DEF StateTypes
  <2>12. \A j \in Replacements : call'[j] = call[j]
      BY <2>11 DEF Replacements, Kinds
  <2>13. Planned(exch, stream.q, call') /\ Confirmable(stream.q, call')
      BY <1>1, <1>3, <2>4, <2>5, OneCallPlan DEF Replacements
  <2>14. ASSUME NEW d \in ClIDs
         PROVE  Alone(stream.q, call', d) /\ OnTrack(b, exch[d], stream.q, call', d)
    <3>1. Alone(stream.q, call', d) /\ (exch[d].at = "Live" => exch[d].id \in ExIDs)
        BY <1>3, <2>12, SameReplacements, LiveIDs
    <3>2. CASE d = c
      <4>1. OnTrack(b, exch[c], stream.q, call, c)
          BY <1>3, <2>3, <2>6, <3>1, <3>2, CancelOrderTrack
      <4>2. b.orders[c].status # "PendingNew"
          BY <2>9, <2>10
      <4> QED
          BY <2>11, <3>1, <3>2, <4>1, <4>2, ToldToCancel
    <3>3. CASE d # c
      <4>1. Eases(call, call', d)
          BY <1>1, <1>3, <2>4, <2>5, <3>3, OneCallEases DEF Replacements
      <4>2. OnTrack(a, exch[d], stream.q, call', d) /\ SameOrder(a, b, d)
          BY <1>3, <2>10, <3>3, <4>1, EasedTrack DEF Only
      <4> QED
          BY <3>1, <4>2, SameTrack
    <3> QED
        BY <3>2, <3>3
  <2> QED
      BY <1>3, <2>4, <2>13, <2>14, TrackingStep
<1> QED
    BY <1>5, <1>6

\* All orders that are open are to be canceled.
LEMMA OnOrderMassCancelTrack ==
    ASSUME IInv, Tracking, OnOrderMassCancelRequest
    PROVE  Tracking'
<1> SUFFICES ASSUME Following' PROVE Tracking'
    BY DEF Tracking
<1> PICK a : a = acct
    OBVIOUS
<1> PICK cs : cs = {c \in a.ordersClID : a.orders[c].status \in OpenStatus}
    OBVIOUS
<1>1. Request("mass") /\ "mass" \in Kinds /\ spotless' = spotless
    BY DEF OnOrderMassCancelRequest, Kinds
<1>2. PICK m : m = [op |-> "cancel", with |-> 0]
    OBVIOUS
<1>3. PICK b : b = AllOf(m, a, cs)
    OBVIOUS
<1>4. Ask("mass", cs, 0, b, TRUE)
  <2>1. FoldSet(LAMBDA c, d : CancelOrder(d, c), a, cs) = AllOf(m, a, cs)
      BY <1>2, CancelsAre
  <2> QED
      BY <1>3, <2>1 DEF OnOrderMassCancelRequest
<1>5. /\ StateTypes /\ Linked(a) /\ rules' = rules /\ stream' = stream /\ exch' = exch
      /\ stream.up
      /\ Planned(exch, stream.q, call) /\ Confirmable(stream.q, call)
      /\ \A d \in ClIDs : /\ Alone(stream.q, call, d)
                          /\ OnTrack(a, exch[d], stream.q, call, d)
    BY <1>1, RequestBefore
<1>6. PICK n : n = [sent |-> TRUE, cs |-> cs, qty |-> 0, ans |-> "waiting", owed |-> ~TRUE]
    OBVIOUS
<1>7. acct' = b /\ call' = [call EXCEPT !["mass"] = n]
    BY <1>4, <1>6 DEF Ask
<1>8. n.cs = cs /\ n.ans = "waiting"
    BY <1>6
<1>9. cs \in SUBSET ClIDs /\ \A c \in cs : c \in a.ordersClID /\ a.orders[c].status \in OpenStatus
    BY <1>5 DEF Linked, AccountInv, AccountType
<1>10. \A j \in Kinds \ {"mass"} : call'[j] = call[j]
    BY <1>5, <1>7 DEF StateTypes
<1>11. \A d \in ClIDs : Alone(stream.q, call', d)
  <2>1. \A j \in Replacements : call'[j] = call[j]
      BY <1>10 DEF Replacements, Kinds
  <2> QED
      BY <1>5, <2>1, SameReplacements
<1>12. Planned(exch, stream.q, call') /\ Confirmable(stream.q, call')
    BY <1>1, <1>5, <1>7, <1>8, OneCallPlan DEF Replacements
<1>13. ASSUME NEW d \in ClIDs \ cs PROVE OnTrack(a, exch[d], stream.q, call', d)
  <2>1. Eases(call, call', d)
      BY <1>1, <1>5, <1>7, <1>8, OneCallEases DEF Replacements
  <2> QED
      BY <1>5, <2>1, EasedTrack
<1>14. ASSUME NEW c \in cs, NEW x, Linked(x), SameOrder(a, x, c),
              OnTrack(x, exch[c], stream.q, call, c)
       PROVE  OnTrack(Method(m, x, c), exch[c], stream.q, call', c)
  <2>1. /\ c \in ClIDs /\ Known(x, c) /\ Find(x, c) = c /\ x.orders[c].status \in OpenStatus
        /\ exch[c].at = "Live" => exch[c].id \in ExIDs
      BY <1>9, <1>14, FindsOwn, LiveIDs DEF SameOrder
  <2>2. PICK y : y = CancelOrder(x, c)
      OBVIOUS
  <2>3. OnTrack(y, exch[c], stream.q, call, c)
      BY <1>14, <2>1, <2>2, CancelOrderTrack
  <2>4. y.orders[c].status # "PendingNew"
    <3>1. x \in AccountType /\ x.orders[c] \in Order
        BY <1>14, <2>1 DEF Linked, AccountInv, AccountType
    <3>2. PICK p : p = Save(x.orders[c], "PendingCancel")
        OBVIOUS
    <3>3. p \in Order /\ p.status = "PendingCancel" /\ y = Put(x, c, p)
        BY <2>1, <2>2, <3>1, <3>2, SaveShape DEF CancelOrder, OrderStatus, PendingStatus
    <3> QED
        BY <2>1, <3>1, <3>3, PutShape
  <2>5. OnTrack(y, exch[c], stream.q, call', c)
      BY <1>10, <2>3, <2>4, ToldToCancel
  <2> QED
      BY <1>2, <2>2, <2>5 DEF Method
<1>15. \A d \in ClIDs : OnTrack(b, exch[d], stream.q, call', d)
  <2>1. \A c \in cs : Fits(m, a, c)
      BY <1>2, <1>9 DEF Fits, OpenStatus, CancelableStatus
  <2> QED
      BY <1>3, <1>5, <1>9, <1>13, <1>14, <2>1, LiveIDs, FoldTrack
<1> QED
    BY <1>5, <1>7, <1>11, <1>12, <1>15, TrackingStep

\* A replacement is asked for an order for which none is on its way.
LEMMA FirstReplacement ==
    ASSUME NEW r, NEW s, NEW k \in Replacements, \A j \in Kinds \ {k} : s[j] = r[j],
           NEW q, NEW c, ~Engaged(q, r, c)
    PROVE  Alone(q, s, c)
<1>1. \A j \in Replacements : j \in Kinds /\ ~Claimed(r, j, c)
    BY DEF Engaged, Replacements, Kinds
<1>2. \A j \in Replacements \ {k} : ~Claimed(s, j, c)
    BY <1>1 DEF Claimed
<1>3. "replace" \in Replacements /\ "bulkReplace" \in Replacements
    BY DEF Replacements
<1>4. ~Amending(q, c)
    BY DEF Engaged
<1> QED
    BY <1>2, <1>3, <1>4 DEF Alone, Amending

\* An order that can be replaced is not engaged.
LEMMA Replaceable ==
    ASSUME NEW a, Linked(a), NEW c \in ClIDs, ~ReplaceOrderRejected(a, c), NEW o, NEW q, NEW r,
           OnTrack(a, o, q, r, c)
    PROVE  /\ c \in a.ordersClID /\ Find(a, c) = c /\ a.orders[c].status \in OpenStatus
           /\ ~Engaged(q, r, c)
<1>1. c \in a.ordersClID /\ Find(a, c) = c /\ a.orders[c].status \in OpenStatus
    BY FindsOwn DEF ReplaceOrderRejected
<1> QED
    BY <1>1 DEF OnTrack, Ready

\* A replacement.
LEMMA OnOrderReplaceTrack ==
    ASSUME IInv, Tracking, Telling(rules), NEW c \in ClIDs, NEW qty \in Lots,
           OnOrderReplaceRequest(c, qty)
    PROVE  Tracking'
<1> SUFFICES ASSUME Following' PROVE Tracking'
    BY DEF Tracking
<1> PICK a : a = acct
    OBVIOUS
<1>1. /\ Request("replace") /\ "replace" \in Kinds /\ "replace" \in Replacements
      /\ rules.replace # "none" /\ spotless' = (spotless /\ rules.replace # "answer")
    BY DEF OnOrderReplaceRequest, Kinds, Replacements
<1>2. spotless' => spotless
    BY <1>1
<1>3. /\ StateTypes /\ Linked(a) /\ rules' = rules /\ stream' = stream /\ exch' = exch
      /\ Following /\ stream.up
      /\ Planned(exch, stream.q, call) /\ Confirmable(stream.q, call)
      /\ \A d \in ClIDs : /\ Alone(stream.q, call, d)
                          /\ OnTrack(a, exch[d], stream.q, call, d)
    BY <1>1, <1>2, RequestBefore
<1>4. rules.replace = "stream" /\ ~rules.forward
  <2>1. rules.replace = "stream"
      BY <1>1, <1>3, Flags DEF Following, Rules
  <2> QED
      BY <1>3, <2>1 DEF Telling, Following, Carries
<1>5. CASE ReplaceOrderRejected(a, c)
  <2>1. Refused("replace", c, qty)
      BY <1>5 DEF OnOrderReplaceRequest
  <2>2. acct' = a /\ call' = call
      BY <1>4, <2>1 DEF Refused
  <2> QED
      BY <1>3, <2>2, TrackingStep
<1>6. CASE ~ReplaceOrderRejected(a, c)
  <2>1. PICK b : b = ReplaceOrder(a, c, NoPrice, qty)
      OBVIOUS
  <2>2. Ask("replace", {c}, qty, b, rules.twice)
      BY <1>6, <2>1 DEF OnOrderReplaceRequest
  <2>3. PICK n : n = [sent |-> TRUE, cs |-> {c}, qty |-> qty, ans |-> "waiting",
                      owed |-> ~rules.twice]
      OBVIOUS
  <2>4. acct' = b /\ call' = [call EXCEPT !["replace"] = n]
      BY <2>2, <2>3 DEF Ask
  <2>5. n.cs = {c} /\ n.ans = "waiting" /\ n.qty = qty
      BY <2>3
  <2>6. /\ c \in a.ordersClID /\ Find(a, c) = c /\ a.orders[c].status \in OpenStatus
        /\ ~Engaged(stream.q, call, c)
      BY <1>3, <1>6, Replaceable
  <2>7. call'["replace"] = n /\ \A j \in Kinds \ {"replace"} : call'[j] = call[j]
      BY <1>1, <1>3, <2>4 DEF StateTypes
  <2>8. Only(a, b, c)
    <3>1. PICK m : m = [op |-> "replace", with |-> qty]
        OBVIOUS
    <3>2. Fits(m, a, c) /\ Method(m, a, c) = b
        BY <2>1, <2>6, <3>1 DEF Fits, Method
    <3> QED
        BY <1>3, <3>2, MethodLinked
  <2>9. Planned(exch, stream.q, call') /\ Confirmable(stream.q, call')
      BY <1>1, <1>3, <1>4, <2>4, <2>5, OneCallPlan
  <2>10. ASSUME NEW d \in ClIDs
         PROVE  Alone(stream.q, call', d) /\ OnTrack(b, exch[d], stream.q, call', d)
    <3>1. CASE d = c
      <4>1. Alone(stream.q, call', c)
          BY <1>1, <2>6, <2>7, FirstReplacement
      <4>2. OnTrack(b, exch[c], stream.q, call', c)
          BY <1>1, <1>3, <2>1, <2>5, <2>6, <2>7, ReplaceOrderTrack
      <4> QED
          BY <3>1, <4>1, <4>2
    <3>2. CASE d # c
      <4>1. Eases(call, call', d)
          BY <1>1, <1>3, <2>4, <2>5, <3>2, OneCallEases DEF Replacements
      <4>2. /\ Alone(stream.q, call', d) /\ OnTrack(a, exch[d], stream.q, call', d)
            /\ SameOrder(a, b, d)
          BY <1>3, <2>8, <3>2, <4>1, EasedTrack DEF Only
      <4>3. exch[d].at = "Live" => exch[d].id \in ExIDs
          BY LiveIDs
      <4> QED
          BY <4>2, <4>3, SameTrack
    <3> QED
        BY <3>1, <3>2
  <2> QED
      BY <1>3, <2>4, <2>9, <2>10, TrackingStep
<1> QED
    BY <1>5, <1>6

\* Several replacements.
LEMMA OnBulkOrderReplaceTrack ==
    ASSUME IInv, Tracking, Telling(rules), NEW cs \in SUBSET ClIDs, NEW qty \in Lots,
           OnBulkOrderReplaceRequest(cs, qty)
    PROVE  Tracking'
<1> SUFFICES ASSUME Following' PROVE Tracking'
    BY DEF Tracking
<1> PICK a : a = acct
    OBVIOUS
<1>1. /\ Request("bulkReplace") /\ "bulkReplace" \in Kinds /\ "bulkReplace" \in Replacements
      /\ rules.bulkReplace /\ spotless' = spotless /\ \A c \in cs : ~ReplaceOrderRejected(a, c)
    BY DEF OnBulkOrderReplaceRequest, Kinds, Replacements
<1>2. /\ StateTypes /\ Linked(a) /\ rules' = rules /\ stream' = stream /\ exch' = exch
      /\ Following /\ stream.up
      /\ Planned(exch, stream.q, call) /\ Confirmable(stream.q, call)
      /\ \A d \in ClIDs : /\ Alone(stream.q, call, d)
                          /\ OnTrack(a, exch[d], stream.q, call, d)
    BY <1>1, RequestBefore
<1>3. rules.replace = "stream"
    BY <1>1, <1>2 DEF Telling, Following, Carries
<1>4. PICK m : m = [op |-> "replace", with |-> qty]
    OBVIOUS
<1>5. PICK b : b = AllOf(m, a, cs)
    OBVIOUS
<1>6. Ask("bulkReplace", cs, qty, b, TRUE)
  <2>1. FoldSet(LAMBDA c, d : ReplaceOrder(d, c, NoPrice, qty), a, cs) = AllOf(m, a, cs)
      BY <1>4, ReplacementsAre
  <2> QED
      BY <1>5, <2>1 DEF OnBulkOrderReplaceRequest
<1>7. PICK n : n = [sent |-> TRUE, cs |-> cs, qty |-> qty, ans |-> "waiting", owed |-> ~TRUE]
    OBVIOUS
<1>8. acct' = b /\ call' = [call EXCEPT !["bulkReplace"] = n]
    BY <1>6, <1>7 DEF Ask
<1>9. n.cs = cs /\ n.ans = "waiting" /\ n.qty = qty
    BY <1>7
<1>10. call'["bulkReplace"] = n /\ \A j \in Kinds \ {"bulkReplace"} : call'[j] = call[j]
    BY <1>1, <1>2, <1>8 DEF StateTypes
<1>11. \A c \in cs : /\ c \in a.ordersClID /\ a.orders[c].status \in OpenStatus
                     /\ ~Engaged(stream.q, call, c)
    BY <1>1, <1>2, Replaceable
<1>12. Planned(exch, stream.q, call') /\ Confirmable(stream.q, call')
    BY <1>1, <1>2, <1>3, <1>8, <1>9, OneCallPlan
<1>13. ASSUME NEW d \in ClIDs \ cs
       PROVE  Alone(stream.q, call', d) /\ OnTrack(a, exch[d], stream.q, call', d)
  <2>1. Eases(call, call', d)
      BY <1>1, <1>2, <1>8, <1>9, OneCallEases DEF Replacements
  <2> QED
      BY <1>2, <2>1, EasedTrack
<1>14. ASSUME NEW c \in cs PROVE Alone(stream.q, call', c)
    BY <1>1, <1>10, <1>11, FirstReplacement
<1>15. ASSUME NEW c \in cs, NEW x, Linked(x), SameOrder(a, x, c),
              OnTrack(x, exch[c], stream.q, call, c)
       PROVE  OnTrack(Method(m, x, c), exch[c], stream.q, call', c)
  <2>1. c \in ClIDs /\ c \in x.ordersClID /\ x.orders[c].status \in OpenStatus
      BY <1>11, <1>15 DEF SameOrder
  <2>2. OnTrack(ReplaceOrder(x, c, NoPrice, qty), exch[c], stream.q, call', c)
      BY <1>1, <1>9, <1>10, <1>15, <2>1, ReplaceOrderTrack
  <2> QED
      BY <1>4, <2>2 DEF Method
<1>16. \A d \in ClIDs : OnTrack(b, exch[d], stream.q, call', d)
  <2>1. \A c \in cs : Fits(m, a, c)
      BY <1>4, <1>11 DEF Fits
  <2> QED
      BY <1>2, <1>5, <1>13, <1>15, <2>1, LiveIDs, FoldTrack
<1> QED
    BY <1>2, <1>8, <1>12, <1>13, <1>14, <1>16, TrackingStep

\* Every request of a user.
LEMMA UsersTrack ==
    ASSUME IInv, Tracking, Telling(rules), Users
    PROVE  Tracking'
BY OnNewOrderSingleTrack, OnOrderReplaceTrack, OnNewOrderBulkTrack, OnBulkOrderReplaceTrack,
   OnOrderCancelTrack, OnOrderMassCancelTrack DEF Users

\* A request that is settled, and what is left of it.
LEMMA ResumeTrack ==
    ASSUME IInv, Tracking, NEW k \in Kinds, NEW answers \in SUBSET Final, Resume(k, answers),
           Following', phase' = "running" => phase = "running"
    PROVE  /\ Linked(acct) /\ call[k].ans \in answers
           /\ rules' = rules /\ stream' = stream /\ exch' = exch /\ stream.up
           /\ Planned(exch, stream.q, call) /\ Confirmable(stream.q, call)
           /\ Planned(exch, stream.q, call') /\ Confirmable(stream.q, call')
           /\ \A d \in ClIDs : /\ Alone(stream.q, call, d)
                               /\ OnTrack(acct, exch[d], stream.q, call, d)
                               /\ Alone(stream.q, call', d)
                               /\ OnTrack(acct, exch[d], stream.q, call', d)
                               /\ exch[d].at # "None" => Heard(call', d)
           /\ \A j \in Kinds \ {k} : call'[j] = call[j]
           /\ call'[k].ans = "none"
<1>1. /\ StateTypes /\ World /\ Linked(acct) /\ call[k].ans \in answers
      /\ UNCHANGED <<rules, sweep, stream, exch, drift, spotless, calls, faults>>
    BY DEF IInv, Resume
<1>2. PICK w : w = Forgotten(k)
    OBVIOUS
<1>3. PICK n : n = IF call[k].sent THEN [call[k] EXCEPT !.ans = "none", !.owed = w]
                                   ELSE [NoCall EXCEPT !.owed = w]
    OBVIOUS
<1>4. call[k] \in CallType /\ NoCall \in CallType /\ ~NoCall.sent /\ NoCall.ans = "none"
    BY <1>1, Quantities DEF StateTypes, NoCall, CallType
<1>5. /\ n.ans = "none"
      /\ n.sent => call[k].sent /\ n.cs = call[k].cs /\ n.qty = call[k].qty
  <2>1. CASE call[k].sent
      BY <1>3, <1>4, <2>1 DEF CallType
  <2>2. CASE ~call[k].sent
      BY <1>3, <1>4, <2>2 DEF CallType
  <2> QED
      BY <2>1, <2>2
<1>6. call' = [call EXCEPT ![k] = n]
    BY <1>2, <1>3 DEF Resume
<1>7. call'[k] = n /\ \A j \in Kinds \ {k} : call'[j] = call[j]
    BY <1>1, <1>6 DEF StateTypes
<1>8. /\ stream.up
      /\ Planned(exch, stream.q, call) /\ Confirmable(stream.q, call)
      /\ \A d \in ClIDs : /\ Alone(stream.q, call, d)
                          /\ OnTrack(acct, exch[d], stream.q, call, d)
    BY <1>1, TrackedBefore
<1>9. k \in Replacements => ~n.sent
  <2>1. call[k].ans # "waiting"
      BY <1>1 DEF Final
  <2> QED
      BY <1>5, <1>8, <2>1 DEF Planned
<1>10. Planned(exch, stream.q, call') /\ Confirmable(stream.q, call')
    BY <1>1, <1>5, <1>6, <1>8, <1>9, OneCallPlan
<1>11. ASSUME NEW d \in ClIDs
       PROVE  /\ Alone(stream.q, call', d) /\ OnTrack(acct, exch[d], stream.q, call', d)
              /\ exch[d].at # "None" => Heard(call', d)
  <2>1. Eases(call, call', d)
      BY <1>1, <1>5, <1>6, OneCallEases
  <2>2. ASSUME exch[d].at # "None", NEW j \in {"new", "bulk"}
        PROVE  ~(call'[j].sent /\ d \in call'[j].cs)
    <3>1. ~(call[j].sent /\ d \in call[j].cs)
        BY <1>1, <2>2 DEF World, CallTrue, Kinds
    <3> QED
        BY <1>5, <1>7, <3>1 DEF Kinds
  <2> QED
      BY <1>8, <2>1, <2>2, EasedTrack DEF Heard
<1> QED
    BY <1>1, <1>5, <1>7, <1>8, <1>10, <1>11

\* The orders of a request, when it is settled.
LEMMA SettledTrack ==
    ASSUME IInv, Linked(acct), rules' = rules, stream' = stream, exch' = exch, stream.up,
           Planned(exch, stream.q, call'), Confirmable(stream.q, call'),
           \A d \in ClIDs : /\ Alone(stream.q, call', d)
                            /\ OnTrack(acct, exch[d], stream.q, call', d),
           NEW done \in SUBSET ClIDs, NEW m, \A c \in done : Fits(m, acct, c),
           NEW b, b = AllOf(m, acct, done), acct' = b,
           \A c \in done : \A x :
              Linked(x) /\ SameOrder(acct, x, c) /\ Fits(m, x, c)
                 /\ OnTrack(x, exch[c], stream.q, call', c) =>
                 OnTrack(Method(m, x, c), exch[c], stream.q, call', c)
    PROVE  Tracking'
<1>1. \A d \in ClIDs : OnTrack(b, exch[d], stream.q, call', d)
  <2>1. \A d \in ClIDs : exch[d].at = "Live" => exch[d].id \in ExIDs
      BY LiveIDs
  <2>2. /\ \A d \in done : OnTrack(acct, exch[d], stream.q, call', d)
        /\ \A d \in ClIDs \ done : OnTrack(acct, exch[d], stream.q, call', d)
      OBVIOUS
  <2> QED
      BY <2>1, <2>2, FoldTrack
<1> QED
    BY <1>1, TrackingStep

\* Orders of a request that was refused.
LEMMA DroppedTrack ==
    ASSUME IInv, Tracking, NEW k \in Kinds, NEW answers \in SUBSET Final, Resume(k, answers),
           NEW cs \in SUBSET ClIDs, Drop(cs) \/ DropIfThere(cs)
    PROVE  Tracking'
<1> SUFFICES ASSUME Following' PROVE Tracking'
    BY DEF Tracking
<1> PICK a : a = acct
    OBVIOUS
<1>1. PICK done \in SUBSET cs :
          /\ \A c \in done : ~RejectNewOrderError(a, c)
          /\ acct' = FoldSet(LAMBDA c, b : RejectNewOrder(b, c), a, done)
          /\ \E error : FailIf(error)
    BY DEF Drop, DropIfThere, ForAll
<1>2. phase' = "running" => phase = "running"
    BY <1>1 DEF FailIf
<1>3. PICK m : m = [op |-> "drop", with |-> 0]
    OBVIOUS
<1>4. PICK b : b = AllOf(m, a, done)
    OBVIOUS
<1>5. acct' = b
    BY <1>1, <1>3, <1>4, DropsAre
<1>6. done \in SUBSET ClIDs /\ \A c \in done : Fits(m, a, c)
    BY <1>1, <1>3 DEF RejectNewOrderError, Fits
<1>7. /\ Linked(a) /\ rules' = rules /\ stream' = stream /\ exch' = exch /\ stream.up
      /\ Planned(exch, stream.q, call') /\ Confirmable(stream.q, call')
      /\ \A d \in ClIDs : /\ Alone(stream.q, call', d)
                          /\ OnTrack(a, exch[d], stream.q, call', d)
    BY <1>2, ResumeTrack
<1>8. ASSUME NEW c \in done, NEW x, Linked(x), OnTrack(x, exch[c], stream.q, call', c)
      PROVE  OnTrack(Method(m, x, c), exch[c], stream.q, call', c)
  <2>1. c \in ClIDs /\ (exch[c].at = "Live" => exch[c].id \in ExIDs)
      BY <1>6, LiveIDs
  <2>2. OnTrack(RejectNewOrder(x, c), exch[c], stream.q, call', c)
      BY <1>8, <2>1, DropTrack
  <2> QED
      BY <1>3, <2>2 DEF Method
<1> QED
    BY <1>4, <1>5, <1>6, <1>7, <1>8, SettledTrack

\* Orders that are taken, one after the other.
LEMMA AcceptIs ==
    ASSUME NEW ans \in Final, NEW cs \in SUBSET ClIDs, Accept(cs, ans),
           NEW m, m = [op |-> "accepted", with |-> ans]
    PROVE  \E done \in SUBSET cs : acct' = AllOf(m, acct, done)
<1>1. PICK done \in SUBSET cs : acct' = FoldSet(LAMBDA c, b : Accepted(b, c, ans), acct, done)
    BY DEF Accept, ForAll
<1>2. FoldSet(LAMBDA c, b : Accepted(b, c, ans), acct, done) = AllOf(m, acct, done)
    BY AcceptancesAre
<1> QED
    BY <1>1, <1>2

\* Orders the venue took.
LEMMA TakenTrack ==
    ASSUME IInv, Tracking, Resume("new", {"ok", "filled", "expired"}),
           NEW ans \in Final, ans = call["new"].ans, NEW cs \in SUBSET ClIDs, cs = call["new"].cs,
           Accept(cs, ans)
    PROVE  Tracking'
<1> SUFFICES ASSUME Following' PROVE Tracking'
    BY DEF Tracking
<1> PICK a : a = acct
    OBVIOUS
<1>1. \E error : FailIf(error)
    BY DEF Accept, ForAll
<1>2. /\ phase' = "running" => phase = "running"
      /\ "new" \in Kinds /\ {"ok", "filled", "expired"} \in SUBSET Final
    BY <1>1 DEF FailIf, Kinds, Final
<1>3. PICK m : m = [op |-> "accepted", with |-> ans]
    OBVIOUS
<1>4. PICK done \in SUBSET cs : acct' = AllOf(m, a, done)
    BY <1>3, AcceptIs
<1>5. PICK b : b = AllOf(m, a, done) /\ acct' = b
    BY <1>4
<1>6. /\ Linked(a) /\ rules' = rules /\ stream' = stream /\ exch' = exch /\ stream.up
      /\ Planned(exch, stream.q, call') /\ Confirmable(stream.q, call')
      /\ \A d \in ClIDs : /\ Alone(stream.q, call', d)
                          /\ OnTrack(a, exch[d], stream.q, call', d)
    BY <1>2, ResumeTrack
<1>7. done \in SUBSET ClIDs /\ \A c \in done : /\ Heard(call', c)
                                               /\ ans = "expired" => exch[c].at = "Done"
  <2>1. ans = "expired" => \A c \in cs : exch[c].at = "Done"
      BY <1>2, CallOrders DEF CallTrue
  <2>2. \A c \in cs : exch[c].at # "None"
    <3>1. Planned(exch, stream.q, call) /\ call["new"].ans \in {"ok", "filled", "expired"}
        BY <1>2, ResumeTrack
    <3> QED
        BY <3>1 DEF Planned
  <2>3. \A d \in ClIDs : exch[d].at # "None" => Heard(call', d)
      BY <1>2, ResumeTrack
  <2> QED
      BY <2>1, <2>2, <2>3
<1>8. \A c \in done : Fits(m, a, c)
    BY <1>3, <1>7 DEF Fits
<1>9. ASSUME NEW c \in done, NEW x, Linked(x), OnTrack(x, exch[c], stream.q, call', c)
      PROVE  OnTrack(Method(m, x, c), exch[c], stream.q, call', c)
  <2>1. /\ c \in ClIDs /\ (exch[c].at = "Live" => exch[c].id = IdOf[c]) /\ Heard(call', c)
        /\ ans = "expired" => exch[c].at # "Live"
      BY <1>7, LiveIDs
  <2>2. OnTrack(Accepted(x, c, ans), exch[c], stream.q, call', c)
      BY <1>9, <2>1, AcceptedTrack
  <2> QED
      BY <1>3, <2>2 DEF Method
<1> QED
    BY <1>5, <1>6, <1>7, <1>8, <1>9, SettledTrack

\* The answer to a new order.
LEMMA NewOrderAnsweredTrack ==
    ASSUME IInv, Tracking, NewOrderAnswered
    PROVE  Tracking'
<1> PICK all, ans : all = call["new"].cs /\ ans = call["new"].ans
    OBVIOUS
<1>1. "new" \in Kinds /\ {"timeout"} \in SUBSET Final /\ {"refused"} \in SUBSET Final
    BY DEF Kinds, Final
<1>2. all \in SUBSET ClIDs
    BY <1>1, CallOrders
<1>3. \/ Resume("new", {"ok", "filled", "expired"}) /\ Accept(all, ans)
      \/ Resume("new", {"timeout"}) /\ Drop(all)
      \/ Resume("new", {"refused"}) /\ DropIfThere(all)
    BY DEF NewOrderAnswered
<1>4. CASE Resume("new", {"ok", "filled", "expired"}) /\ Accept(all, ans)
  <2>1. ans \in Final
      BY <1>4 DEF Resume, Final
  <2> QED
      BY <1>2, <1>4, <2>1, TakenTrack
<1>5. CASE Resume("new", {"timeout"}) /\ Drop(all)
    BY <1>1, <1>2, <1>5, DroppedTrack
<1>6. CASE Resume("new", {"refused"}) /\ DropIfThere(all)
    BY <1>1, <1>2, <1>6, DroppedTrack
<1> QED
    BY <1>3, <1>4, <1>5, <1>6

\* The answer to several.
LEMMA BulkAnsweredTrack ==
    ASSUME IInv, Tracking, BulkAnswered
    PROVE  Tracking'
<1> PICK a : a = acct
    OBVIOUS
<1>1. /\ "bulk" \in Kinds /\ {"timeout", "refused"} \in SUBSET Final /\ {"ok"} \in SUBSET Final
    BY DEF Kinds, Final
<1>2. PICK all \in SUBSET ClIDs : all = call["bulk"].cs
    BY <1>1, CallOrders
<1>3. CASE /\ Resume("bulk", {"ok"})
           /\ ForAll(all, LAMBDA c : ConfirmNewOrderError(acct, c), Confirm)
  <2> SUFFICES ASSUME Following' PROVE Tracking'
      BY DEF Tracking
  <2>1. PICK done \in SUBSET all :
            /\ \A c \in done : ~ConfirmNewOrderError(a, c)
            /\ acct' = FoldSet(LAMBDA c, b : Confirm(b, c), a, done)
            /\ \E error : FailIf(error)
      BY <1>3 DEF ForAll
  <2>2. phase' = "running" => phase = "running"
      BY <2>1 DEF FailIf
  <2>3. PICK m : m = [op |-> "confirm", with |-> 0]
      OBVIOUS
  <2>4. PICK b : b = AllOf(m, a, done)
      OBVIOUS
  <2>5. acct' = b
      BY <2>1, <2>3, <2>4, ConfirmationsAre
  <2>6. /\ Linked(a) /\ rules' = rules /\ stream' = stream /\ exch' = exch /\ stream.up
        /\ Planned(exch, stream.q, call') /\ Confirmable(stream.q, call')
        /\ \A d \in ClIDs : /\ Alone(stream.q, call', d)
                            /\ OnTrack(a, exch[d], stream.q, call', d)
      BY <1>1, <1>3, <2>2, ResumeTrack
  <2>7. done \in SUBSET ClIDs /\ \A c \in done : Heard(call', c)
    <3>1. \A c \in all : exch[c].at # "None"
      <4>1. Planned(exch, stream.q, call) /\ call["bulk"].ans \in {"ok"}
          BY <1>1, <1>3, <2>2, ResumeTrack
      <4> QED
          BY <1>2, <4>1 DEF Planned
    <3>2. \A d \in ClIDs : exch[d].at # "None" => Heard(call', d)
        BY <1>1, <1>3, <2>2, ResumeTrack
    <3> QED
        BY <3>1, <3>2
  <2>8. \A c \in done : Fits(m, a, c)
      BY <2>1, <2>3 DEF ConfirmNewOrderError, Fits
  <2>9. ASSUME NEW c \in done, NEW x, Linked(x), Fits(m, x, c),
               OnTrack(x, exch[c], stream.q, call', c)
        PROVE  OnTrack(Method(m, x, c), exch[c], stream.q, call', c)
    <3>1. /\ c \in ClIDs /\ (exch[c].at = "Live" => exch[c].id = IdOf[c]) /\ Heard(call', c)
          /\ c \in x.ordersClID
        BY <2>3, <2>7, <2>9, LiveIDs DEF Fits
    <3>2. OnTrack(Confirm(x, c), exch[c], stream.q, call', c)
        BY <2>9, <3>1, ConfirmTrack DEF Confirm
    <3> QED
        BY <2>3, <3>2 DEF Method
  <2> QED
      BY <2>4, <2>5, <2>6, <2>7, <2>8, <2>9, SettledTrack
<1>4. CASE Resume("bulk", {"timeout", "refused"}) /\ Drop(all)
    BY <1>1, <1>2, <1>4, DroppedTrack
<1> QED
    BY <1>2, <1>3, <1>4 DEF BulkAnswered

\* A cancel the venue refuses.
LEMMA CancelRefusedTrack ==
    ASSUME IInv, Tracking, NEW k \in Kinds, NEW answers \in SUBSET Final, Resume(k, answers),
           NEW u \in BOOLEAN, CancelRefused(k, u)
    PROVE  Tracking'
<1> SUFFICES ASSUME Following' PROVE Tracking'
    BY DEF Tracking
<1> PICK a : a = acct
    OBVIOUS
<1>1. PICK all \in SUBSET ClIDs : all = call[k].cs
    BY CallOrders
<1>2. PICK done \in SUBSET all :
          /\ \A c \in done : ~RejectCancelOrderError(a, c, u)
          /\ acct' = FoldSet(LAMBDA c, b : RejectCancelOrder(b, c, u), a, done)
          /\ \E error : FailIf(error)
    BY <1>1 DEF CancelRefused, ForAll
<1>3. phase' = "running" => phase = "running"
    BY <1>2 DEF FailIf
<1>4. PICK m : m = [op |-> "uncanceled", with |-> u]
    OBVIOUS
<1>5. PICK b : b = AllOf(m, a, done)
    OBVIOUS
<1>6. acct' = b
    BY <1>2, <1>4, <1>5, RefusedCancelsAre
<1>7. /\ Linked(a) /\ rules' = rules /\ stream' = stream /\ exch' = exch /\ stream.up
      /\ Planned(exch, stream.q, call') /\ Confirmable(stream.q, call')
      /\ \A d \in ClIDs : /\ Alone(stream.q, call', d)
                          /\ OnTrack(a, exch[d], stream.q, call', d)
    BY <1>3, ResumeTrack
<1>8. done \in SUBSET ClIDs /\ \A c \in done : Fits(m, a, c)
    BY <1>2, <1>4, <1>7, FindsOwn DEF RejectCancelOrderError, Fits
<1>9. ASSUME NEW c \in done, NEW x, Linked(x), Fits(m, x, c),
             OnTrack(x, exch[c], stream.q, call', c)
      PROVE  OnTrack(Method(m, x, c), exch[c], stream.q, call', c)
  <2>1. /\ c \in ClIDs /\ (exch[c].at = "Live" => exch[c].id \in ExIDs) /\ c \in x.ordersClID
      BY <1>4, <1>8, <1>9, LiveIDs DEF Fits
  <2>2. OnTrack(RejectCancelOrder(x, c, u), exch[c], stream.q, call', c)
      BY <1>9, <2>1, RejectCancelTrack
  <2> QED
      BY <1>4, <2>2 DEF Method
<1> QED
    BY <1>5, <1>6, <1>7, <1>8, <1>9, SettledTrack

\* The answer to a mass cancel.
LEMMA MassCancelAnsweredTrack ==
    ASSUME IInv, Tracking, MassCancelAnswered
    PROVE  Tracking'
<1>1. /\ "mass" \in Kinds /\ FALSE \in BOOLEAN
      /\ {"timeout", "refused"} \in SUBSET Final /\ {"ok"} \in SUBSET Final
    BY DEF Kinds, Final
<1>2. CASE Resume("mass", {"ok"}) /\ UNCHANGED <<acct, phase>>
  <2> SUFFICES ASSUME Following' PROVE Tracking'
      BY DEF Tracking
  <2> QED
      BY <1>1, <1>2, ResumeTrack, TrackingStep
<1>3. CASE Resume("mass", {"timeout", "refused"}) /\ CancelRefused("mass", FALSE)
    BY <1>1, <1>3, CancelRefusedTrack
<1> QED
    BY <1>2, <1>3 DEF MassCancelAnswered

\* A cancel the venue confirms.
LEMMA CancelConfirmedTrack ==
    ASSUME IInv, Tracking, Resume("cancel", {"ok"}), rules.cancels,
           NEW all \in SUBSET ClIDs, all = call["cancel"].cs,
           ForAll(all, LAMBDA c : ~Known(acct, c), ConfirmCancelOrder)
    PROVE  Tracking'
<1> SUFFICES ASSUME Following' PROVE Tracking'
    BY DEF Tracking
<1> PICK a : a = acct
    OBVIOUS
<1>1. "cancel" \in Kinds /\ {"ok"} \in SUBSET Final
    BY DEF Kinds, Final
<1>2. PICK done \in SUBSET all :
          /\ \A c \in done : Known(a, c)
          /\ acct' = FoldSet(LAMBDA c, b : ConfirmCancelOrder(b, c), a, done)
          /\ \E error : FailIf(error)
    BY DEF ForAll
<1>3. phase' = "running" => phase = "running"
    BY <1>2 DEF FailIf
<1>4. PICK m : m = [op |-> "canceled", with |-> 0]
    OBVIOUS
<1>5. PICK b : b = AllOf(m, a, done)
    OBVIOUS
<1>6. acct' = b
    BY <1>2, <1>4, <1>5, CancellationsAre
<1>7. /\ Linked(a) /\ rules' = rules /\ stream' = stream /\ exch' = exch /\ stream.up
      /\ Planned(exch, stream.q, call') /\ Confirmable(stream.q, call')
      /\ \A d \in ClIDs : /\ Alone(stream.q, call', d)
                          /\ OnTrack(a, exch[d], stream.q, call', d)
    BY <1>1, <1>3, ResumeTrack
<1>8. \A c \in all : exch[c].at = "Done"
    BY <1>1, CallOrders DEF CallTrue, Resume
<1>9. /\ done \in SUBSET ClIDs
      /\ \A c \in done : exch[c].at = "Done" /\ Heard(call', c) /\ c \in a.ordersClID
  <2>1. \A d \in ClIDs : exch[d].at # "None" => Heard(call', d)
      BY <1>1, <1>3, ResumeTrack
  <2> QED
      BY <1>2, <1>7, <1>8, <2>1, FindsOwn
<1>10. \A c \in done : Fits(m, a, c)
    BY <1>4, <1>9 DEF Fits
<1>11. ASSUME NEW c \in done, NEW x, Linked(x), Fits(m, x, c),
              OnTrack(x, exch[c], stream.q, call', c)
       PROVE  OnTrack(Method(m, x, c), exch[c], stream.q, call', c)
  <2>1. c \in ClIDs /\ exch[c].at # "Live" /\ Heard(call', c) /\ c \in x.ordersClID
      BY <1>4, <1>9, <1>11 DEF Fits
  <2>2. Known(x, c) /\ Find(x, c) = c
      BY <1>11, <2>1, FindsOwn
  <2>3. OnTrack(ConfirmCancelOrder(x, c), exch[c], stream.q, call', c)
      BY <1>11, <2>1, <2>2, ClosedTrack
  <2> QED
      BY <1>4, <2>3 DEF Method
<1> QED
    BY <1>5, <1>6, <1>7, <1>9, <1>10, <1>11, SettledTrack

\* A cancel of an order the venue does not know any more, which the listener takes
\* for filled.
LEMMA CancelFilledTrack ==
    ASSUME IInv, Tracking, Resume("cancel", {"unknown"}),
           NEW all \in SUBSET ClIDs, all = call["cancel"].cs,
           ForAll(all, LAMBDA c : RejectCancelOrderError(acct, c, TRUE),
                  LAMBDA d, c : PendingFilled(RejectCancelOrder(d, c, TRUE), c))
    PROVE  Tracking'
<1> SUFFICES ASSUME Following' PROVE Tracking'
    BY DEF Tracking
<1> PICK a : a = acct
    OBVIOUS
<1>1. "cancel" \in Kinds \ {"new", "bulk"} /\ {"unknown"} \in SUBSET Final
      /\ "none" \notin {"unknown"} /\ TRUE \in BOOLEAN
    BY DEF Kinds, Final
<1>2. PICK done \in SUBSET all :
          /\ \A c \in done : ~RejectCancelOrderError(a, c, TRUE)
          /\ acct' = FoldSet(LAMBDA c, b : PendingFilled(RejectCancelOrder(b, c, TRUE), c),
                             a, done)
          /\ \E error : FailIf(error)
    BY DEF ForAll
<1>3. phase' = "running" => phase = "running"
    BY <1>2 DEF FailIf
<1>4. PICK m : m = [op |-> "uncanceled, filled", with |-> 0]
    OBVIOUS
<1>5. PICK b : b = AllOf(m, a, done)
    OBVIOUS
<1>6. acct' = b
    BY <1>2, <1>4, <1>5, FilledCancelsAre
<1>7. /\ Linked(a) /\ rules' = rules /\ stream' = stream /\ exch' = exch /\ stream.up
      /\ Planned(exch, stream.q, call') /\ Confirmable(stream.q, call')
      /\ \A d \in ClIDs : /\ Alone(stream.q, call', d)
                          /\ OnTrack(a, exch[d], stream.q, call', d)
                          /\ OnTrack(a, exch[d], stream.q, call, d)
      /\ call["cancel"].ans \in {"unknown"}
    BY <1>1, <1>3, ResumeTrack
<1>8. done \in SUBSET ClIDs /\ \A c \in done : Fits(m, a, c)
    BY <1>2, <1>4, <1>7, FindsOwn DEF RejectCancelOrderError, Fits
<1>9. ASSUME NEW c \in done, NEW x, Linked(x), SameOrder(a, x, c), Fits(m, x, c),
             OnTrack(x, exch[c], stream.q, call', c)
      PROVE  OnTrack(Method(m, x, c), exch[c], stream.q, call', c)
  <2>1. /\ c \in ClIDs /\ (exch[c].at = "Live" => exch[c].id \in ExIDs) /\ c \in x.ordersClID
      BY <1>4, <1>8, <1>9, LiveIDs DEF Fits
  <2>2. PICK y : y = RejectCancelOrder(x, c, TRUE)
      OBVIOUS
  <2>3. OnTrack(y, exch[c], stream.q, call', c)
      BY <1>1, <1>9, <2>1, <2>2, RejectCancelTrack
  <2>4. y.orders[c].status # "PendingNew"
    <3>1. OnTrack(x, exch[c], stream.q, call, c)
        BY <1>7, <1>9, <2>1, SameTrack
    <3>2. OnTrack(y, exch[c], stream.q, call, c)
        BY <1>1, <1>9, <2>1, <2>2, <3>1, RejectCancelTrack
    <3>3. call["cancel"].ans # "none" /\ c \in call["cancel"].cs
        BY <1>7
    <3> QED
        BY <1>1, <3>2, <3>3 DEF OnTrack
  <2>5. Linked(y) /\ c \in y.ordersClID
      BY <1>1, <1>9, <2>1, <2>2, RejectCancelLinked
  <2>6. Known(y, c) /\ Find(y, c) = c
      BY <2>1, <2>5, FindsOwn
  <2>7. OnTrack(PendingFilled(y, c), exch[c], stream.q, call', c)
      BY <2>1, <2>3, <2>4, <2>5, <2>6, PendingFilledTrack
  <2> QED
      BY <1>4, <2>2, <2>7 DEF Method
<1> QED
    BY <1>5, <1>6, <1>7, <1>8, <1>9, SettledTrack

\* The answer to a cancel.
LEMMA CancelAnsweredTrack ==
    ASSUME IInv, Tracking, CancelAnswered
    PROVE  Tracking'
<1>1. /\ "cancel" \in Kinds /\ TRUE \in BOOLEAN /\ FALSE \in BOOLEAN
      /\ {"ok"} \in SUBSET Final /\ {"unknown"} \in SUBSET Final
      /\ {"timeout", "refused"} \in SUBSET Final
    BY DEF Kinds, Final
<1>2. PICK all \in SUBSET ClIDs : all = call["cancel"].cs
    BY <1>1, CallOrders
<1>3. CASE Resume("cancel", {"ok"}) /\ rules.cancels
           /\ ForAll(all, LAMBDA c : ~Known(acct, c), ConfirmCancelOrder)
    BY <1>2, <1>3, CancelConfirmedTrack
<1>4. CASE Resume("cancel", {"ok"}) /\ UNCHANGED <<acct, phase>>
  <2> SUFFICES ASSUME Following' PROVE Tracking'
      BY DEF Tracking
  <2> QED
      BY <1>1, <1>4, ResumeTrack, TrackingStep
<1>5. CASE Resume("cancel", {"timeout", "refused"}) /\ CancelRefused("cancel", FALSE)
    BY <1>1, <1>5, CancelRefusedTrack
<1>6. CASE Resume("cancel", {"unknown"}) /\ CancelRefused("cancel", TRUE)
    BY <1>1, <1>6, CancelRefusedTrack
<1>7. CASE /\ Resume("cancel", {"unknown"})
           /\ ForAll(all, LAMBDA c : RejectCancelOrderError(acct, c, TRUE),
                     LAMBDA d, c : PendingFilled(RejectCancelOrder(d, c, TRUE), c))
    BY <1>2, <1>7, CancelFilledTrack
<1>8. CASE phase' = "failed"
    BY <1>8 DEF Tracking, Following
<1>9. rules.unknown \in {"reject", "filled", "panic"}
    BY VenueOrderRules DEF IInv, StateTypes, Rules
<1> QED
    BY <1>2, <1>3, <1>4, <1>5, <1>6, <1>7, <1>8, <1>9 DEF CancelAnswered

\* A replacement the venue refuses.
LEMMA ReplaceRefusedTrack ==
    ASSUME IInv, Tracking, NEW k \in Replacements, NEW answers \in SUBSET Final,
           Resume(k, answers), NEW u \in BOOLEAN, ReplaceRefused(k, u),
           answers \subseteq {"timeout", "refused", "unknown"}
    PROVE  Tracking'
<1> SUFFICES ASSUME Following' PROVE Tracking'
    BY DEF Tracking
<1> PICK a : a = acct
    OBVIOUS
<1>1. k \in Kinds \ {"new", "bulk"}
    BY DEF Kinds, Replacements
<1>2. PICK all \in SUBSET ClIDs : all = call[k].cs
    BY <1>1, CallOrders
<1>3. PICK done \in SUBSET all :
          /\ \A c \in done : Known(a, c)
          /\ acct' = FoldSet(LAMBDA c, b : IF u /\ rules.unknown = "filled"
                                           THEN PendingFilled(RejectReplaceOrder(b, c), c)
                                           ELSE RejectReplaceOrder(b, c), a, done)
          /\ \E error : FailIf(error)
    BY <1>2 DEF ReplaceRefused, ForAll
<1>4. phase' = "running" => phase = "running"
    BY <1>3 DEF FailIf
<1>5. PICK m : m = [op |-> IF u /\ rules.unknown = "filled" THEN "unreplaced, filled"
                                                           ELSE "unreplaced",
                    with |-> 0]
    OBVIOUS
<1>6. m.op \in {"unreplaced", "unreplaced, filled"}
    BY <1>5
<1>7. PICK b : b = AllOf(m, a, done)
    OBVIOUS
<1>8. acct' = b
    BY <1>3, <1>5, <1>7, RefusedReplacementsAre
<1>9. /\ Linked(a) /\ rules' = rules /\ stream' = stream /\ exch' = exch /\ stream.up
      /\ Planned(exch, stream.q, call) /\ Confirmable(stream.q, call')
      /\ Planned(exch, stream.q, call')
      /\ \A d \in ClIDs : /\ Alone(stream.q, call', d)
                          /\ OnTrack(a, exch[d], stream.q, call', d)
                          /\ Alone(stream.q, call, d)
                          /\ OnTrack(a, exch[d], stream.q, call, d)
      /\ call[k].ans \in answers /\ call'[k].ans = "none"
      /\ \A j \in Kinds \ {k} : call'[j] = call[j]
    BY <1>1, <1>4, ResumeTrack
<1>10. /\ done \in SUBSET ClIDs
       /\ \A c \in done : /\ c \in call[k].cs /\ c \in a.ordersClID
                          /\ a.orders[c].status # "PendingNew"
  <2>1. done \in SUBSET ClIDs /\ \A c \in done : c \in call[k].cs /\ c \in a.ordersClID
      BY <1>2, <1>3, <1>9, FindsOwn
  <2>2. call[k].ans # "none"
      BY <1>9
  <2> QED
      BY <1>1, <1>9, <2>1, <2>2 DEF OnTrack
<1>11. \A c \in done : ~Engaged(stream.q, call', c)
  <2> SUFFICES ASSUME NEW c \in done PROVE ~Engaged(stream.q, call', c)
      OBVIOUS
  <2>1. call[k].ans \in {"refused", "unknown"}
      BY <1>9 DEF Planned
  <2>2. Claimed(call, k, c)
      BY <1>10, <2>1 DEF Claimed
  <2>3. Alone(stream.q, call, c)
      BY <1>9, <1>10
  <2>4. ~Amending(stream.q, c) /\ \A j \in Replacements \ {k} : ~Claimed(call, j, c)
      BY <2>2, <2>3 DEF Alone, Replacements
  <2>5. \A j \in Replacements \ {k} : call'[j] = call[j]
      BY <1>9 DEF Replacements, Kinds
  <2>6. \A j \in Replacements : ~Claimed(call', j, c)
      BY <1>9, <2>4, <2>5 DEF Claimed
  <2> QED
      BY <2>4, <2>6 DEF Engaged
<1>12. \A c \in done : Fits(m, a, c)
    BY <1>6, <1>10 DEF Fits
<1>13. ASSUME NEW c \in done, NEW x, Linked(x), SameOrder(a, x, c), Fits(m, x, c),
              OnTrack(x, exch[c], stream.q, call', c)
       PROVE  OnTrack(Method(m, x, c), exch[c], stream.q, call', c)
  <2>1. /\ c \in ClIDs /\ (exch[c].at = "Live" => exch[c].id \in ExIDs) /\ c \in x.ordersClID
        /\ ~Engaged(stream.q, call', c) /\ x.orders[c].status # "PendingNew"
      BY <1>10, <1>11, <1>13, LiveIDs DEF SameOrder
  <2>2. PICK y : y = RejectReplaceOrder(x, c)
      OBVIOUS
  <2>3. OnTrack(y, exch[c], stream.q, call', c) /\ y.orders[c].status # "PendingNew"
      BY <1>13, <2>1, <2>2, RejectReplaceTrack
  <2>4. Linked(y) /\ c \in y.ordersClID
      BY <1>13, <2>1, <2>2, RejectReplaceLinked
  <2>5. Known(y, c) /\ Find(y, c) = c
      BY <2>1, <2>4, FindsOwn
  <2>6. OnTrack(PendingFilled(y, c), exch[c], stream.q, call', c)
      BY <2>1, <2>3, <2>4, <2>5, PendingFilledTrack
  <2>7. Method(m, x, c) = PendingFilled(y, c) \/ Method(m, x, c) = y
      BY <1>6, <2>2 DEF Method
  <2> QED
      BY <2>3, <2>6, <2>7
<1> QED
    BY <1>7, <1>8, <1>9, <1>10, <1>12, <1>13, SettledTrack

\* The answer to a replacement.
LEMMA ReplaceAnsweredTrack ==
    ASSUME IInv, Tracking, NEW k \in Replacements, ReplaceAnswered(k)
    PROVE  Tracking'
<1>1. /\ k \in Kinds /\ TRUE \in BOOLEAN /\ FALSE \in BOOLEAN
      /\ {"ok"} \in SUBSET Final /\ {"unknown"} \in SUBSET Final
      /\ {"timeout", "refused"} \in SUBSET Final
    BY DEF Kinds, Final, Replacements
<1>2. CASE Resume(k, {"ok"}) /\ rules.replace = "answer"
           /\ Replaced(CHOOSE c \in call[k].cs : TRUE)
  <2> SUFFICES ASSUME Following' PROVE FALSE
      BY DEF Tracking
  <2>1. phase' = "running" => phase = "running"
      BY <1>2 DEF Replaced, FailIf
  <2>2. Confirmable(stream.q, call) /\ call[k].ans \in {"ok"}
      BY <1>1, <1>2, <2>1, ResumeTrack
  <2> QED
      BY <1>2, <2>2 DEF Confirmable
<1>3. CASE Resume(k, {"ok"}) /\ UNCHANGED <<acct, phase>>
  <2> SUFFICES ASSUME Following' PROVE Tracking'
      BY DEF Tracking
  <2> QED
      BY <1>1, <1>3, ResumeTrack, TrackingStep
<1>4. CASE Resume(k, {"timeout", "refused"}) /\ ReplaceRefused(k, FALSE)
    BY <1>1, <1>4, ReplaceRefusedTrack
<1>5. CASE Resume(k, {"unknown"}) /\ ReplaceRefused(k, TRUE)
    BY <1>1, <1>5, ReplaceRefusedTrack
<1> QED
    BY <1>2, <1>3, <1>4, <1>5 DEF ReplaceAnswered

\* Every continuation.
LEMMA ContinuationTrack ==
    ASSUME IInv, Tracking, Continuation
    PROVE  Tracking'
<1>1. "replace" \in Replacements /\ "bulkReplace" \in Replacements
    BY DEF Replacements
<1> QED
    BY <1>1, NewOrderAnsweredTrack, BulkAnsweredTrack, CancelAnsweredTrack,
       MassCancelAnsweredTrack, ReplaceAnsweredTrack DEF Continuation

----------------------------------------------------------------------------
(***************************************************************************)
(* The private stream, and the live orders.                                *)
(***************************************************************************)

\* What is known of the event that is handled, and of its order.
LEMMA MessageBefore ==
    ASSUME IInv, Tracking, NEW kind, Handle(kind), Following', NEW q, q = stream.q
    PROVE  /\ Linked(acct) /\ q \in Seq(Event) /\ q # <<>> /\ Head(q) = q[1]
           /\ q[1].ev = kind /\ q[1].c \in ClIDs /\ q[1].id = IdOf[q[1].c]
           /\ kind \in {"new", "trade"} => q[1].qty \in Lots
           /\ kind \in {"canceled", "expired"} => exch[q[1].c].at = "Done"
           /\ Following /\ Planned(exch, q, call) /\ Confirmable(q, call)
           /\ \A d \in ClIDs : Alone(q, call, d) /\ OnTrack(acct, exch[d], q, call, d)
           /\ kind # "rejected" => Heard(call, q[1].c)
           /\ exch[q[1].c].at = "Live" =>
                 exch[q[1].c].id = IdOf[q[1].c] /\ exch[q[1].c].id \in ExIDs
<1>1. /\ stream.q \in Seq(Event) /\ q # <<>> /\ Head(q).ev = kind /\ phase = "running"
      /\ rules' = rules /\ spotless' = spotless /\ World
    BY DEF Handle, IInv, StateTypes
<1>2. /\ Following /\ Planned(exch, q, call) /\ Confirmable(q, call)
      /\ \A d \in ClIDs : Alone(q, call, d) /\ OnTrack(acct, exch[d], q, call, d)
    BY <1>1, TrackedBefore
<1>3. Head(q) = q[1] /\ 1 \in 1..Len(q)
    BY <1>1
<1>4. /\ Linked(acct) /\ q[1].c \in ClIDs /\ q[1].id = IdOf[q[1].c]
      /\ kind \in {"new", "trade"} => q[1].qty \in Lots
      /\ kind \in {"canceled", "expired"} => exch[q[1].c].at = "Done"
    BY <1>3, HeadTells
<1>5. kind # "rejected" => Heard(call, q[1].c)
  <2> SUFFICES ASSUME kind # "rejected", NEW k \in {"new", "bulk"}, call[k].sent,
                      q[1].c \in call[k].cs
               PROVE  FALSE
      BY DEF Heard
  <2>1. exch[q[1].c].at # "None"
      BY <1>1, <1>2, <1>3 DEF Planned
  <2> QED
      BY <1>1, <2>1 DEF World, CallTrue, Kinds
<1> QED
    BY <1>1, <1>2, <1>3, <1>4, <1>5, LiveIDs

\* A handler that leaves the account of the other orders alone.
LEMMA MessageTrack ==
    ASSUME IInv, Tracking, NEW kind, Handle(kind), Following', NEW q, q = stream.q,
           NEW c, c = q[1].c, NEW b, acct' = b, Only(acct, b, c),
           Alone(Tail(q), call, c), OnTrack(b, exch[c], Tail(q), call, c)
    PROVE  Tracking'
<1>1. /\ q \in Seq(Event) /\ q # <<>> /\ Following /\ Planned(exch, q, call)
      /\ Confirmable(q, call)
      /\ \A d \in ClIDs : Alone(q, call, d) /\ OnTrack(acct, exch[d], q, call, d)
    BY MessageBefore
<1>2. /\ rules' = rules /\ call' = call /\ exch' = exch
      /\ stream \in [up : BOOLEAN, q : Seq(Event)] /\ stream' = [stream EXCEPT !.q = Tail(q)]
      /\ stream.up
    BY <1>1 DEF Handle, IInv, StateTypes, Tracking
<1>3. stream'.up /\ stream'.q = Tail(q)
    BY <1>2
<1>4. /\ Len(q) \in Nat \ {0} /\ Len(Tail(q)) = Len(q) - 1
      /\ \A i \in 1..Len(q) - 1 : Tail(q)[i] = q[i + 1] /\ i + 1 \in 1..Len(q)
    BY <1>1, TailIs
<1>5. Planned(exch, Tail(q), call)
    BY <1>1, <1>4 DEF Planned
<1>6. Confirmable(Tail(q), call)
    BY <1>1, <1>4 DEF Confirmable
<1>7. ASSUME NEW d \in ClIDs
      PROVE  Alone(Tail(q), call, d) /\ OnTrack(b, exch[d], Tail(q), call, d)
  <2>1. CASE d = c
      BY <2>1
  <2>2. CASE d # c
    <3>1. Bland(q[1], d)
        BY <2>2 DEF Bland
    <3>2. Alone(Tail(q), call, d) /\ OnTrack(acct, exch[d], Tail(q), call, d)
        BY <1>1, <3>1, BlandTail
    <3>3. SameOrder(acct, b, d)
        BY <2>2 DEF Only
    <3> QED
        BY <3>2, <3>3, LiveIDs, SameTrack
  <2> QED
      BY <2>1, <2>2
<1> QED
    BY <1>2, <1>3, <1>5, <1>6, <1>7, TrackingStep

\* A new order.
LEMMA OnNewTrack ==
    ASSUME IInv, Tracking, Telling(rules), OnNew
    PROVE  Tracking'
<1> SUFFICES ASSUME Following' PROVE Tracking'
    BY DEF Tracking
<1> PICK a, q, e : a = acct /\ q = stream.q /\ e = Head(stream.q)
    OBVIOUS
<1>1. /\ Handle("new")
      /\ LET error == rules.badStatus \/ (~Known(a, e.c) /\ ~rules.adopts) IN
         /\ FailIf(error)
         /\ acct' = IF error THEN a
                    ELSE ConfirmNewOrder(IF Known(a, e.c) THEN a
                                         ELSE NewOrder(a, e.c, "Buy", "Limit", 1, e.qty),
                                         e.c, e.id, 0)
    BY DEF OnNew, Settle
<1>2. /\ Linked(a) /\ q \in Seq(Event) /\ q # <<>> /\ e = q[1] /\ e.ev = "new"
      /\ e.c \in ClIDs /\ e.id = IdOf[e.c] /\ e.qty \in Lots /\ Following
      /\ Confirmable(q, call) /\ Heard(call, e.c)
      /\ \A d \in ClIDs : Alone(q, call, d) /\ OnTrack(a, exch[d], q, call, d)
      /\ exch[e.c].at = "Live" => exch[e.c].id = IdOf[e.c]
    BY <1>1, MessageBefore
<1> PICK c, qty : c = e.c /\ qty = e.qty
    OBVIOUS
<1>3. ~(rules.badStatus \/ (~Known(a, c) /\ ~rules.adopts))
    BY <1>1 DEF FailIf, Following
<1>4. CASE Known(a, c)
  <2>1. PICK b : b = ConfirmNewOrder(a, c, IdOf[c], 0)
      OBVIOUS
  <2>2. acct' = b
      BY <1>1, <1>2, <1>3, <1>4, <2>1
  <2>3. c \in a.ordersClID
      BY <1>2, <1>4, FindsOwn
  <2>4. Only(a, b, c)
      BY <1>2, <2>1, ConfirmNewOrderOnly
  <2>5. Alone(Tail(q), call, c) /\ OnTrack(b, exch[c], Tail(q), call, c)
      BY <1>2, <2>1, <2>3, NewTail
  <2> QED
      BY <1>1, <1>2, <2>2, <2>4, <2>5, MessageTrack
<1>5. CASE ~Known(a, c)
  <2>1. PICK b : b = ConfirmNewOrder(NewOrder(a, c, "Buy", "Limit", 1, qty), c, IdOf[c], 0)
      OBVIOUS
  <2>2. acct' = b
      BY <1>1, <1>2, <1>3, <1>5, <2>1
  <2>3. c \notin a.ordersClID
      BY <1>2, <1>5, FindsOwn
  <2>4. rules.replace # "stream"
      BY <1>2, <1>3, <1>5 DEF Telling, Following, Carries
  <2>5. ~Engaged(q, call, c)
      BY <1>2, <2>4 DEF Confirmable, Engaged, Amending, Claimed
  <2>6. Only(a, b, c) /\ Alone(Tail(q), call, c) /\ OnTrack(b, exch[c], Tail(q), call, c)
      BY <1>2, <2>1, <2>3, <2>5, EnteredTail
  <2> QED
      BY <1>1, <1>2, <2>2, <2>6, MessageTrack
<1> QED
    BY <1>4, <1>5

\* A fill.
LEMMA OnTradeTrack ==
    ASSUME IInv, Tracking, OnTrade
    PROVE  Tracking'
<1> SUFFICES ASSUME Following' PROVE Tracking'
    BY DEF Tracking
<1> PICK a, q, e : a = acct /\ q = stream.q /\ e = Head(stream.q)
    OBVIOUS
<1> PICK c, qty : c = e.c /\ qty = e.qty
    OBVIOUS
<1>1. PICK k : k = IF rules.fillsBy = "client id" THEN e.c ELSE e.id
    OBVIOUS
<1>2. /\ Handle("trade") /\ FailIf(ConfirmFillError(a, k, qty))
      /\ acct' = IF ConfirmFillError(a, k, qty) THEN a ELSE ConfirmFill(a, k, qty)
    BY <1>1 DEF OnTrade, Settle
<1>3. /\ Linked(a) /\ q \in Seq(Event) /\ q # <<>> /\ e = q[1] /\ e.ev = "trade"
      /\ c \in ClIDs /\ e.id = IdOf[c] /\ qty \in Lots /\ Heard(call, c)
      /\ Alone(q, call, c) /\ OnTrack(a, exch[c], q, call, c)
    BY <1>2, MessageBefore
<1>4. ~ConfirmFillError(a, k, qty)
    BY <1>2 DEF FailIf, Following
<1>5. PICK b : b = ConfirmFill(a, k, qty) /\ acct' = b
    BY <1>2, <1>4
<1>6. Known(a, k) /\ Find(a, k) = c
  <2>1. k = c \/ k = IdOf[c]
      BY <1>1, <1>3
  <2>2. Known(a, k)
      BY <1>4 DEF ConfirmFillError
  <2>3. /\ Known(a, c) => Find(a, c) = c
        /\ Known(a, IdOf[c]) => Find(a, IdOf[c]) = c
      BY <1>3, FindsOwn
  <2> QED
      BY <2>1, <2>2, <2>3
<1>7. qty <= a.orders[c].leaves
  <2>1. a.orders[c] \in Order
      BY <1>3 DEF Linked, AccountInv, AccountType
  <2>2. PICK n \in Nat : n = a.orders[c].leaves
      BY <2>1 DEF Order
  <2>3. qty \in Int
      BY <1>3, AccountConstants DEF Lots
  <2>4. ~(qty > n)
      BY <1>4, <1>6, <2>2 DEF ConfirmFillError
  <2> QED
      BY <2>2, <2>3, <2>4
<1>8. /\ Only(a, b, c) /\ Alone(Tail(q), call, c) /\ OnTrack(b, exch[c], Tail(q), call, c)
    BY <1>3, <1>5, <1>6, <1>7, TradeTail
<1> QED
    BY <1>2, <1>3, <1>5, <1>8, MessageTrack

\* A replacement that is confirmed.
LEMMA OnReplacedTrack ==
    ASSUME IInv, Tracking, OnReplaced
    PROVE  Tracking'
<1> SUFFICES ASSUME Following' PROVE Tracking'
    BY DEF Tracking
<1> PICK a, q, c : a = acct /\ q = stream.q /\ c = Head(stream.q).c
    OBVIOUS
<1>1. /\ Handle("replaced") /\ FailIf(NotPendingReplace(a, c))
      /\ acct' = IF NotPendingReplace(a, c) THEN a ELSE ConfirmReplaceOrder(a, c, NoID)
    BY DEF OnReplaced, Replaced
<1>2. /\ Linked(a) /\ q \in Seq(Event) /\ q # <<>> /\ c = q[1].c /\ q[1].ev = "replaced"
      /\ c \in ClIDs /\ Heard(call, c)
      /\ \A d \in ClIDs : Alone(q, call, d) /\ OnTrack(a, exch[d], q, call, d)
    BY <1>1, MessageBefore
<1>3. ~NotPendingReplace(a, c)
    BY <1>1 DEF FailIf, Following
<1>4. PICK b : b = ConfirmReplaceOrder(a, c, NoID) /\ acct' = b
    BY <1>1, <1>3
<1>5. Only(a, b, c) /\ Alone(Tail(q), call, c) /\ OnTrack(b, exch[c], Tail(q), call, c)
    BY <1>2, <1>3, <1>4, ReplacedTail
<1> QED
    BY <1>1, <1>2, <1>4, <1>5, MessageTrack

\* An order that is done at the venue.
LEMMA OnClosedTrack ==
    ASSUME IInv, Tracking, OnCanceled \/ OnExpired
    PROVE  Tracking'
<1> SUFFICES ASSUME Following' PROVE Tracking'
    BY DEF Tracking
<1> PICK a, q, c : a = acct /\ q = stream.q /\ c = Head(stream.q).c
    OBVIOUS
<1>1. PICK kind \in {"canceled", "expired"} :
          /\ Handle(kind)
          /\ \E error : /\ FailIf(error) /\ (~error => Known(a, c))
                        /\ acct' = IF error THEN a
                                   ELSE IF kind = "canceled" THEN ConfirmCancelOrder(a, c)
                                   ELSE ConfirmExpiredOrder(a, c)
    BY DEF OnCanceled, OnExpired, Settle
<1>2. /\ Linked(a) /\ q \in Seq(Event) /\ q # <<>> /\ c = q[1].c /\ q[1].ev = kind
      /\ c \in ClIDs /\ Heard(call, c) /\ exch[c].at = "Done"
      /\ Alone(q, call, c) /\ OnTrack(a, exch[c], q, call, c)
    BY <1>1, MessageBefore
<1>3. /\ Known(a, c)
      /\ acct' = IF kind = "canceled" THEN ConfirmCancelOrder(a, c)
                 ELSE ConfirmExpiredOrder(a, c)
    BY <1>1 DEF FailIf, Following
<1>4. PICK b : /\ b = (IF kind = "canceled" THEN ConfirmCancelOrder(a, c)
                       ELSE ConfirmExpiredOrder(a, c))
               /\ acct' = b
    BY <1>3
<1>5. Bland(q[1], c)
    BY <1>2 DEF Bland
<1>6. Alone(Tail(q), call, c) /\ OnTrack(a, exch[c], Tail(q), call, c)
    BY <1>2, <1>5, BlandTail
<1>7. Find(a, c) = c
    BY <1>2, <1>3, FindsOwn
<1>8. OnTrack(b, exch[c], Tail(q), call, c)
    BY <1>2, <1>3, <1>4, <1>6, <1>7, ClosedTrack
<1>9. Only(a, b, c)
    BY <1>2, <1>3, <1>4, <1>7, ClosedLinked
<1> QED
    BY <1>1, <1>2, <1>4, <1>6, <1>8, <1>9, MessageTrack

\* A refusal that is told on the stream.
LEMMA OnRejectedTrack ==
    ASSUME IInv, Tracking, OnRejected
    PROVE  Tracking'
<1> SUFFICES ASSUME Following' PROVE Tracking'
    BY DEF Tracking
<1> PICK a, q, c : a = acct /\ q = stream.q /\ c = Head(stream.q).c
    OBVIOUS
<1>1. /\ Handle("rejected") /\ FailIf(RejectNewOrderError(a, c))
      /\ acct' = IF RejectNewOrderError(a, c) THEN a ELSE RejectNewOrder(a, c)
    BY DEF OnRejected, Settle
<1>2. /\ Linked(a) /\ q \in Seq(Event) /\ q # <<>> /\ c = q[1].c /\ q[1].ev = "rejected"
      /\ c \in ClIDs /\ Alone(q, call, c) /\ OnTrack(a, exch[c], q, call, c)
      /\ exch[c].at = "Live" => exch[c].id \in ExIDs
    BY <1>1, MessageBefore
<1>3. ~RejectNewOrderError(a, c)
    BY <1>1 DEF FailIf, Following
<1>4. PICK b : b = RejectNewOrder(a, c) /\ acct' = b
    BY <1>1, <1>3
<1>5. Bland(q[1], c)
    BY <1>2 DEF Bland
<1>6. Alone(Tail(q), call, c) /\ OnTrack(a, exch[c], Tail(q), call, c)
    BY <1>2, <1>5, BlandTail
<1>7. OnTrack(b, exch[c], Tail(q), call, c)
    BY <1>2, <1>4, <1>6, DropTrack
<1>8. Only(a, b, c)
    BY <1>2, <1>3, <1>4, DropLinked DEF RejectNewOrderError
<1> QED
    BY <1>1, <1>2, <1>4, <1>6, <1>7, <1>8, MessageTrack

\* An order that was filled at once.
LEMMA OnFilledTrack ==
    ASSUME IInv, Tracking, OnFilled
    PROVE  Tracking'
<1> SUFFICES ASSUME Following' PROVE Tracking'
    BY DEF Tracking
<1> PICK a, q, e : a = acct /\ q = stream.q /\ e = Head(stream.q)
    OBVIOUS
<1> PICK c : c = e.c
    OBVIOUS
<1>1. /\ Handle("filled")
      /\ \E error : /\ FailIf(error) /\ (~error => Known(a, c))
                    /\ acct' = IF error THEN a ELSE ConfirmNewOrder(a, c, e.id, 0)
    BY DEF OnFilled, Settle
<1>2. /\ Linked(a) /\ q \in Seq(Event) /\ q # <<>> /\ e = q[1] /\ e.ev = "filled"
      /\ c \in ClIDs /\ e.id = IdOf[c] /\ Heard(call, c)
      /\ Alone(q, call, c) /\ OnTrack(a, exch[c], q, call, c)
      /\ exch[c].at = "Live" => exch[c].id = IdOf[c]
    BY <1>1, MessageBefore
<1>3. Known(a, c) /\ acct' = ConfirmNewOrder(a, c, IdOf[c], 0)
    BY <1>1, <1>2 DEF FailIf, Following
<1>4. PICK b : b = ConfirmNewOrder(a, c, IdOf[c], 0) /\ acct' = b
    BY <1>3
<1>5. Bland(q[1], c) /\ c \in a.ordersClID
    BY <1>2, <1>3, FindsOwn DEF Bland
<1>6. Alone(Tail(q), call, c) /\ OnTrack(a, exch[c], Tail(q), call, c)
    BY <1>2, <1>5, BlandTail
<1>7. OnTrack(b, exch[c], Tail(q), call, c)
    BY <1>2, <1>4, <1>5, <1>6, ConfirmTrack
<1>8. Only(a, b, c)
    BY <1>2, <1>4, ConfirmNewOrderOnly
<1> QED
    BY <1>1, <1>2, <1>4, <1>6, <1>7, <1>8, MessageTrack

\* Every message of the stream.
LEMMA WebsocketTrack ==
    ASSUME IInv, Tracking, Telling(rules), OnWebsocketMessage
    PROVE  Tracking'
BY OnNewTrack, OnTradeTrack, OnClosedTrack, OnRejectedTrack, OnReplacedTrack, OnFilledTrack
   DEF OnWebsocketMessage

----------------------------------------------------------------------------
(***************************************************************************)
(* Ticks, restarts, and the orders that are found.                         *)
(***************************************************************************)

\* A new socket, after one that was lost.
LEMMA CheckSocketTrack ==
    ASSUME IInv, Tracking, CheckSocket
    PROVE  Tracking'
<1> SUFFICES ASSUME Following' PROVE FALSE
    BY DEF Tracking
<1>1. ~stream.up /\ phase = "running" /\ rules' = rules /\ (spotless' => spotless)
    BY DEF CheckSocket, SyncAccount
<1>2. stream.up
    BY <1>1, TrackedBefore
<1> QED
    BY <1>1, <1>2

\* A listener that was restarted has a snapshot.
LEMMA RestartTrack ==
    ASSUME Restart
    PROVE  Tracking'
BY DEF Restart, SyncAccount, Tracking, Following

\* Orders that age and are cleaned away; or a snapshot is taken.
LEMMA CheckAccountTrack ==
    ASSUME IInv, Tracking, CheckAccount
    PROVE  Tracking'
<1> SUFFICES ASSUME Following' PROVE Tracking'
    BY DEF Tracking
<1> PICK a : a = acct
    OBVIOUS
<1>1. PICK old \in SUBSET Ageing : Check(old)
    BY DEF CheckAccount
<1>2. /\ stream' = stream /\ exch' = exch /\ call' = call /\ rules' = rules
      /\ phase = "running" /\ Linked(a)
    BY DEF CheckAccount, IInv
<1>3. ~SyncAccount
    BY DEF SyncAccount, Following
<1>4. /\ acct' = IF rules.expires THEN CleanOrders(Aged(old)) ELSE a
      /\ spotless' = spotless
    BY <1>1, <1>3 DEF Check
<1>5. /\ stream.up /\ Planned(exch, stream.q, call) /\ Confirmable(stream.q, call)
      /\ \A d \in ClIDs : Alone(stream.q, call, d) /\ OnTrack(a, exch[d], stream.q, call, d)
    BY <1>2, <1>4, TrackedBefore
<1>6. PICK m : m = [op |-> "age", with |-> 0]
    OBVIOUS
<1>7. PICK b : b = AllOf(m, a, old)
    OBVIOUS
<1>8. Aged(old) = b
  <2>1. FoldSet(LAMBDA c, d : Age(d, c), a, old) = AllOf(m, a, old)
      BY <1>6, AgesAre
  <2> QED
      BY <1>7, <2>1 DEF Aged
<1>9. old \in SUBSET ClIDs /\ \A c \in old : Fits(m, a, c)
  <2>1. old \in SUBSET ClIDs /\ \A c \in old : a.orders[c].status # "Blank"
      BY DEF Ageing, PendingStatus, ClosedStatus
  <2>2. \A c \in old : Referenced(a, c)
      BY <1>2, <2>1, HeapIsReferenced DEF Linked
  <2> QED
      BY <1>6, <2>1, <2>2 DEF Fits
<1>10. ASSUME NEW c \in old, NEW x, Linked(x), OnTrack(x, exch[c], stream.q, call, c)
       PROVE  OnTrack(Method(m, x, c), exch[c], stream.q, call, c)
  <2>1. c \in ClIDs /\ (exch[c].at = "Live" => exch[c].id \in ExIDs)
      BY <1>9, LiveIDs
  <2>2. OnTrack(Age(x, c), exch[c], stream.q, call, c)
      BY <1>10, <2>1, AgeTrack
  <2> QED
      BY <1>6, <2>2 DEF Method
<1>11. Linked(b) /\ \A d \in ClIDs : OnTrack(b, exch[d], stream.q, call, d)
  <2>1. \A d \in ClIDs : exch[d].at = "Live" => exch[d].id \in ExIDs
      BY LiveIDs
  <2>2. /\ \A d \in old : OnTrack(a, exch[d], stream.q, call, d)
        /\ \A d \in ClIDs \ old : OnTrack(a, exch[d], stream.q, call, d)
      BY <1>5, <1>9
  <2> QED
      BY <1>2, <1>7, <1>9, <1>10, <2>1, <2>2, FoldTrack
<1>12. \A d \in ClIDs : OnTrack(CleanOrders(b), exch[d], stream.q, call, d)
    BY <1>11, LiveIDs, CleanTrack
<1>13. \A d \in ClIDs : OnTrack(acct', exch[d], stream.q, call, d)
    BY <1>4, <1>5, <1>8, <1>12
<1> QED
    BY <1>2, <1>5, <1>13, TrackingStep

\* Nothing has happened yet.
LEMMA InitTrack == Init => Tracking
<1> SUFFICES ASSUME Init PROVE Tracking
    OBVIOUS
<1>1. /\ stream.up /\ stream.q = <<>> /\ Len(stream.q) = 0
      /\ \A k \in Kinds : call[k] = NoCall
      /\ \A c \in ClIDs : exch[c].at = "None" /\ acct.orders[c] = Blank
    BY DEF Init, NewAccount
<1>2. ~NoCall.sent /\ NoCall.ans = "none" /\ NoCall.cs = {}
    BY DEF NoCall
<1>3. {"new", "bulk"} \subseteq Kinds /\ Replacements \subseteq Kinds
      /\ "replace" \in Kinds /\ "bulkReplace" \in Kinds
    BY DEF Kinds, Replacements
<1>4. Planned(exch, stream.q, call) /\ Confirmable(stream.q, call)
    BY <1>1, <1>2, <1>3 DEF Planned, Confirmable
<1>5. ASSUME NEW c \in ClIDs PROVE Alone(stream.q, call, c) /\ ~Engaged(stream.q, call, c)
    BY <1>1, <1>2, <1>3 DEF Alone, Engaged, Amending, Claimed
<1>6. Blank.status = "Blank"
    BY DEF Blank
<1>7. ASSUME NEW c \in ClIDs PROVE OnTrack(acct, exch[c], stream.q, call, c)
    BY <1>1, <1>2, <1>3, <1>5, <1>6 DEF OnTrack
<1> QED
    BY <1>1, <1>4, <1>5, <1>7 DEF Tracking, AllOnTrack

\* Every step keeps the live orders on their tracks.
LEMMA TrackStep == IInv /\ Tracking /\ Telling(rules) /\ [Next]_vars => Tracking'
<1> SUFFICES ASSUME IInv, Tracking, Telling(rules), [Next]_vars PROVE Tracking'
    OBVIOUS
<1>1. CASE Users
    BY <1>1, UsersTrack
<1>2. CASE \/ \E k \in Kinds : Arrives(k)
           \/ SweepArrives
           \/ \E k \in Kinds : LoseAnswer(k)
           \/ \E c \in ClIDs, qty \in Lots : Trade(c, qty)
           \/ SocketFails
    BY <1>2, VenueTrack
<1>3. CASE Continuation
    BY <1>3, ContinuationTrack
<1>4. CASE OnWebsocketMessage
    BY <1>4, WebsocketTrack
<1>5. CASE CheckSocket \/ CheckAccount \/ Restart
    BY <1>5, CheckSocketTrack, CheckAccountTrack, RestartTrack
<1>6. CASE UNCHANGED vars
    BY <1>6 DEF vars, Tracking, Following, Carries, AllOnTrack, Confirmable
<1> QED
    BY <1>1, <1>2, <1>3, <1>4, <1>5, <1>6 DEF Next, System

\* With nothing in flight, an order's track ends where the account is.
LEMMA TrackedIsFound == IInv /\ Tracking => LiveOrdersTracked
<1> SUFFICES ASSUME IInv, Tracking, Following, Quiet, NEW c \in ClIDs, Live(c)
             PROVE  /\ acct.ordersID[exch[c].id] = c
                    /\ acct.orders[c].status \notin ClosedStatus
                    /\ acct.orders[c].leaves = exch[c].leaves
    BY DEF LiveOrdersTracked, Following
<1>1. stream.q = <<>> /\ Len(stream.q) = 0
    BY DEF Quiet
<1>2. Followed(acct, exch[c], stream.q, c)
    BY DEF Tracking, AllOnTrack, OnTrack, Live
<1>3. PICK f : /\ History(f, stream.q, exch[c], c)
               /\ \/ Mine(acct, exch[c], c, f[0])
                  \/ Awaited(acct, stream.q, c, f[0])
    BY <1>2 DEF Followed
<1>4. f[0] = exch[c].leaves
    BY <1>1, <1>3 DEF History
<1>5. ~Awaited(acct, stream.q, c, f[0])
    BY <1>1 DEF Awaited
<1> QED
    BY <1>3, <1>4, <1>5 DEF Mine

\* A listener that hears of fills, and with nothing in flight, finds every order that
\* works at the venue by the venue's id, open, with exactly the quantity it has left:
\* through partial fills, amendments that are confirmed and amendments that are
\* refused, answers and events in every order, and messages of orders it forgot.
THEOREM VenueOrdersFound ==
    ASSUME \A r \in VenueRules : Telling(r)
    PROVE  Spec => []LiveOrdersTracked
<1>1. IInv => Telling(rules)
    BY DEF IInv, StateTypes
<1>2. IInv /\ Tracking /\ [Next]_vars => Tracking'
    BY <1>1, TrackStep
<1> QED
    BY <1>2, InitTrack, TrackedIsFound, VenueOrdersInvariant, PTL DEF Spec

\* The listeners of the six venues are such listeners: an order that works at its venue
\* is found, open, with exactly the quantity it has left.
COROLLARY SixVenuesFindOrders ==
    ASSUME VenueRules \subseteq {fbinance, binance, bitmex, krakenf, bybitl, dydx}
    PROVE  Spec => []LiveOrdersTracked
<1>1. \A r \in VenueRules : Telling(r)
    BY AllAreTelling
<1> QED
    BY <1>1, VenueOrdersFound
=============================================================================
