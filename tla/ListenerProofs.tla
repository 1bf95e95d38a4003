--------------------------- MODULE ListenerProofs ---------------------------
(***************************************************************************)
(* The theorems about AccountListener!Spec, for every number of orders,    *)
(* cancels and faults.  The listener shares its orders with the exchange   *)
(* by two channels that are not ordered with each other, so the inductive  *)
(* invariant is about both ends: what the exchange has done, what the      *)
(* answers and events under way say of it, and what the account makes of   *)
(* them.                                                                   *)
(***************************************************************************)
EXTENDS AccountListener, AccountOpsProofs

\* The types, with the socket as the record it is.
Types0 ==
    /\ {pos, fetched, exchPos} \subseteq Int
    /\ phase \in {"subscribe", "positions", "orders", "running", "failed"}
    /\ future \in [ClIDs -> [new : {"none", "waiting"} \cup NewAnswers,
                             cancel : {"none", "waiting"} \cup CancelAnswers]]
    /\ owed \subseteq {"new", "cancel"} \X ClIDs
    /\ socket \in [up : BOOLEAN, q : Seq(Event)]
    /\ exch \in [ClIDs -> ExchangeOrder]
    /\ cancels \subseteq ClIDs
    /\ {mass, seamless, hasty} \subseteq BOOLEAN
    /\ sent \in 0..MaxCancels /\ faults \in 0..MaxFaults

\* An order gets its id when the exchange accepts it, an id of its own; it has
\* something left while it is live, and no more than was ordered.
ExchangeSound(c) ==
    /\ exch[c].at \in {"None", "Sent"} => exch[c].id = NoID
    /\ exch[c].at = "Sent" => exch[c].cum = 0
    /\ exch[c].at = "Live" => exch[c].id # NoID /\ exch[c].leaves > 0
    /\ exch[c].at # "None" => exch[c].leaves + exch[c].cum \in Lots
    /\ \A d \in ClIDs \ {c} : exch[d].id = exch[c].id => exch[c].id = NoID

\* What the futures of an order hold has happened.
AnswersTrue(c) ==
    /\ future[c].new \in {"New", "Filled", "Expired"} => exch[c].id # NoID
    /\ future[c].new = "Expired" \/ future[c].cancel = "ok" => exch[c].at = "Done"

\* What an event of the stream says has happened.
EventTrue(e) ==
    /\ e.id = exch[e.c].id
    /\ e.qty > 0 <=> e.ev = "trade"
    /\ e.ev \in {"canceled", "expired"} => exch[e.c].at = "Done"

EventsTrue == \A i \in 1..Len(socket.q) : EventTrue(socket.q[i])

\* What an account says of an order agrees with the exchange's order of that
\* client id, and with no other.
Agrees(a, c) ==
    /\ Referenced(a, c) => /\ exch[c].at # "None"
                           /\ a.orders[c].side = exch[c].side
                           /\ a.orders[c].type = exch[c].type
    /\ \A x \in ExIDs : a.ordersID[x] = c => exch[c].id = x
    /\ a.orders[c].id # NoID => a.orders[c].id = exch[c].id
    /\ a.orders[c].status \in {"Canceled", "Expired"} => exch[c].at = "Done"

Linked(a) == AccountInv(a) /\ \A c \in ClIDs : Agrees(a, c)

World == \A c \in ClIDs : ExchangeSound(c) /\ AnswersTrue(c)

IInv ==
    /\ Types0
    /\ World
    /\ EventsTrue
    /\ Linked(acct)
----------------------------------------------------------------------------
(***************************************************************************)
(* The two ends of the stream and of the futures.                          *)
(***************************************************************************)

\* What a step of the exchange never takes back.
Grows ==
    \A c \in ClIDs :
        /\ exch[c].id # NoID => exch'[c].id = exch[c].id
        /\ exch[c].at # "None" => /\ exch'[c].at # "None"
                                  /\ exch'[c].side = exch[c].side
                                  /\ exch'[c].type = exch[c].type
        /\ exch[c].at = "Done" => exch'[c].at = "Done"

\* The exchange's past does not change: what an event says stays true, and so does its worth.
LEMMA EventStaysTrue ==
    ASSUME World, Types0, Grows, NEW e \in Event, EventTrue(e)
    PROVE  EventTrue(e)' /\ Value(e)' = Value(e)
<1>1. e.c \in ClIDs /\ e.id # NoID
    BY AccountConstants DEF Event
<1>2. exch[e.c].at # "None" /\ exch[e.c].id # NoID
    BY <1>1 DEF World, ExchangeSound, EventTrue
<1> QED
    BY <1>1, <1>2 DEF Grows, EventTrue, Value, Signed

\* Emit appends, to a socket that is up.
LEMMA EmitShape ==
    ASSUME Types0, NEW events \in Seq(Event), Emit(events)
    PROVE  /\ socket' \in [up : BOOLEAN, q : Seq(Event)] /\ socket'.up = socket.up
           /\ socket.up => socket'.q = socket.q \o events
           /\ ~socket.up => socket'.q = socket.q
<1>1. socket \in [up : BOOLEAN, q : Seq(Event)] /\ socket.q \o events \in Seq(Event)
    BY DEF Types0
<1> QED
    BY <1>1 DEF Emit

\* If the events emitted are true, all that are in the stream then are.
LEMMA EmitTrue ==
    ASSUME World, Types0, EventsTrue, Grows, NEW events \in Seq(Event), Emit(events),
           \A i \in 1..Len(events) : EventTrue(events[i])'
    PROVE  EventsTrue'
<1>1. PICK q \in Seq(Event) : q = socket.q /\ socket'.q \in {q, q \o events}
    BY EmitShape DEF Types0
<1>2. ASSUME NEW i \in 1..Len(q) PROVE EventTrue(q[i])'
    BY <1>1, EventStaysTrue DEF EventsTrue
<1>3. ASSUME NEW i \in 1..Len(q \o events) PROVE EventTrue((q \o events)[i])'
  <2>1. CASE i \in 1..Len(q)
      BY <1>2, <2>1, Concatenation
  <2>2. CASE i \notin 1..Len(q)
    <3>1. PICK j \in 1..Len(events) : i = Len(q) + j
        BY <2>2, Concatenation
    <3>2. (q \o events)[i] = events[j]
        BY <3>1, Concatenation
    <3> QED
        BY <3>2
  <2> QED
      BY <2>1, <2>2
<1> QED
    BY <1>1, <1>2, <1>3 DEF EventsTrue

\* The answer of the exchange reaches a future that still waits.
LEMMA AnswerNewShape ==
    ASSUME Types0, NEW c \in ClIDs, NEW a \in NewAnswers, Answer("new", c, a)
    PROVE  /\ future' \in [ClIDs -> [new : {"none", "waiting"} \cup NewAnswers,
                                     cancel : {"none", "waiting"} \cup CancelAnswers]]
           /\ \A d \in ClIDs : /\ d # c => future'[d] = future[d]
                               /\ future'[d].cancel = future[d].cancel
                               /\ future'[d].new = future[d].new \/ (d = c /\ future'[d].new = a)
<1>1. future \in [ClIDs -> [new : {"none", "waiting"} \cup NewAnswers,
                            cancel : {"none", "waiting"} \cup CancelAnswers]]
    BY DEF Types0
<1>2. future' = future \/ future' = [future EXCEPT ![c].new = a]
    BY DEF Answer
<1> QED
    BY <1>1, <1>2

\* The answer to a cancel changes that future and no other.
LEMMA AnswerCancelShape ==
    ASSUME Types0, NEW c \in ClIDs, NEW a \in CancelAnswers, Answer("cancel", c, a)
    PROVE  /\ future' \in [ClIDs -> [new : {"none", "waiting"} \cup NewAnswers,
                                     cancel : {"none", "waiting"} \cup CancelAnswers]]
           /\ \A d \in ClIDs : /\ d # c => future'[d] = future[d]
                               /\ future'[d].new = future[d].new
                               /\ future'[d].cancel = future[d].cancel
                                     \/ (d = c /\ future'[d].cancel = a)
<1>1. future \in [ClIDs -> [new : {"none", "waiting"} \cup NewAnswers,
                            cancel : {"none", "waiting"} \cup CancelAnswers]]
    BY DEF Types0
<1>2. future' = future \/ future' = [future EXCEPT ![c].cancel = a]
    BY DEF Answer
<1> QED
    BY <1>1, <1>2

\* One order of the exchange changes.
LEMMA ExchangeMoves ==
    ASSUME World, Types0, NEW c \in ClIDs, NEW r \in ExchangeOrder,
           exch' = [exch EXCEPT ![c] = r],
           r.id = exch[c].id \/ (exch[c].id = NoID /\ FreshID(r.id)),
           r.at # "None" /\ (r.at = "Sent" => r.id = NoID),
           exch[c].at # "None" => r.side = exch[c].side /\ r.type = exch[c].type,
           exch[c].at = "Done" => r.at = "Done",
           r.at = "Sent" => r.cum = 0,
           r.at = "Live" => r.id # NoID /\ r.leaves > 0,
           r.leaves + r.cum \in Lots
    PROVE  exch' \in [ClIDs -> ExchangeOrder] /\ Grows /\ \A d \in ClIDs : ExchangeSound(d)'
<1>1. exch \in [ClIDs -> ExchangeOrder]
    BY DEF Types0
<1>2. /\ exch' \in [ClIDs -> ExchangeOrder] /\ exch'[c] = r
      /\ \A d \in ClIDs \ {c} : exch'[d] = exch[d]
    BY <1>1
<1>3. Grows
    BY <1>2 DEF Grows
<1>4. \A d \in ClIDs : ExchangeSound(d)
    BY DEF World
<1>5. ASSUME NEW d \in ClIDs PROVE ExchangeSound(d)'
  <2>1. /\ exch'[d].at \in {"None", "Sent"} => exch'[d].id = NoID
        /\ exch'[d].at = "Sent" => exch'[d].cum = 0
        /\ exch'[d].at = "Live" => exch'[d].id # NoID /\ exch'[d].leaves > 0
        /\ exch'[d].at # "None" => exch'[d].leaves + exch'[d].cum \in Lots
      BY <1>2, <1>4 DEF ExchangeSound
  <2>2. \A e \in ClIDs \ {d} : exch'[e].id = exch'[d].id => exch'[d].id = NoID
      BY <1>2, <1>4 DEF ExchangeSound, FreshID
  <2> QED
      BY <2>1, <2>2 DEF ExchangeSound
<1> QED
    BY <1>2, <1>3, <1>5

\* What the answers say stays true, unless a new one is wrong.
LEMMA AnswersStayTrue ==
    ASSUME World, Grows, NEW d \in ClIDs,
           future'[d].new = future[d].new
              \/ (/\ future'[d].new \in {"New", "Filled", "Expired"} => exch'[d].id # NoID
                  /\ future'[d].new = "Expired" => exch'[d].at = "Done"),
           future'[d].cancel = future[d].cancel
              \/ (future'[d].cancel = "ok" => exch'[d].at = "Done")
    PROVE  AnswersTrue(d)'
BY DEF World, Grows, AnswersTrue

\* A step leaves the exchange, the answers and the events consistent.
Outside == Types0' /\ World' /\ EventsTrue' /\ Grows

\* The parts of Outside, which every step outside the account is shown to establish.
LEMMA OutsideFromParts ==
    ASSUME Types0, Grows, EventsTrue',
           exch' \in [ClIDs -> ExchangeOrder],
           future' \in [ClIDs -> [new : {"none", "waiting"} \cup NewAnswers,
                                  cancel : {"none", "waiting"} \cup CancelAnswers]],
           socket' \in [up : BOOLEAN, q : Seq(Event)],
           \A d \in ClIDs : ExchangeSound(d)', \A d \in ClIDs : AnswersTrue(d)',
           exchPos' \in Int, cancels' \subseteq ClIDs, mass' \in BOOLEAN,
           UNCHANGED <<pos, phase, fetched, owed>>, seamless' \in BOOLEAN, hasty' \in BOOLEAN,
           sent' \in 0..MaxCancels, faults' \in 0..MaxFaults
    PROVE  Outside
BY DEF Outside, Types0, World

\* What the exchange may emit: one event, or two.
LEMMA HappenedShape ==
    ASSUME NEW c \in ClIDs, NEW x \in ExIDs, NEW qty \in 0..MaxLots,
           NEW k \in {"new", "trade", "canceled", "expired"}
    PROVE  /\ Happened(k, c, x, qty) \in Event
           /\ Happened(k, c, x, qty).ev = k /\ Happened(k, c, x, qty).c = c
           /\ Happened(k, c, x, qty).id = x /\ Happened(k, c, x, qty).qty = qty
BY DEF Happened, Event

\* A step of the exchange that emits one true event.
LEMMA OneEventTrue ==
    ASSUME NEW n \in Event, EventTrue(n)', World, Types0, EventsTrue, Grows, Emit(<<n>>)
    PROVE  EventsTrue' /\ socket' \in [up : BOOLEAN, q : Seq(Event)]
<1>0. <<n>> \in Seq(Event) /\ Len(<<n>>) = 1 /\ <<n>>[1] = n
    BY Singletons
<1>1. PICK es \in Seq(Event) : es = <<n>> /\ Len(es) = 1 /\ es[1] = n
    BY <1>0
<1>2. \A i \in 1..Len(es) : EventTrue(es[i])'
    BY <1>1
<1> QED
    BY <1>1, <1>2, EmitTrue, EmitShape

\* A step of the exchange that emits two true events.
LEMMA TwoEventsTrue ==
    ASSUME NEW n \in Event, EventTrue(n)', NEW m \in Event, EventTrue(m)',
           World, Types0, EventsTrue, Grows, Emit(<<n, m>>)
    PROVE  EventsTrue' /\ socket' \in [up : BOOLEAN, q : Seq(Event)]
<1>0. <<n, m>> \in Seq(Event) /\ Len(<<n, m>>) = 2 /\ <<n, m>>[1] = n /\ <<n, m>>[2] = m
    BY Singletons
<1>1. PICK es \in Seq(Event) : es = <<n, m>> /\ Len(es) = 2 /\ es[1] = n /\ es[2] = m
    BY <1>0
<1>2. \A i \in 1..Len(es) : EventTrue(es[i])'
    BY <1>1
<1> QED
    BY <1>1, <1>2, EmitTrue, EmitShape

\* The exchange takes a new order, or fills it at once: its events and the answer tell the truth.
LEMMA AcceptOutside ==
    ASSUME World, Types0, EventsTrue, NEW c \in ClIDs, Accept(c)
    PROVE  Outside
<1>1. PICK x \in ExIDs :
        /\ FreshID(x)
        /\ \/ /\ exch' = [exch EXCEPT ![c] = [@ EXCEPT !.at = "Live", !.id = x]]
              /\ Emit(<<Happened("new", c, x, 0)>>)
              /\ Answer("new", c, "New")
              /\ exchPos' = exchPos
           \/ /\ exch' = [exch EXCEPT ![c] = [@ EXCEPT !.at = "Done", !.id = x, !.leaves = 0,
                                                       !.cum = exch[c].leaves]]
              /\ Emit(<<Happened("new", c, x, 0), Happened("trade", c, x, exch[c].leaves)>>)
              /\ Answer("new", c, "Filled")
              /\ exchPos' = exchPos + Signed(exch[c].side, exch[c].leaves)
           \/ /\ exch' = [exch EXCEPT ![c] = [@ EXCEPT !.at = "Done", !.id = x]]
              /\ Emit(<<Happened("new", c, x, 0), Happened("expired", c, x, 0)>>)
              /\ Answer("new", c, "Expired")
              /\ exchPos' = exchPos
    BY DEF Accept
<1>2. /\ exch[c] \in ExchangeOrder /\ exch[c].at = "Sent" /\ exch[c].id = NoID
      /\ exch[c].cum = 0 /\ exch[c].leaves \in Lots /\ x # NoID /\ FreshID(x)
      /\ 0 \in 0..MaxLots /\ exch[c].leaves \in 0..MaxLots /\ exch[c].leaves > 0
    BY <1>1, AccountConstants DEF Accept, World, ExchangeSound, Types0, Lots, ExchangeOrder
<1>3. UNCHANGED <<acct, pos, phase, fetched, owed, cancels, mass, seamless, count>>
    BY DEF Accept
\* Whatever the outcome, the order has its id and the answer says so.
<1>4. ASSUME NEW r \in ExchangeOrder, exch' = [exch EXCEPT ![c] = r],
             r.id = x, r.at \in {"Live", "Done"}, r.side = exch[c].side, r.type = exch[c].type,
             r.at = "Live" => r.leaves > 0, r.leaves + r.cum \in Lots,
             NEW a \in {"New", "Filled", "Expired"}, Answer("new", c, a),
             a = "Expired" => r.at = "Done"
      PROVE  /\ exch' \in [ClIDs -> ExchangeOrder] /\ Grows /\ exch'[c] = r
             /\ \A d \in ClIDs : ExchangeSound(d)'
             /\ future' \in [ClIDs -> [new : {"none", "waiting"} \cup NewAnswers,
                                       cancel : {"none", "waiting"} \cup CancelAnswers]]
             /\ \A d \in ClIDs : AnswersTrue(d)'
  <2>1. exch' \in [ClIDs -> ExchangeOrder] /\ Grows /\ \A d \in ClIDs : ExchangeSound(d)'
      BY <1>2, <1>4, ExchangeMoves
  <2>2. exch'[c] = r
      BY <1>4 DEF Types0
  <2>3. a \in NewAnswers
      BY DEF NewAnswers
  <2>4. ASSUME NEW d \in ClIDs PROVE AnswersTrue(d)'
      BY <1>2, <1>4, <2>1, <2>2, <2>3, AnswerNewShape, AnswersStayTrue
  <2> QED
      BY <1>4, <2>1, <2>2, <2>3, <2>4, AnswerNewShape
<1>5. ASSUME Grows, exch' \in [ClIDs -> ExchangeOrder], EventsTrue',
             socket' \in [up : BOOLEAN, q : Seq(Event)],
             future' \in [ClIDs -> [new : {"none", "waiting"} \cup NewAnswers,
                                    cancel : {"none", "waiting"} \cup CancelAnswers]],
             \A d \in ClIDs : ExchangeSound(d)', \A d \in ClIDs : AnswersTrue(d)',
             exchPos' \in Int
      PROVE  Outside
    BY <1>3, <1>5, OutsideFromParts DEF Types0, count
<1>6. CASE /\ exch' = [exch EXCEPT ![c] = [@ EXCEPT !.at = "Live", !.id = x]]
           /\ Emit(<<Happened("new", c, x, 0)>>)
           /\ Answer("new", c, "New")
           /\ exchPos' = exchPos
  <2> DEFINE r == [exch[c] EXCEPT !.at = "Live", !.id = x]
  <2>1. /\ r \in ExchangeOrder /\ r.at = "Live" /\ r.id = x /\ r.side = exch[c].side
        /\ r.type = exch[c].type /\ r.leaves = exch[c].leaves /\ r.cum = 0
      BY <1>2 DEF ExchangeOrder
  <2>2. exch' = [exch EXCEPT ![c] = r] /\ Answer("new", c, "New")
      BY <1>6
  <2>3. r.leaves + r.cum \in Lots /\ r.leaves > 0
      BY <1>2, <2>1 DEF Lots
  <2> HIDE DEF r
  <2>4. /\ exch' \in [ClIDs -> ExchangeOrder] /\ Grows /\ exch'[c] = r
        /\ \A d \in ClIDs : ExchangeSound(d)'
        /\ future' \in [ClIDs -> [new : {"none", "waiting"} \cup NewAnswers,
                                  cancel : {"none", "waiting"} \cup CancelAnswers]]
        /\ \A d \in ClIDs : AnswersTrue(d)'
      BY <1>4, <2>1, <2>2, <2>3
  <2>5. PICK n \in Event : n = Happened("new", c, x, 0) /\ EventTrue(n)'
      BY <1>2, <2>1, <2>4, HappenedShape DEF EventTrue
  <2>6. EventsTrue' /\ socket' \in [up : BOOLEAN, q : Seq(Event)]
      BY <1>6, <2>4, <2>5, OneEventTrue
  <2> QED
      BY <1>5, <1>6, <2>4, <2>6 DEF Types0
<1>7. CASE /\ exch' = [exch EXCEPT ![c] = [@ EXCEPT !.at = "Done", !.id = x, !.leaves = 0,
                                                    !.cum = exch[c].leaves]]
           /\ Emit(<<Happened("new", c, x, 0), Happened("trade", c, x, exch[c].leaves)>>)
           /\ Answer("new", c, "Filled")
           /\ exchPos' = exchPos + Signed(exch[c].side, exch[c].leaves)
  <2> DEFINE r == [exch[c] EXCEPT !.at = "Done", !.id = x, !.leaves = 0, !.cum = exch[c].leaves]
  <2>1. /\ r \in ExchangeOrder /\ r.at = "Done" /\ r.id = x /\ r.side = exch[c].side
        /\ r.type = exch[c].type /\ r.leaves = 0 /\ r.cum = exch[c].leaves
      BY <1>2 DEF ExchangeOrder
  <2>2. exch' = [exch EXCEPT ![c] = r] /\ Answer("new", c, "Filled")
      BY <1>7
  <2>3. r.leaves + r.cum \in Lots
      BY <1>2, <2>1 DEF Lots
  <2> HIDE DEF r
  <2>4. /\ exch' \in [ClIDs -> ExchangeOrder] /\ Grows /\ exch'[c] = r
        /\ \A d \in ClIDs : ExchangeSound(d)'
        /\ future' \in [ClIDs -> [new : {"none", "waiting"} \cup NewAnswers,
                                  cancel : {"none", "waiting"} \cup CancelAnswers]]
        /\ \A d \in ClIDs : AnswersTrue(d)'
      BY <1>4, <2>1, <2>2, <2>3
  <2>5. PICK n \in Event : n = Happened("new", c, x, 0) /\ EventTrue(n)'
      BY <1>2, <2>1, <2>4, HappenedShape DEF EventTrue
  <2>6. PICK m \in Event : m = Happened("trade", c, x, exch[c].leaves) /\ EventTrue(m)'
      BY <1>2, <2>1, <2>4, HappenedShape DEF EventTrue
  <2>7. EventsTrue' /\ socket' \in [up : BOOLEAN, q : Seq(Event)]
      BY <1>7, <2>4, <2>5, <2>6, TwoEventsTrue
  <2>8. exchPos' \in Int
      BY <1>2, <1>7, AccountConstants DEF Types0, Signed
  <2> QED
      BY <1>5, <2>4, <2>7, <2>8
<1>8. CASE /\ exch' = [exch EXCEPT ![c] = [@ EXCEPT !.at = "Done", !.id = x]]
           /\ Emit(<<Happened("new", c, x, 0), Happened("expired", c, x, 0)>>)
           /\ Answer("new", c, "Expired")
           /\ exchPos' = exchPos
  <2> DEFINE r == [exch[c] EXCEPT !.at = "Done", !.id = x]
  <2>1. /\ r \in ExchangeOrder /\ r.at = "Done" /\ r.id = x /\ r.side = exch[c].side
        /\ r.type = exch[c].type /\ r.leaves = exch[c].leaves /\ r.cum = 0
      BY <1>2 DEF ExchangeOrder
  <2>2. exch' = [exch EXCEPT ![c] = r] /\ Answer("new", c, "Expired")
      BY <1>8
  <2>3. r.leaves + r.cum \in Lots
      BY <1>2, <2>1 DEF Lots
  <2> HIDE DEF r
  <2>4. /\ exch' \in [ClIDs -> ExchangeOrder] /\ Grows /\ exch'[c] = r
        /\ \A d \in ClIDs : ExchangeSound(d)'
        /\ future' \in [ClIDs -> [new : {"none", "waiting"} \cup NewAnswers,
                                  cancel : {"none", "waiting"} \cup CancelAnswers]]
        /\ \A d \in ClIDs : AnswersTrue(d)'
      BY <1>4, <2>1, <2>2, <2>3
  <2>5. PICK n \in Event : n = Happened("new", c, x, 0) /\ EventTrue(n)'
      BY <1>2, <2>1, <2>4, HappenedShape DEF EventTrue
  <2>6. PICK m \in Event : m = Happened("expired", c, x, 0) /\ EventTrue(m)'
      BY <1>2, <2>1, <2>4, HappenedShape DEF EventTrue
  <2>7. EventsTrue' /\ socket' \in [up : BOOLEAN, q : Seq(Event)]
      BY <1>8, <2>4, <2>5, <2>6, TwoEventsTrue
  <2> QED
      BY <1>5, <1>8, <2>4, <2>7 DEF Types0
<1> QED
    BY <1>1, <1>6, <1>7, <1>8

\* One order of the exchange changes and is told in one event; the answers do
\* not speak of it, or are true.
LEMMA OneOrderOutside ==
    ASSUME World, Types0, EventsTrue, Grows, exch' \in [ClIDs -> ExchangeOrder],
           \A d \in ClIDs : ExchangeSound(d)',
           NEW n \in Event, EventTrue(n)', Emit(<<n>>),
           future' \in [ClIDs -> [new : {"none", "waiting"} \cup NewAnswers,
                                  cancel : {"none", "waiting"} \cup CancelAnswers]],
           \A d \in ClIDs : AnswersTrue(d)',
           exchPos' \in Int, cancels' \subseteq ClIDs,
           UNCHANGED <<pos, phase, fetched, owed, mass, seamless, count>>
    PROVE  Outside
<1>1. EventsTrue' /\ socket' \in [up : BOOLEAN, q : Seq(Event)]
    BY OneEventTrue
<1> QED
    BY <1>1, OutsideFromParts DEF Types0, count

\* The exchange refuses a new order: nothing executed, and none will.
LEMMA RefuseNewOutside ==
    ASSUME World, Types0, EventsTrue, NEW c \in ClIDs, RefuseNew(c)
    PROVE  Outside
<1> DEFINE r == [exch[c] EXCEPT !.at = "Done"]
<1>1. /\ exch[c] \in ExchangeOrder /\ exch[c].at = "Sent"
      /\ exch[c].leaves + exch[c].cum \in Lots
    BY DEF RefuseNew, World, ExchangeSound, Types0
<1>2. /\ r \in ExchangeOrder /\ r.at = "Done" /\ r.id = exch[c].id /\ r.side = exch[c].side
      /\ r.type = exch[c].type /\ r.leaves = exch[c].leaves /\ r.cum = exch[c].cum
    BY <1>1 DEF ExchangeOrder
<1>3. exch' = [exch EXCEPT ![c] = r]
    BY DEF RefuseNew
<1> HIDE DEF r
<1>4. exch' \in [ClIDs -> ExchangeOrder] /\ Grows /\ \A d \in ClIDs : ExchangeSound(d)'
    BY <1>1, <1>2, <1>3, ExchangeMoves
<1>5. Answer("new", c, "refused") /\ "refused" \in NewAnswers
    BY DEF RefuseNew, NewAnswers
<1>6. ASSUME NEW d \in ClIDs PROVE AnswersTrue(d)'
    BY <1>4, <1>5, AnswerNewShape, AnswersStayTrue
<1>7. UNCHANGED <<pos, phase, fetched, owed, socket, exchPos, cancels, mass, seamless, count>>
    BY DEF RefuseNew
<1>8. EventsTrue'
  <2>1. PICK q \in Seq(Event) : q = socket.q /\ socket'.q = q
      BY <1>7 DEF Types0
  <2>2. ASSUME NEW i \in 1..Len(q) PROVE EventTrue(q[i])'
      BY <1>4, <2>1, EventStaysTrue DEF EventsTrue
  <2> QED
      BY <2>1, <2>2 DEF EventsTrue
<1> QED
    BY <1>4, <1>5, <1>6, <1>7, <1>8, AnswerNewShape, OutsideFromParts DEF Types0, count

\* A step that leaves the orders of the exchange alone, takes events from the
\* queue but adds none, and puts nothing in a future that speaks of the order.
LEMMA QuietOutside ==
    ASSUME World, Types0, Types0', EventsTrue, exch' = exch,
           \A i \in 1..Len(socket'.q) : \E j \in 1..Len(socket.q) : socket'.q[i] = socket.q[j],
           \A d \in ClIDs :
              /\ future'[d].new = future[d].new
                    \/ future'[d].new \notin {"New", "Filled", "Expired"}
              /\ future'[d].cancel = future[d].cancel \/ future'[d].cancel # "ok"
    PROVE  Outside
<1>1. Grows
    BY DEF Grows
<1>2. EventsTrue'
    BY DEF EventsTrue, EventTrue
<1>3. World'
    BY DEF World, ExchangeSound, AnswersTrue
<1> QED
    BY <1>1, <1>2, <1>3 DEF Outside

\* No event is added when the queue stays, loses its head or is emptied.
LEMMA NoEventAdded ==
    ASSUME Types0,
           \/ socket'.q = socket.q \/ socket'.q = <<>>
           \/ socket.q # <<>> /\ socket'.q = Tail(socket.q)
    PROVE  \A i \in 1..Len(socket'.q) : \E j \in 1..Len(socket.q) : socket'.q[i] = socket.q[j]
<1>1. PICK q \in Seq(Event) : q = socket.q
    BY DEF Types0
<1>2. CASE q # <<>> /\ socket'.q = Tail(q)
  <2>1. \A i \in 1..Len(Tail(q)) : i + 1 \in 1..Len(q) /\ Tail(q)[i] = q[i + 1]
      BY <1>2
  <2> QED
      BY <1>1, <1>2, <2>1
<1>3. CASE socket'.q = q
    BY <1>1, <1>3
<1>4. CASE socket'.q = <<>>
    BY <1>4
<1> QED
    BY <1>1, <1>2, <1>3, <1>4

\* The executor's answer to a cancel request, when no order is touched.
LEMMA AnswerCancelOutside ==
    ASSUME World, Types0, EventsTrue, NEW c \in ClIDs, NEW a \in {"unknown", "refused"},
           Answer("cancel", c, a), cancels' = cancels \ {c}, UNCHANGED <<exch, socket>>,
           UNCHANGED <<acct, pos, phase, fetched, owed, exchPos, mass, seamless, count>>
    PROVE  Outside
<1>1. a \in CancelAnswers
    BY DEF CancelAnswers
<1>2. Types0'
    BY <1>1, AnswerCancelShape DEF Types0, count
<1>3. \A d \in ClIDs : /\ future'[d].new = future[d].new
                       /\ future'[d].cancel = future[d].cancel \/ future'[d].cancel # "ok"
    BY <1>1, AnswerCancelShape
<1> QED
    BY <1>2, <1>3, NoEventAdded, QuietOutside

\* The exchange carries out a cancel; an answer that it was done is true.
LEMMA CarryOutCancelOutside ==
    ASSUME World, Types0, EventsTrue, NEW c \in ClIDs, CarryOutCancel(c)
    PROVE  Outside
<1>0. /\ cancels' = cancels \ {c}
      /\ UNCHANGED <<acct, pos, phase, fetched, owed, exchPos, mass, seamless, count>>
    BY DEF CarryOutCancel
<1>1. CASE Live(c)
  <2> DEFINE r == [exch[c] EXCEPT !.at = "Done"]
  <2>1. /\ exch[c] \in ExchangeOrder /\ exch[c].at = "Live" /\ exch[c].id \in ExIDs
        /\ exch[c].leaves + exch[c].cum \in Lots
      BY <1>1 DEF Live, World, ExchangeSound, Types0, ExchangeOrder
  <2>2. /\ r \in ExchangeOrder /\ r.at = "Done" /\ r.id = exch[c].id /\ r.side = exch[c].side
        /\ r.type = exch[c].type /\ r.leaves = exch[c].leaves /\ r.cum = exch[c].cum
      BY <2>1 DEF ExchangeOrder
  <2>3. /\ exch' = [exch EXCEPT ![c] = r]
        /\ Emit(<<Happened("canceled", c, exch[c].id, 0)>>)
        /\ Answer("cancel", c, "ok")
      BY <1>1 DEF CarryOutCancel
  <2> HIDE DEF r
  <2>4. exch' \in [ClIDs -> ExchangeOrder] /\ Grows /\ \A d \in ClIDs : ExchangeSound(d)'
      BY <2>1, <2>2, <2>3, ExchangeMoves
  <2>5. exch'[c] = r
      BY <2>3 DEF Types0
  <2>6. "ok" \in CancelAnswers /\ 0 \in 0..MaxLots
      BY AccountConstants DEF CancelAnswers
  <2>7. ASSUME NEW d \in ClIDs PROVE AnswersTrue(d)'
      BY <2>2, <2>3, <2>4, <2>5, <2>6, AnswerCancelShape, AnswersStayTrue
  <2>8. PICK n \in Event : n = Happened("canceled", c, exch[c].id, 0) /\ EventTrue(n)'
      BY <2>1, <2>2, <2>5, <2>6, HappenedShape DEF EventTrue
  <2>9. future' \in [ClIDs -> [new : {"none", "waiting"} \cup NewAnswers,
                               cancel : {"none", "waiting"} \cup CancelAnswers]]
      BY <2>3, <2>6, AnswerCancelShape
  <2> QED
      BY <1>0, <2>3, <2>4, <2>7, <2>8, <2>9, OneOrderOutside DEF Types0
<1>2. CASE ~Live(c)
    BY <1>0, <1>2, AnswerCancelOutside DEF CarryOutCancel
<1> QED
    BY <1>1, <1>2

\* The exchange refuses a cancel.
LEMMA RefuseCancelOutside ==
    ASSUME World, Types0, EventsTrue, NEW c \in ClIDs, RefuseCancel(c)
    PROVE  Outside
BY AnswerCancelOutside DEF RefuseCancel

\* An answer that is lost says nothing of the order.
LEMMA LoseAnswerOutside ==
    ASSUME World, Types0, EventsTrue, NEW c \in ClIDs, NEW request \in {"new", "cancel"},
           LoseAnswer(request, c)
    PROVE  Outside
<1>1. PICK a \in {"timeout", "refused"} : future' = [future EXCEPT ![c][request] = a]
    BY DEF LoseAnswer
<1>2. /\ UNCHANGED <<acct, pos, phase, fetched, owed, socket, world, seamless, sent, hasty>>
      /\ faults' \in 0..MaxFaults
    BY ListenerBounds DEF LoseAnswer, Fault, Types0
<1>3. /\ future' \in [ClIDs -> [new : {"none", "waiting"} \cup NewAnswers,
                                cancel : {"none", "waiting"} \cup CancelAnswers]]
      /\ \A d \in ClIDs :
              /\ future'[d].new = future[d].new \/ future'[d].new = a
              /\ future'[d].cancel = future[d].cancel \/ future'[d].cancel = a
  <2>1. future \in [ClIDs -> [new : {"none", "waiting"} \cup NewAnswers,
                              cancel : {"none", "waiting"} \cup CancelAnswers]]
      BY DEF Types0
  <2>2. a \in NewAnswers /\ a \in CancelAnswers
      BY DEF NewAnswers, CancelAnswers
  <2>3. CASE request = "new"
    <3>1. future' = [future EXCEPT ![c].new = a]
        BY <1>1, <2>3
    <3> QED
        BY <2>1, <2>2, <3>1
  <2>4. CASE request = "cancel"
    <3>1. future' = [future EXCEPT ![c].cancel = a]
        BY <1>1, <2>4
    <3> QED
        BY <2>1, <2>2, <3>1
  <2> QED
      BY <2>3, <2>4
<1>4. Types0'
    BY <1>2, <1>3 DEF Types0, world
<1> QED
    BY <1>2, <1>3, <1>4, NoEventAdded, QuietOutside DEF world

\* A trade moves lots from an order's leaves to what it has executed, and says so.
LEMMA TradeOutside ==
    ASSUME World, Types0, EventsTrue, NEW c \in ClIDs, NEW qty \in Lots, Trade(c, qty)
    PROVE  Outside
<1> DEFINE r == [exch[c] EXCEPT !.leaves = exch[c].leaves - qty, !.cum = exch[c].cum + qty,
                                !.at = IF qty = exch[c].leaves THEN "Done" ELSE "Live"]
<1>1. /\ exch[c] \in ExchangeOrder /\ exch[c].at = "Live" /\ exch[c].id \in ExIDs
      /\ exch[c].leaves + exch[c].cum \in Lots /\ qty <= exch[c].leaves
      /\ qty > 0 /\ qty \in 0..MaxLots
    BY AccountConstants DEF Trade, Live, World, ExchangeSound, Types0, ExchangeOrder, Lots
<1>2. exch[c].leaves - qty \in 0..MaxLots /\ exch[c].cum + qty \in 0..MaxLots
    BY <1>1, AccountConstants DEF ExchangeOrder, Lots
<1>3. /\ r \in ExchangeOrder /\ r.id = exch[c].id /\ r.side = exch[c].side
      /\ r.at = (IF qty = exch[c].leaves THEN "Done" ELSE "Live")
      /\ r.type = exch[c].type /\ r.leaves = exch[c].leaves - qty /\ r.cum = exch[c].cum + qty
    BY <1>1, <1>2 DEF ExchangeOrder
<1>4. exch' = [exch EXCEPT ![c] = r]
    BY DEF Trade
<1> HIDE DEF r
<1>5. r.leaves + r.cum \in Lots /\ (r.at = "Live" => r.leaves > 0) /\ r.at \in {"Live", "Done"}
    BY <1>1, <1>3, AccountConstants DEF ExchangeOrder, Lots
<1>6. exch' \in [ClIDs -> ExchangeOrder] /\ Grows /\ \A d \in ClIDs : ExchangeSound(d)'
    BY <1>1, <1>3, <1>4, <1>5, ExchangeMoves, AccountConstants
<1>7. exch'[c].id = exch[c].id
    BY <1>3, <1>4 DEF Types0
<1>8. PICK n \in Event : n = Happened("trade", c, exch[c].id, qty) /\ EventTrue(n)'
    BY <1>1, <1>7, HappenedShape DEF EventTrue
<1>9. /\ Emit(<<n>>) /\ exchPos' \in Int
      /\ UNCHANGED <<acct, pos, phase, fetched, future, owed, cancels, mass, seamless, count>>
    BY <1>1, <1>8 DEF Trade, Types0, Signed, actor
<1>10. ASSUME NEW d \in ClIDs PROVE AnswersTrue(d)'
    BY <1>6, <1>9, AnswersStayTrue
<1> QED
    BY <1>6, <1>8, <1>9, <1>10, OneOrderOutside DEF Types0

\* An order placed elsewhere is one more true event.
LEMMA ForeignOrderOutside ==
    ASSUME World, Types0, EventsTrue, NEW c \in ClIDs, NEW side \in Sides, NEW qty \in Lots,
           ForeignOrder(c, side, qty)
    PROVE  Outside
<1>1. PICK x \in ExIDs :
        /\ FreshID(x)
        /\ exch' = [exch EXCEPT ![c] = [at |-> "Live", side |-> side, type |-> "Limit",
                                        id |-> x, leaves |-> qty, cum |-> 0]]
        /\ Emit(<<Happened("new", c, x, 0)>>)
    BY DEF ForeignOrder
<1>2. PICK r \in ExchangeOrder :
        r = [at |-> "Live", side |-> side, type |-> "Limit", id |-> x, leaves |-> qty, cum |-> 0]
  <2>1. [at |-> "Live", side |-> side, type |-> "Limit", id |-> x, leaves |-> qty, cum |-> 0]
           \in ExchangeOrder
      BY AccountConstants DEF ExchangeOrder, Lots
  <2> QED
      BY <2>1
<1>3. /\ exch[c].at = "None" /\ exch[c].id = NoID /\ x # NoID
      /\ r.leaves > 0 /\ r.leaves + r.cum \in Lots /\ 0 \in 0..MaxLots
    BY <1>2, AccountConstants DEF ForeignOrder, World, ExchangeSound, Lots
<1>4. exch' \in [ClIDs -> ExchangeOrder] /\ Grows /\ \A d \in ClIDs : ExchangeSound(d)'
    BY <1>1, <1>2, <1>3, ExchangeMoves
<1>5. exch'[c].id = x
    BY <1>1 DEF Types0
<1>6. PICK n \in Event : n = Happened("new", c, x, 0) /\ EventTrue(n)'
    BY <1>3, <1>5, HappenedShape DEF EventTrue
<1>7. /\ Emit(<<n>>)
      /\ UNCHANGED <<acct, pos, phase, fetched, future, owed, exchPos, cancels, mass, seamless, count>>
    BY <1>1, <1>6 DEF ForeignOrder, actor
<1>8. ASSUME NEW d \in ClIDs PROVE AnswersTrue(d)'
    BY <1>4, <1>7, AnswersStayTrue
<1> QED
    BY <1>4, <1>6, <1>7, <1>8, OneOrderOutside DEF Types0

\* The events of a mass cancel are finitely many.
LEMMA CanceledFinite ==
    IsFiniteSet({Happened("canceled", d, exch[d].id, 0) : d \in {c \in ClIDs : Live(c)}})
<1> DEFINE L == {d \in ClIDs : Live(d)}
           S == {Happened("canceled", d, exch[d].id, 0) : d \in L}
           f == [d \in L |-> Happened("canceled", d, exch[d].id, 0)]
<1>1. IsFiniteSet(L)
    BY ListenerBounds, FS_Subset
<1>2. f \in Surjection(L, S)
  <2>1. f \in [L -> S] /\ \A d \in L : f[d] = Happened("canceled", d, exch[d].id, 0)
      OBVIOUS
  <2> HIDE DEF f
  <2>2. \A t \in S : \E d \in L : f[d] = t
      BY <2>1
  <2> QED
      BY <2>1, <2>2 DEF Surjection
<1>3. IsFiniteSet(S)
  <2> HIDE DEF f, S, L
  <2> QED
      BY <1>1, <1>2, FS_Surjection
<1> QED
    BY <1>3

\* The exchange cancels every live order at once; its events are true of each.
LEMMA CarryOutMassCancelOutside ==
    ASSUME World, Types0, EventsTrue, CarryOutMassCancel
    PROVE  Outside
<1> DEFINE L == {d \in ClIDs : Live(d)}
           S == {Happened("canceled", d, exch[d].id, 0) : d \in L}
<1>1. PICK events \in SetToSeqs(S) : Emit(events)
    BY DEF CarryOutMassCancel
<1>2. /\ mass' = FALSE
      /\ exch' = [d \in ClIDs |-> IF Live(d) THEN [exch[d] EXCEPT !.at = "Done"] ELSE exch[d]]
      /\ UNCHANGED <<acct, pos, phase, fetched, future, owed, exchPos, cancels, seamless, count>>
    BY DEF CarryOutMassCancel, actor
<1>3. ASSUME NEW d \in ClIDs
      PROVE  /\ exch'[d] \in ExchangeOrder /\ exch'[d].id = exch[d].id
             /\ exch'[d].at = (IF Live(d) THEN "Done" ELSE exch[d].at)
             /\ exch'[d].side = exch[d].side /\ exch'[d].type = exch[d].type
             /\ exch'[d].leaves = exch[d].leaves /\ exch'[d].cum = exch[d].cum
  <2>1. exch[d] \in ExchangeOrder
      BY DEF Types0
  <2>2. exch'[d] = IF Live(d) THEN [exch[d] EXCEPT !.at = "Done"] ELSE exch[d]
      BY <1>2
  <2> QED
      BY <2>1, <2>2 DEF ExchangeOrder
<1>4. exch' \in [ClIDs -> ExchangeOrder]
    BY <1>2, <1>3
<1>5. Grows
    BY <1>3 DEF Grows, Live
<1>6. ASSUME NEW d \in ClIDs PROVE ExchangeSound(d)'
  <2>1. ExchangeSound(d) /\ \A e \in ClIDs : exch'[e].id = exch[e].id
      BY <1>3 DEF World
  <2> QED
      BY <1>3, <2>1 DEF ExchangeSound, Live
<1>7. ASSUME NEW d \in ClIDs PROVE AnswersTrue(d)'
    BY <1>2, <1>5, AnswersStayTrue
<1>8. ASSUME NEW d \in L
      PROVE  \E n \in Event : n = Happened("canceled", d, exch[d].id, 0) /\ EventTrue(n)'
  <2>1. d \in ClIDs /\ exch[d].id \in ExIDs /\ 0 \in 0..MaxLots /\ exch'[d].at = "Done"
      BY <1>3, AccountConstants DEF Types0, World, ExchangeSound, Live, ExchangeOrder
  <2>2. PICK n \in Event :
          /\ n = Happened("canceled", d, exch[d].id, 0)
          /\ n.ev = "canceled" /\ n.c = d /\ n.id = exch[d].id /\ n.qty = 0
      BY <2>1, HappenedShape
  <2>3. EventTrue(n)'
      BY <1>3, <2>1, <2>2 DEF EventTrue
  <2> QED
      BY <2>2, <2>3
<1>9. S \in SUBSET Event
    BY <1>8
<1>10. IsFiniteSet(S)
    BY CanceledFinite
<1>11. events \in Seq(Event) /\ \A i \in 1..Len(events) : events[i] \in S
  <2> HIDE DEF S
  <2> QED
      BY <1>9, <1>10, SequencesOf
<1>12. ASSUME NEW i \in 1..Len(events) PROVE EventTrue(events[i])'
  <2>1. PICK d \in L : events[i] = Happened("canceled", d, exch[d].id, 0)
      BY <1>11
  <2>2. PICK n \in Event : n = events[i] /\ EventTrue(n)'
      BY <1>8, <2>1
  <2> QED
      BY <2>2
<1>13. EventsTrue'
    BY <1>1, <1>5, <1>11, <1>12, EmitTrue
<1>14. socket' \in [up : BOOLEAN, q : Seq(Event)]
    BY <1>1, <1>11, EmitShape
<1> QED
    BY <1>2, <1>4, <1>5, <1>6, <1>7, <1>13, <1>14, OutsideFromParts DEF Types0, count

\* A socket without events, and one that is cut.
LEMMA SocketShapes ==
    /\ NoSocket \in [up : BOOLEAN, q : Seq(Event)] /\ NoSocket.q = <<>>
    /\ [up |-> TRUE, q |-> <<>>] \in [up : BOOLEAN, q : Seq(Event)]
    /\ [up |-> TRUE, q |-> <<>>].q = <<>>
    /\ \A s \in [up : BOOLEAN, q : Seq(Event)] :
          /\ [s EXCEPT !.up = FALSE] \in [up : BOOLEAN, q : Seq(Event)]
          /\ [s EXCEPT !.up = FALSE].q = s.q
<1>1. <<>> \in Seq(Event)
    OBVIOUS
<1> QED
    BY <1>1 DEF NoSocket

\* Losing a request, the socket or an answer makes nothing said before false.
LEMMA FaultsOutside ==
    ASSUME World, Types0, EventsTrue,
           LoseMassCancel \/ SocketFails \/ FetchFails \/ InitializeFails
    PROVE  Outside
<1>1. socket' \in [up : BOOLEAN, q : Seq(Event)]
      /\ (socket'.q = socket.q \/ socket'.q = <<>>)
  <2>1. /\ socket \in [up : BOOLEAN, q : Seq(Event)]
        /\ socket' \in {socket, [socket EXCEPT !.up = FALSE], NoSocket}
      BY DEF Types0, LoseMassCancel, SocketFails, FetchFails, InitializeFails
  <2> QED
      BY <2>1, SocketShapes
<1>2. faults' \in 0..MaxFaults /\ UNCHANGED <<sent, hasty>>
    BY ListenerBounds
       DEF LoseMassCancel, SocketFails, FetchFails, InitializeFails, Fault, Types0
<1>3. UNCHANGED <<pos, future, owed, exch, exchPos, cancels>>
    BY DEF LoseMassCancel, SocketFails, FetchFails, InitializeFails, world, actor
<1>4. /\ phase' \in {phase, "failed", "subscribe"} /\ fetched' \in {fetched, 0}
      /\ mass' \in {mass, FALSE} /\ seamless' \in {seamless, FALSE}
    BY DEF LoseMassCancel, SocketFails, FetchFails, InitializeFails, world, actor
<1>5. /\ {pos, fetched, exchPos}' \subseteq Int
      /\ phase' \in {"subscribe", "positions", "orders", "running", "failed"}
      /\ {mass, seamless, hasty}' \subseteq BOOLEAN
  <2>1. mass \in BOOLEAN /\ seamless \in BOOLEAN /\ hasty \in BOOLEAN
      BY DEF Types0
  <2>2. mass' \in BOOLEAN /\ seamless' \in BOOLEAN /\ hasty' \in BOOLEAN
      BY <1>2, <1>4, <2>1, Zenon
  <2>3. pos' \in Int /\ fetched' \in Int /\ exchPos' \in Int
      BY <1>3, <1>4 DEF Types0
  <2>4. phase' \in {"subscribe", "positions", "orders", "running", "failed"}
      BY <1>4 DEF Types0
  <2> QED
      BY <2>2, <2>3, <2>4
<1>6. Types0'
    BY <1>1, <1>2, <1>3, <1>5 DEF Types0
<1> QED
    BY <1>1, <1>3, <1>6, NoEventAdded, QuietOutside

\* A request for a new order starts a future and sends the order to the exchange.
LEMMA NewRequestOutside ==
    ASSUME World, Types0, EventsTrue, NEW c \in ClIDs, NEW side \in Sides, NEW type \in Types,
           NEW qty \in Lots, OnNewOrderSingleRequest(c, side, type, qty)
    PROVE  Outside
<1>1. /\ exch[c].at = "None"
      /\ exch' = [exch EXCEPT ![c] = [at |-> "Sent", side |-> side, type |-> type,
                                      id |-> NoID, leaves |-> qty, cum |-> 0]]
      /\ future' = [future EXCEPT ![c].new = "waiting"]
      /\ owed' \in {owed, owed \cup {<<"new", c>>}}
      /\ UNCHANGED <<pos, phase, fetched, socket, exchPos, cancels, mass, seamless, count>>
    BY DEF OnNewOrderSingleRequest
<1>2. PICK r \in ExchangeOrder :
        r = [at |-> "Sent", side |-> side, type |-> type, id |-> NoID, leaves |-> qty, cum |-> 0]
  <2>1. [at |-> "Sent", side |-> side, type |-> type, id |-> NoID, leaves |-> qty, cum |-> 0]
           \in ExchangeOrder
      BY AccountConstants DEF ExchangeOrder, Lots
  <2> QED
      BY <2>1
<1>3. r.leaves + r.cum \in Lots /\ exch[c].id = NoID
    BY <1>1, <1>2 DEF World, ExchangeSound, Lots
<1>4. exch' \in [ClIDs -> ExchangeOrder] /\ Grows /\ \A d \in ClIDs : ExchangeSound(d)'
    BY <1>1, <1>2, <1>3, ExchangeMoves
<1>5. /\ future' \in [ClIDs -> [new : {"none", "waiting"} \cup NewAnswers,
                                cancel : {"none", "waiting"} \cup CancelAnswers]]
      /\ \A d \in ClIDs : /\ future'[d].new \in {future[d].new, "waiting"}
                          /\ future'[d].cancel = future[d].cancel
    BY <1>1 DEF Types0
<1>6. ASSUME NEW d \in ClIDs PROVE AnswersTrue(d)'
    BY <1>4, <1>5, AnswersStayTrue
<1>7. EventsTrue'
  <2>1. PICK q \in Seq(Event) : q = socket.q /\ socket'.q = q
      BY <1>1 DEF Types0
  <2>2. ASSUME NEW i \in 1..Len(q) PROVE EventTrue(q[i])'
      BY <1>4, <2>1, EventStaysTrue DEF EventsTrue
  <2> QED
      BY <2>1, <2>2 DEF EventsTrue
<1>8. Types0'
    BY <1>1, <1>4, <1>5 DEF Types0, count
<1> QED
    BY <1>4, <1>6, <1>7, <1>8 DEF Outside, World

\* A request for a cancel starts a future and sends the cancel to the exchange.
LEMMA CancelRequestOutside ==
    ASSUME World, Types0, EventsTrue, NEW c \in ClIDs, OnOrderCancelRequest(c)
    PROVE  Outside
<1>1. /\ sent < MaxCancels /\ sent' = sent + 1 /\ faults' = faults
      /\ hasty' = (hasty \/ acct.orders[c].id = NoID)
      /\ cancels' = cancels \cup {c}
      /\ future' = future \/ future' = [future EXCEPT ![c].cancel = "waiting"]
      /\ owed' \in {owed, owed \cup {<<"cancel", c>>}}
      /\ UNCHANGED <<pos, phase, fetched, socket, exch, exchPos, mass, seamless>>
    BY DEF OnOrderCancelRequest
<1>2. /\ future' \in [ClIDs -> [new : {"none", "waiting"} \cup NewAnswers,
                                cancel : {"none", "waiting"} \cup CancelAnswers]]
      /\ \A d \in ClIDs : /\ future'[d].cancel \in {future[d].cancel, "waiting"}
                          /\ future'[d].new = future[d].new
    BY <1>1, SMTT(30) DEF Types0
<1>3. sent' \in 0..MaxCancels /\ hasty' \in BOOLEAN
    BY <1>1, ListenerBounds DEF Types0
<1>4. Types0'
    BY <1>1, <1>2, <1>3 DEF Types0
<1> QED
    BY <1>1, <1>2, <1>4, NoEventAdded, QuietOutside

\* A continuation takes its answer from the future.
LEMMA ResumeOutside ==
    ASSUME World, Types0, EventsTrue, NEW c \in ClIDs, NEW request \in {"new", "cancel"},
           Resume(request, c), phase' \in {phase, "failed"}
    PROVE  Outside
<1>1. /\ future' = [future EXCEPT ![c][request] = "none"]
      /\ owed' = owed \ {<<request, c>>}
      /\ UNCHANGED <<pos, fetched, socket, world, seamless, count>>
    BY DEF Resume
<1>2. /\ future' \in [ClIDs -> [new : {"none", "waiting"} \cup NewAnswers,
                                cancel : {"none", "waiting"} \cup CancelAnswers]]
      /\ \A d \in ClIDs : /\ future'[d].cancel \in {future[d].cancel, "none"}
                          /\ future'[d].new \in {future[d].new, "none"}
  <2>1. CASE request = "new"
    <3>1. future' = [future EXCEPT ![c].new = "none"]
        BY <1>1, <2>1
    <3> QED
        BY <3>1 DEF Types0
  <2>2. CASE request = "cancel"
    <3>1. future' = [future EXCEPT ![c].cancel = "none"]
        BY <1>1, <2>2
    <3> QED
        BY <3>1 DEF Types0
  <2> QED
      BY <2>1, <2>2
<1>3. Types0'
    BY <1>1, <1>2 DEF Types0, world, count
<1> QED
    BY <1>1, <1>2, <1>3, NoEventAdded, QuietOutside DEF world

\* An event leaves the queue.
LEMMA HandleOutside ==
    ASSUME World, Types0, EventsTrue, NEW kind, Handle(kind), phase' \in {phase, "failed"},
           pos' \in Int
    PROVE  Outside
<1>1. /\ socket.q # <<>> /\ socket' = [socket EXCEPT !.q = Tail(@)]
      /\ UNCHANGED <<fetched, future, owed, world, seamless, count>>
    BY DEF Handle
<1>2. socket' \in [up : BOOLEAN, q : Seq(Event)] /\ socket'.q = Tail(socket.q)
  <2>1. Tail(socket.q) \in Seq(Event)
      BY <1>1 DEF Types0
  <2> QED
      BY <1>1, <2>1 DEF Types0
<1>3. Types0'
    BY <1>1, <1>2 DEF Types0, world, count
<1> QED
    BY <1>1, <1>2, <1>3, NoEventAdded, QuietOutside DEF world

\* Timers, the failure and the restart of the listener leave the exchange and the answers alone.
LEMMA TicksOutside ==
    ASSUME World, Types0, EventsTrue,
           CheckSocket \/ CheckAccount \/ (\E c \in ClIDs : Minute(c)) \/ Restart \/ Initialize
    PROVE  Outside
<1>1. /\ socket' \in [up : BOOLEAN, q : Seq(Event)]
      /\ (socket'.q = socket.q \/ socket'.q = <<>>)
  <2>1. /\ socket \in [up : BOOLEAN, q : Seq(Event)]
        /\ socket' \in {socket, [up |-> TRUE, q |-> <<>>], NoSocket}
      BY DEF Types0, CheckSocket, CheckAccount, Minute, Restart, Initialize,
             SubscribeAccount, FetchPositions, SyncAccount
  <2> QED
      BY <2>1, SocketShapes
<1>2. UNCHANGED <<future, owed, exch, exchPos, cancels, count>>
    BY DEF CheckSocket, CheckAccount, Minute, Restart, Initialize,
           SubscribeAccount, FetchPositions, SyncAccount, world, actor
<1>3. /\ phase' \in {"subscribe", "positions", "orders", "running", "failed"}
      /\ pos' \in {pos, fetched} /\ fetched' \in {fetched, exchPos, 0}
      /\ mass' \in {mass, TRUE}
    BY DEF CheckSocket, CheckAccount, Minute, Restart, Initialize, FailIf, Types0,
           SubscribeAccount, FetchPositions, SyncAccount, world, actor
<1>4. seamless' \in BOOLEAN
    BY DEF CheckSocket, CheckAccount, Minute, Restart, Initialize, FailIf, Types0,
           SubscribeAccount, FetchPositions, SyncAccount
<1>5. {pos, fetched, exchPos}' \subseteq Int /\ {mass, seamless, hasty}' \subseteq BOOLEAN
  <2>1. mass \in BOOLEAN /\ hasty \in BOOLEAN
      BY DEF Types0
  <2>2. mass' \in BOOLEAN /\ seamless' \in BOOLEAN /\ hasty' \in BOOLEAN
      BY <1>2, <1>3, <1>4, <2>1, Zenon DEF count
  <2>3. pos' \in Int /\ fetched' \in Int /\ exchPos' \in Int
      BY <1>2, <1>3 DEF Types0
  <2> QED
      BY <2>2, <2>3
<1>6. Types0'
    BY <1>1, <1>2, <1>3, <1>5 DEF Types0, count
<1> QED
    BY <1>1, <1>2, <1>6, NoEventAdded, QuietOutside

----------------------------------------------------------------------------
(***************************************************************************)
(* The account, called by handlers and continuations.                      *)
(***************************************************************************)

\* A method that moves an account keeps its agreement with the exchange, if the
\* orders it cancels or expires are done there.
LEMMA LinkedMoves ==
    ASSUME NEW a, Linked(a), NEW b, AccountInv(b), NEW closing, Moves(a, b, closing),
           \A c \in closing : exch[c].at = "Done"
    PROVE  Linked(b)
<1>1. AccountInv(a) /\ a \in AccountType /\ b \in AccountType
    BY DEF Linked, AccountInv
<1>2. ASSUME NEW c \in ClIDs PROVE Agrees(b, c)
  <2>1. Agrees(a, c) /\ OrderInv(b, c)
      BY DEF Linked, AccountInv
  <2>2. ASSUME Referenced(b, c) PROVE Referenced(a, c) /\ b.orders[c] # Blank
      BY <2>1, <2>2, AccountConstants
         DEF Moves, Referenced, OrderInv, HeapSound, Blank
  <2>3. \A x \in ExIDs : b.ordersID[x] = c => a.ordersID[x] = c
      BY AccountConstants DEF Moves
  <2>4. b.orders[c].id # NoID \/ b.orders[c].status \in {"Canceled", "Expired"}
           => b.orders[c] # Blank
      BY DEF Blank
  <2>5. b.orders[c] # Blank => /\ b.orders[c].side = a.orders[c].side
                               /\ b.orders[c].type = a.orders[c].type
                               /\ b.orders[c].id = a.orders[c].id
      BY DEF Moves
  <2>6. b.orders[c].status \in {"Canceled", "Expired"} =>
           c \in closing \/ a.orders[c].status \in {"Canceled", "Expired"}
      BY DEF Moves
  <2> QED
      BY <2>1, <2>2, <2>3, <2>4, <2>5, <2>6 DEF Agrees
<1> QED
    BY <1>2 DEF Linked

\* The agreement outlives what the exchange does.
LEMMA LinkedGrows ==
    ASSUME NEW a, Linked(a), Grows, acct' = a
    PROVE  Linked(acct)'
<1>1. AccountInv(acct')
    BY DEF Linked
<1>2. ASSUME NEW c \in ClIDs PROVE Agrees(acct, c)'
  <2>1. Agrees(a, c) /\ \A x \in ExIDs : x # NoID
      BY AccountConstants DEF Linked
  <2> QED
      BY <2>1 DEF Agrees, Grows, Referenced
<1>3. AccountInv(acct)'
    BY <1>1 DEF AccountInv, OrderInv, EntryMirrorsOrder, WorkingOrderRests,
       WorkingOrderHasLeaves, ConfirmedIsReachable, SavedStatusSound, HeapSound, Referenced,
       Working
<1> QED
    BY <1>2, <1>3 DEF Linked

\* The id the exchange gave an order is free in the account, or this order's.
LEMMA ItsOwnID ==
    ASSUME World, NEW a, Linked(a), NEW c \in ClIDs, NEW x \in ExIDs, exch[c].id = x
    PROVE  /\ a.ordersID[x] \in {NoID, c}
           /\ \A d \in ClIDs \ {c} : a.orders[d].id # x
           /\ exch[c].at # "None"
<1>1. a \in AccountType /\ x # NoID
    BY AccountConstants DEF Linked, AccountInv
<1>2. \A d \in ClIDs \ {c} : exch[d].id # x
    BY <1>1 DEF World, ExchangeSound
<1>3. \A d \in ClIDs \ {c} : a.ordersID[x] # d /\ a.orders[d].id # x
    BY <1>1, <1>2 DEF Linked, Agrees
<1>4. exch[c].at # "None"
    BY <1>1 DEF World, ExchangeSound
<1> QED
    BY <1>1, <1>3, <1>4 DEF AccountType

\* An order that is confirmed with the id the exchange gave it.
LEMMA ConfirmNewLinked ==
    ASSUME World, NEW a, Linked(a), NEW c \in ClIDs, c \in a.ordersClID,
           NEW x \in ExIDs, exch[c].id = x
    PROVE  Linked(ConfirmNewOrder(a, c, x, 0))
<1> DEFINE b == ConfirmNewOrder(a, c, x, 0)
<1>1. /\ a.ordersID[x] \in {NoID, c} /\ \A d \in ClIDs \ {c} : a.orders[d].id # x
      /\ exch[c].at # "None" /\ 0 \in 0..MaxLots /\ AccountInv(a) /\ a \in AccountType
      /\ \A y \in ExIDs : y # NoID
    BY ItsOwnID, AccountConstants DEF Linked, AccountInv
<1>2. AccountInv(b)
    BY <1>1, ConfirmNewOrderInv DEF ConfirmNewOrderError
<1>3. CASE a.orders[c].status # "PendingNew"
    BY <1>3 DEF ConfirmNewOrder
<1>4. CASE a.orders[c].status = "PendingNew"
  <2>1. Confirms(a, b, c, x, 0)
      BY <1>1, <1>4, ConfirmNewOrderShape
  <2> HIDE DEF b
  <2>2. ASSUME NEW d \in ClIDs PROVE Agrees(b, d)
    <3>1. Agrees(a, d) /\ Referenced(a, c) /\ Agrees(a, c)
        BY DEF Linked, Referenced
    <3>2. CASE d = c
      <4>1. \A y \in ExIDs : b.ordersID[y] = c => y = x \/ a.ordersID[y] = c
          BY <2>1, <1>1 DEF Confirms, AccountType
      <4>2. /\ b.orders[c].side = exch[c].side /\ b.orders[c].type = exch[c].type
            /\ b.orders[c].id = x /\ b.orders[c].status = "New"
          BY <2>1, <3>1 DEF Confirms, Agrees
      <4> QED
          BY <1>1, <3>1, <3>2, <4>1, <4>2 DEF Agrees
    <3>3. CASE d # c
      <4>1. /\ \A y \in ExIDs : b.ordersID[y] = d => a.ordersID[y] = d
            /\ Referenced(b, d) => Referenced(a, d)
            /\ b.orders[d] = a.orders[d]
          BY <2>1, <3>3, <1>1 DEF Confirms, AccountType, Referenced
      <4> QED
          BY <3>1, <4>1 DEF Agrees
    <3> QED
        BY <3>2, <3>3
  <2> QED
      BY <1>2, <2>2 DEF Linked, b
<1> QED
    BY <1>3, <1>4

\* An order of the exchange that the client-id index does not know.
LEMMA EnterConfirmedLinked ==
    ASSUME World, Types0, NEW a, Linked(a), NEW c \in ClIDs, c \notin a.ordersClID,
           NEW x \in ExIDs, exch[c].id = x
    PROVE  Linked(ConfirmNewOrder(NewOrder(a, c, exch[c].side, exch[c].type, 1,
                                           exch[c].leaves + exch[c].cum), c, x, 0))
<1> DEFINE n == NewOrder(a, c, exch[c].side, exch[c].type, 1, exch[c].leaves + exch[c].cum)
           b == ConfirmNewOrder(n, c, x, 0)
<1>1. /\ a.ordersID[x] \in {NoID, c} /\ \A d \in ClIDs \ {c} : a.orders[d].id # x
      /\ exch[c].at # "None" /\ 0 \in 0..MaxLots /\ AccountInv(a) /\ a \in AccountType
      /\ \A y \in ExIDs : y # NoID
    BY ItsOwnID, AccountConstants DEF Linked, AccountInv
<1>2. /\ exch[c].side \in Sides /\ exch[c].type \in Types /\ 1 \in Prices
      /\ exch[c].leaves + exch[c].cum \in Lots
    BY <1>1, AccountConstants DEF World, ExchangeSound, Types0, ExchangeOrder, Prices
<1>3. Referenced(a, c) => a.orders[c].side = exch[c].side /\ a.orders[c].type = exch[c].type
    BY DEF Linked, Agrees
<1>4. AccountInv(b)
    BY <1>1, <1>2, <1>3, EnterConfirmedInv
<1>5. PICK r \in Order :
        /\ n \in AccountType /\ n.ordersClID = a.ordersClID \cup {c}
        /\ n.ordersID = a.ordersID /\ n.book = a.book
        /\ n.orders[c] = r /\ \A d \in ClIDs \ {c} : n.orders[d] = a.orders[d]
        /\ r.side = exch[c].side /\ r.type = exch[c].type
        /\ r.status = "PendingNew" /\ r.id = NoID
    BY <1>1, <1>2, NewOrderShape
<1> HIDE DEF n
<1>6. Confirms(n, b, c, x, 0)
    BY <1>1, <1>5, ConfirmNewOrderShape
<1> HIDE DEF b
<1>7. ASSUME NEW d \in ClIDs PROVE Agrees(b, d)
  <2>1. Agrees(a, d) /\ Agrees(a, c)
      BY DEF Linked
  <2>2. CASE d = c
    <3>1. \A y \in ExIDs : b.ordersID[y] = c => y = x \/ a.ordersID[y] = c
        BY <1>1, <1>5, <1>6 DEF Confirms, AccountType
    <3>2. /\ b.orders[c].side = exch[c].side /\ b.orders[c].type = exch[c].type
          /\ b.orders[c].id = x /\ b.orders[c].status = "New"
        BY <1>5, <1>6 DEF Confirms
    <3> QED
        BY <1>1, <2>1, <2>2, <3>1, <3>2 DEF Agrees
  <2>3. CASE d # c
    <3>1. /\ \A y \in ExIDs : b.ordersID[y] = d => a.ordersID[y] = d
          /\ Referenced(b, d) => Referenced(a, d)
          /\ b.orders[d] = a.orders[d]
        BY <1>1, <1>5, <1>6, <2>3 DEF Confirms, AccountType, Referenced
    <3> QED
        BY <2>1, <3>1 DEF Agrees
  <2> QED
      BY <2>2, <2>3
<1> QED
    BY <1>4, <1>7 DEF Linked, b, n

\* A request of a user: the account and the exchange learn of a new order.
LEMMA NewRequestLinked ==
    ASSUME World, Linked(acct), Grows, Types0, NEW c \in ClIDs, NEW side \in Sides,
           NEW type \in Types, NEW qty \in Lots, OnNewOrderSingleRequest(c, side, type, qty)
    PROVE  Linked(acct)'
<1> DEFINE b == NewOrder(acct, c, side, type, 1, qty)
<1>1. /\ exch[c].at = "None" /\ ~NewOrderRejected(acct, c, type, 1) /\ acct' = b
      /\ exch' = [exch EXCEPT ![c] = [at |-> "Sent", side |-> side, type |-> type,
                                      id |-> NoID, leaves |-> qty, cum |-> 0]]
    BY DEF OnNewOrderSingleRequest
<1>2. /\ AccountInv(acct) /\ acct \in AccountType /\ \A d \in ClIDs : Agrees(acct, d)
      /\ 1 \in Prices \cup {NoPrice} /\ \A y \in ExIDs : y # NoID
    BY AccountConstants DEF Linked, AccountInv, Prices
<1>3. ~Referenced(acct, c)
    BY <1>1, <1>2 DEF Agrees
<1>4. AccountInv(b)
    BY <1>1, <1>2, <1>3, NewOrderInv
<1>5. PICK r \in Order :
        /\ b \in AccountType /\ b.ordersClID = acct.ordersClID \cup {c}
        /\ b.ordersID = acct.ordersID
        /\ b.orders[c] = r /\ \A d \in ClIDs \ {c} : b.orders[d] = acct.orders[d]
        /\ r.side = side /\ r.type = type
        /\ r.status = "PendingNew" /\ r.id = NoID
    BY <1>2, NewOrderShape
<1> HIDE DEF b
<1>6. PICK e : e = b
    OBVIOUS
<1>7. ASSUME NEW d \in ClIDs PROVE Agrees(acct, d)'
  <2>1. CASE d = c
    <3>1. exch'[c].at = "Sent" /\ exch'[c].side = side /\ exch'[c].type = type
        BY <1>1 DEF Types0
    <3>2. \A x \in ExIDs : acct'.ordersID[x] # c
        BY <1>1, <1>3, <1>5 DEF Referenced
    <3> QED
        BY <1>1, <1>5, <2>1, <3>1, <3>2 DEF Agrees
  <2>2. CASE d # c
    <3>1. exch'[d] = exch[d]
        BY <1>1, <2>2 DEF Types0
    <3>2. /\ acct'.ordersID = acct.ordersID /\ acct'.orders[d] = acct.orders[d]
          /\ d \in acct'.ordersClID => d \in acct.ordersClID
        BY <1>1, <1>5, <2>2
    <3> QED
        BY <1>2, <3>1, <3>2 DEF Agrees, Referenced
  <2> QED
      BY <2>1, <2>2
<1>8. AccountInv(acct)'
  <2>1. AccountInv(e) /\ acct' = e
      BY <1>1, <1>4, <1>6
  <2> QED
      BY <2>1 DEF AccountInv, OrderInv, EntryMirrorsOrder, WorkingOrderRests,
         WorkingOrderHasLeaves, ConfirmedIsReachable, SavedStatusSound, HeapSound, Referenced,
         Working
<1> QED
    BY <1>7, <1>8 DEF Linked

\* The exchange lists an order that is live as it is, and no other.
LEMMA ListedShape ==
    ASSUME World, Types0, NEW c \in ClIDs
    PROVE  /\ Listed(c) \in Order
           /\ ~Live(c) => Listed(c) = Blank
           /\ Live(c) => /\ Listed(c).status \in OpenStatus /\ Listed(c).status # "Blank"
                         /\ Listed(c).side = exch[c].side
                         /\ Listed(c).type = exch[c].type /\ Listed(c).id = exch[c].id
                         /\ Listed(c).leaves = exch[c].leaves /\ Listed(c).price = 1
                         /\ Listed(c).leaves > 0 /\ Listed(c).id # NoID
<1>1. Blank \in Order
    BY AccountConstants DEF Blank, Order, NoPrice
<1>2. exch[c] \in ExchangeOrder /\ ExchangeSound(c)
    BY DEF Types0, World
<1>3. CASE ~Live(c)
    BY <1>1, <1>3 DEF Listed
<1>4. CASE Live(c)
  <2> DEFINE s == IF exch[c].cum = 0 THEN "New" ELSE "PartiallyFilled"
             o == [Blank EXCEPT !.side = exch[c].side, !.type = exch[c].type, !.price = 1,
                                !.status = s, !.id = exch[c].id, !.leaves = exch[c].leaves,
                                !.cum = exch[c].cum]
  <2>1. Listed(c) = o
      BY <1>4 DEF Listed
  <2>2. s \in OpenStatus /\ s \in OrderStatus /\ s # "Blank"
      BY DEF OpenStatus, OrderStatus
  <2>3. 1 \in Prices /\ exch[c].leaves \in Nat /\ exch[c].cum \in Nat
      BY <1>2, AccountConstants DEF Prices, ExchangeOrder
  <2>4. /\ o \in Order /\ o.status = s /\ o.side = exch[c].side /\ o.type = exch[c].type
        /\ o.id = exch[c].id /\ o.leaves = exch[c].leaves /\ o.price = 1
    <3> HIDE DEF s
    <3> QED
        BY <1>1, <1>2, <2>2, <2>3 DEF Blank, Order, ExchangeOrder
  <2> QED
      BY <1>2, <1>4, <2>1, <2>2, <2>4 DEF ExchangeSound, Live
<1> QED
    BY <1>3, <1>4

\* What the exchange lists is a snapshot, and agrees with it.
LEMMA SyncLinked ==
    ASSUME World, Types0
    PROVE  Linked(Sync([c \in ClIDs |-> Listed(c)]))
<1> DEFINE f == [c \in ClIDs |-> Listed(c)]
           b == Sync(f)
<1>2. ASSUME NEW c \in ClIDs
      PROVE  /\ f[c] \in Order
             /\ ~Live(c) => f[c] = Blank
             /\ Live(c) => /\ f[c].status \in OpenStatus /\ f[c].status # "Blank"
                           /\ f[c].side = exch[c].side
                           /\ f[c].type = exch[c].type /\ f[c].id = exch[c].id
                           /\ f[c].leaves = exch[c].leaves /\ f[c].price = 1
                           /\ f[c].leaves > 0 /\ f[c].id # NoID
    BY ListedShape
<1>3. f \in [ClIDs -> Order]
    BY <1>2
<1>4. Blank.status = "Blank" /\ Blank.id = NoID
    BY DEF Blank
<1> HIDE DEF f
<1>5. Snapshot(f)
  <2>1. ASSUME NEW c \in ClIDs, NEW d \in ClIDs, c # d, f[c].id = f[d].id
        PROVE  f[c].id = NoID
      BY <1>2, <1>4, <2>1 DEF World, ExchangeSound
  <2>2. ASSUME NEW c \in ClIDs, f[c].status # "Blank"
        PROVE  /\ f[c].status \in OpenStatus /\ f[c].leaves > 0 /\ f[c].id # NoID
               /\ f[c].type = "Limit" => f[c].price # NoPrice
      BY <1>2, <1>4, <2>2 DEF NoPrice
  <2> QED
      BY <1>3, <2>1, <2>2 DEF Snapshot
<1>6. AccountInv(b)
    BY <1>5, SyncInv
<1>7. ASSUME NEW c \in ClIDs PROVE Agrees(b, c)
  <2>1. /\ c \in b.ordersClID <=> f[c].status # "Blank"
        /\ \A x \in ExIDs : b.ordersID[x] = c => f[c].status # "Blank" /\ f[c].id = x
        /\ f[c].status = "Blank" => b.orders[c] = Blank
        /\ f[c].status # "Blank" =>
              /\ b.orders[c].status \in OpenStatus
              /\ b.orders[c].side = f[c].side /\ b.orders[c].type = f[c].type
              /\ b.orders[c].id = f[c].id
      BY <1>5, SyncShape
  <2> HIDE DEF b
  <2>2. f[c].status # "Blank" => Live(c)
      BY <1>2, <1>4
  <2> QED
      BY <1>2, <1>4, <2>1, <2>2 DEF Agrees, Referenced, Live, OpenStatus
<1> QED
    BY <1>6, <1>7 DEF Linked, b, f

----------------------------------------------------------------------------
(***************************************************************************)
(* The invariant, action by action.                                        *)
(***************************************************************************)

\* A step that leaves the outside consistent, and the account, or what becomes
\* of it, in agreement with the exchange.
LEMMA StepFromAccount ==
    ASSUME IInv, Outside, NEW b, Linked(b), acct' = b
    PROVE  IInv'
<1>1. Grows /\ Types0' /\ World' /\ EventsTrue'
    BY DEF Outside
<1> QED
    BY <1>1, LinkedGrows DEF IInv

\* A step outside the account keeps the invariant.
LEMMA SameAccount ==
    ASSUME IInv, Outside, acct' = acct
    PROVE  IInv'
BY StepFromAccount DEF IInv

\* A client id finds the order of that client id, or nothing; an exchange id
\* finds the order the exchange gave it to, or nothing.
LEMMA FindsOwn ==
    ASSUME World, NEW a, Linked(a), NEW c \in ClIDs
    PROVE  /\ Known(a, c) <=> c \in a.ordersClID
           /\ Known(a, c) => Find(a, c) = c
           /\ \A x \in ExIDs : Known(a, x) /\ exch[c].id = x => Find(a, x) = c
<1>1. a \in AccountType /\ c \notin ExIDs /\ c # NoID
    BY AccountConstants DEF Linked, AccountInv
<1>2. ASSUME NEW x \in ExIDs, Known(a, x), exch[c].id = x PROVE Find(a, x) = c
  <2>1. x \notin a.ordersClID
      BY <1>1, AccountConstants DEF AccountType
  <2>2. a.ordersID[x] \in {NoID, c}
      BY <1>2, ItsOwnID
  <2> QED
      BY <1>2, <2>1, <2>2 DEF Known, Find
<1> QED
    BY <1>1, <1>2 DEF Known, Find

\* Closing an order that the exchange has done with keeps the account true to the exchange.
LEMMA ExpiredLinked ==
    ASSUME World, NEW a, Linked(a), NEW k, Known(a, k), exch[Find(a, k)].at = "Done"
    PROVE  Linked(ConfirmExpiredOrder(a, k)) /\ Linked(ConfirmCancelOrder(a, k))
<1>1. AccountInv(a)
    BY DEF Linked
<1>2. /\ AccountInv(ConfirmExpiredOrder(a, k))
      /\ Moves(a, ConfirmExpiredOrder(a, k), {Find(a, k)})
    BY <1>1, ConfirmExpiredOrderInv, ConfirmExpiredOrderMoves
<1>3. /\ AccountInv(ConfirmCancelOrder(a, k))
      /\ Moves(a, ConfirmCancelOrder(a, k), {Find(a, k)})
    BY <1>1, ConfirmCancelOrderInv, ConfirmCancelOrderMoves
<1>4. \A d \in {Find(a, k)} : exch[d].at = "Done"
    OBVIOUS
<1> QED
    BY <1>2, <1>3, <1>4, LinkedMoves

\* A method that cancels and expires nothing.
LEMMA LinkedMovesNothing ==
    ASSUME NEW a, Linked(a), NEW b, AccountInv(b), Moves(a, b, {})
    PROVE  Linked(b)
<1>1. \A c \in {} : exch[c].at = "Done"
    OBVIOUS
<1> QED
    BY <1>1, LinkedMoves

\* Rejecting a new order keeps the account true to the exchange.
LEMMA RejectNewLinked ==
    ASSUME NEW a, Linked(a), NEW c \in ClIDs
    PROVE  Linked(IF RejectNewOrderError(a, c) THEN a ELSE RejectNewOrder(a, c))
<1>1. AccountInv(a)
    BY DEF Linked
<1> QED
    BY <1>1, RejectNewOrderInv, RejectNewOrderMoves, LinkedMovesNothing

\* Expecting a fill keeps the account true to the exchange.
LEMMA PendingFilledLinked ==
    ASSUME NEW a, Linked(a), NEW k, Known(a, k)
    PROVE  Linked(PendingFilled(a, k))
<1>1. AccountInv(a)
    BY DEF Linked
<1> QED
    BY <1>1, PendingFilledInv, PendingFilledMoves, LinkedMovesNothing

\* A rejected cancel keeps the account true to the exchange, and its indexes.
LEMMA RejectCancelLinked ==
    ASSUME NEW a, Linked(a), NEW k, Known(a, k), NEW unknownOrder \in BOOLEAN
    PROVE  /\ Linked(RejectCancelOrder(a, k, unknownOrder))
           /\ RejectCancelOrder(a, k, unknownOrder).ordersClID = a.ordersClID
           /\ RejectCancelOrder(a, k, unknownOrder).ordersID = a.ordersID
<1>1. AccountInv(a)
    BY DEF Linked
<1>2. Linked(RejectCancelOrder(a, k, unknownOrder))
    BY <1>1, RejectCancelOrderInv, RejectCancelOrderMoves, LinkedMovesNothing
<1>3. /\ RejectCancelOrder(a, k, unknownOrder).ordersClID = a.ordersClID
      /\ RejectCancelOrder(a, k, unknownOrder).ordersID = a.ordersID
    BY <1>1 DEF RejectCancelOrder, Put, AccountInv, AccountType
<1> QED
    BY <1>2, <1>3

\* The requests of the users keep the invariant.
LEMMA UsersStep ==
    ASSUME IInv, Users PROVE IInv'
<1>1. World /\ Types0 /\ EventsTrue /\ Linked(acct)
    BY DEF IInv
<1>2. ASSUME NEW c \in ClIDs, NEW s \in Sides, NEW t \in Types, NEW q \in Lots,
             OnNewOrderSingleRequest(c, s, t, q)
      PROVE  IInv'
  <2>1. Outside
      BY <1>1, <1>2, NewRequestOutside
  <2>2. Linked(acct)'
      BY <1>1, <1>2, <2>1, NewRequestLinked DEF Outside
  <2> QED
      BY <2>1, <2>2 DEF Outside, IInv
<1>3. ASSUME NEW c \in ClIDs, OnOrderCancelRequest(c)
      PROVE  IInv'
  <2>1. Outside
      BY <1>1, <1>3, CancelRequestOutside
  <2>2. CASE acct' = acct
      BY <2>1, <2>2, SameAccount
  <2>3. CASE acct' = CancelOrder(acct, c) /\ ~CancelOrderRejected(acct, c)
    <3>1. AccountInv(acct)
        BY <1>1 DEF Linked
    <3>2. Linked(CancelOrder(acct, c))
        BY <1>1, <2>3, <3>1, CancelOrderInv, CancelOrderMoves, LinkedMovesNothing
    <3> QED
        BY <2>1, <2>3, <3>2, StepFromAccount
  <2> QED
      BY <1>3, <2>2, <2>3 DEF OnOrderCancelRequest
<1> QED
    BY <1>2, <1>3 DEF Users

\* The exchange's own steps keep the invariant.
LEMMA ExchangeStep ==
    ASSUME IInv, Exchange PROVE IInv'
<1>1. World /\ Types0 /\ EventsTrue /\ Linked(acct)
    BY DEF IInv
<1>2. ASSUME NEW c \in ClIDs, Accept(c) PROVE IInv'
    BY <1>1, <1>2, AcceptOutside, SameAccount DEF Accept
<1>3. ASSUME NEW c \in ClIDs, RefuseNew(c) PROVE IInv'
    BY <1>1, <1>3, RefuseNewOutside, SameAccount DEF RefuseNew
<1>4. ASSUME NEW c \in ClIDs, CarryOutCancel(c) PROVE IInv'
    BY <1>1, <1>4, CarryOutCancelOutside, SameAccount DEF CarryOutCancel
<1>5. ASSUME NEW c \in ClIDs, RefuseCancel(c) PROVE IInv'
    BY <1>1, <1>5, RefuseCancelOutside, SameAccount DEF RefuseCancel
<1>6. ASSUME NEW c \in ClIDs, NEW q \in Lots, Trade(c, q) PROVE IInv'
    BY <1>1, <1>6, TradeOutside, SameAccount DEF Trade
<1>7. ASSUME NEW c \in ClIDs, NEW s \in Sides, NEW q \in Lots, ForeignOrder(c, s, q) PROVE IInv'
    BY <1>1, <1>7, ForeignOrderOutside, SameAccount DEF ForeignOrder
<1>8. ASSUME CarryOutMassCancel PROVE IInv'
    BY <1>1, <1>8, CarryOutMassCancelOutside, SameAccount DEF CarryOutMassCancel
<1> QED
    BY <1>2, <1>3, <1>4, <1>5, <1>6, <1>7, <1>8 DEF Exchange, Arrivals, CancelArrivals

\* Lost messages and failures keep the invariant.
LEMMA FaultsStep ==
    ASSUME IInv, Faults PROVE IInv'
<1>1. World /\ Types0 /\ EventsTrue /\ Linked(acct)
    BY DEF IInv
<1>2. ASSUME NEW c \in ClIDs, NEW request \in {"new", "cancel"}, LoseAnswer(request, c)
      PROVE  IInv'
    BY <1>1, <1>2, LoseAnswerOutside, SameAccount DEF LoseAnswer
<1>3. ASSUME LoseMassCancel \/ SocketFails \/ FetchFails \/ InitializeFails
      PROVE  IInv'
  <2>1. acct' = acct
      BY <1>3 DEF LoseMassCancel, SocketFails, FetchFails, InitializeFails
  <2> QED
      BY <1>1, <1>3, <2>1, FaultsOutside, SameAccount
<1> QED
    BY <1>2, <1>3 DEF Faults

\* The result of a new order, in whatever order it comes with the events, keeps the invariant.
LEMMA NewOrderResultStep ==
    ASSUME IInv, NEW c \in ClIDs, NewOrderResult(c) PROVE IInv'
<1>1. World /\ Types0 /\ EventsTrue /\ Linked(acct) /\ AnswersTrue(c)
    BY DEF IInv, World
<1>2. Resume("new", c) /\ phase' \in {phase, "failed"}
    BY DEF NewOrderResult, NewOrderTimedOut, NewOrderRefused, NewOrderAccepted, FailIf
<1>3. Outside
    BY <1>1, <1>2, ResumeOutside
<1>4. CASE NewOrderTimedOut(c) \/ NewOrderRefused(c)
    BY <1>1, <1>3, <1>4, RejectNewLinked, StepFromAccount DEF NewOrderTimedOut, NewOrderRefused
<1>5. CASE NewOrderAccepted(c)
  <2> DEFINE x == exch[c].id
             a == IF ConfirmNewOrderError(acct, c) THEN acct ELSE ConfirmNewOrder(acct, c, x, 0)
  <2>1. /\ future[c].new \in {"New", "Expired", "Filled"}
        /\ future[c].new = "New" => acct' = a
        /\ future[c].new = "Expired" =>
              acct' = IF Known(a, x) THEN ConfirmExpiredOrder(a, x) ELSE a
        /\ future[c].new = "Filled" => acct' = IF Known(a, x) THEN PendingFilled(a, x) ELSE a
      BY <1>5 DEF NewOrderAccepted
  <2>2. x \in ExIDs
      BY <1>1, <2>1 DEF AnswersTrue, Types0, ExchangeOrder
  <2>3. Linked(a)
      BY <1>1, <2>2, ConfirmNewLinked DEF ConfirmNewOrderError
  <2>4. Known(a, x) => Find(a, x) = c
      BY <1>1, <2>2, <2>3, FindsOwn
  <2>5. future[c].new = "Expired" => exch[c].at = "Done"
      BY <1>1 DEF AnswersTrue
  <2> HIDE DEF a, x
  <2>6. CASE future[c].new = "New"
      BY <1>3, <2>1, <2>3, <2>6, StepFromAccount
  <2>7. CASE future[c].new = "Expired"
    <3>1. Known(a, x) => Linked(ConfirmExpiredOrder(a, x))
        BY <1>1, <2>3, <2>4, <2>5, <2>7, ExpiredLinked
    <3> QED
        BY <1>3, <2>1, <2>3, <2>7, <3>1, StepFromAccount
  <2>8. CASE future[c].new = "Filled"
    <3>1. Known(a, x) => Linked(PendingFilled(a, x))
        BY <2>3, PendingFilledLinked
    <3> QED
        BY <1>3, <2>1, <2>3, <2>8, <3>1, StepFromAccount
  <2> QED
      BY <2>1, <2>6, <2>7, <2>8
<1> QED
    BY <1>4, <1>5 DEF NewOrderResult

\* The result of a cancel, in whatever order it comes with the events, keeps the invariant.
LEMMA CancelResultStep ==
    ASSUME IInv, NEW c \in ClIDs, CancelResult(c) PROVE IInv'
<1>1. World /\ Types0 /\ EventsTrue /\ Linked(acct) /\ AnswersTrue(c)
    BY DEF IInv, World
<1>2. Resume("cancel", c) /\ phase' \in {phase, "failed"}
    BY DEF CancelResult, CancelRefused, CancelDone, CancelUnknown, FailIf
<1>3. Outside
    BY <1>1, <1>2, ResumeOutside
<1>4. CASE CancelRefused(c)
  <2>1. acct' = IF Known(acct, c) THEN RejectCancelOrder(acct, c, FALSE) ELSE acct
      BY <1>4 DEF CancelRefused
  <2>2. Known(acct, c) => Linked(RejectCancelOrder(acct, c, FALSE))
      BY <1>1, RejectCancelLinked
  <2> QED
      BY <1>1, <1>3, <2>1, <2>2, StepFromAccount
<1>5. CASE CancelDone(c)
  <2>1. /\ future[c].cancel = "ok"
        /\ acct' = IF Known(acct, c) THEN ConfirmCancelOrder(acct, c) ELSE acct
      BY <1>5 DEF CancelDone
  <2>2. Known(acct, c) => Linked(ConfirmCancelOrder(acct, c))
      BY <1>1, <2>1, FindsOwn, ExpiredLinked DEF AnswersTrue
  <2> QED
      BY <1>1, <1>3, <2>1, <2>2, StepFromAccount
<1>6. CASE CancelUnknown(c)
  <2> DEFINE a == RejectCancelOrder(acct, c, TRUE)
  <2>1. acct' = IF ~Known(acct, c) THEN acct
                ELSE IF RejectCancelOrderError(acct, c, TRUE) THEN a ELSE PendingFilled(a, c)
      BY <1>6 DEF CancelUnknown
  <2>2. Known(acct, c) => Linked(a) /\ (Known(a, c) <=> Known(acct, c))
      BY <1>1, RejectCancelLinked DEF Known, Find
  <2> HIDE DEF a
  <2>3. Known(acct, c) => Linked(PendingFilled(a, c))
      BY <2>2, PendingFilledLinked
  <2> QED
      BY <1>1, <1>3, <2>1, <2>2, <2>3, StepFromAccount
<1> QED
    BY <1>4, <1>5, <1>6 DEF CancelResult

\* What the head of the queue says is true.
LEMMA HeadTrue ==
    ASSUME Types0, EventsTrue, socket.q # <<>>
    PROVE  Head(socket.q) \in Event /\ EventTrue(Head(socket.q))
<1>1. PICK q \in Seq(Event) : q = socket.q
    BY DEF Types0
<1>2. Head(q) = q[1] /\ Head(q) \in Event /\ 1 \in 1..Len(q)
    BY <1>1
<1>3. EventTrue(q[1])
    BY <1>1, <1>2 DEF EventsTrue
<1> QED
    BY <1>1, <1>2, <1>3

\* An event of the stream keeps the invariant: it is applied, ignored, or fails the listener.
LEMMA WebsocketStep ==
    ASSUME IInv, OnWebsocketMessage PROVE IInv'
<1>1. World /\ Types0 /\ EventsTrue /\ Linked(acct)
    BY DEF IInv
<1>2. socket.q # <<>>
    BY DEF OnWebsocketMessage, OnNew, OnTrade, OnCanceled, OnExpired, Handle
<1>3. PICK e \in Event : e = Head(socket.q) /\ EventTrue(e)
    BY <1>1, <1>2, HeadTrue
<1>4. e.c \in ClIDs /\ e.id \in ExIDs /\ e.qty \in 0..MaxLots /\ e.id = exch[e.c].id
    BY <1>3 DEF Event, EventTrue
<1>5. CASE OnNew
  <2> DEFINE c == e.c
             a == IF Known(acct, c) THEN acct
                  ELSE NewOrder(acct, c, exch[c].side, exch[c].type, 1,
                                exch[c].leaves + exch[c].cum)
  <2>1. Handle("new") /\ acct' = ConfirmNewOrder(a, c, e.id, 0) /\ UNCHANGED <<pos, phase>>
      BY <1>3, <1>5 DEF OnNew
  <2>2. Outside
      BY <1>1, <2>1, HandleOutside DEF Types0
  <2>3. CASE Known(acct, c)
    <3>1. Linked(ConfirmNewOrder(acct, c, e.id, 0))
        BY <1>1, <1>4, <2>3, FindsOwn, ConfirmNewLinked
    <3> QED
        BY <2>1, <2>2, <2>3, <3>1, StepFromAccount
  <2>4. CASE ~Known(acct, c)
    <3>1. c \notin acct.ordersClID
        BY <1>1, <1>4, <2>4, FindsOwn
    <3>2. Linked(ConfirmNewOrder(NewOrder(acct, c, exch[c].side, exch[c].type, 1,
                                          exch[c].leaves + exch[c].cum), c, e.id, 0))
        BY <1>1, <1>4, <3>1, EnterConfirmedLinked
    <3> QED
        BY <2>1, <2>2, <2>4, <3>2, StepFromAccount
  <2> QED
      BY <2>3, <2>4
<1>6. CASE OnTrade
  <2> DEFINE error == ConfirmFillError(acct, e.id, e.qty)
  <2>1. /\ Handle("trade") /\ e.ev = "trade"
        /\ acct' = IF error THEN acct ELSE ConfirmFill(acct, e.id, e.qty)
        /\ pos' = IF error THEN pos
                  ELSE pos + Signed(acct.orders[Find(acct, e.id)].side, e.qty)
        /\ phase' \in {phase, "failed"}
      BY <1>3, <1>6 DEF OnTrade, Handle, FailIf
  <2>2. pos \in Int /\ Signed(acct.orders[Find(acct, e.id)].side, e.qty) \in Int
      BY <1>1, <1>4, AccountConstants DEF Types0, Signed
  <2>3. pos' \in Int
      BY <2>1, <2>2
  <2>4. Outside
      BY <1>1, <2>1, <2>3, HandleOutside
  <2>5. e.qty \in Lots /\ AccountInv(acct)
      BY <1>1, <1>3, <1>4, <2>1, AccountConstants DEF EventTrue, Lots, Linked
  <2>6. ~error => Linked(ConfirmFill(acct, e.id, e.qty))
      BY <1>1, <2>5, ConfirmFillInv, ConfirmFillMoves, LinkedMovesNothing
  <2> QED
      BY <1>1, <2>1, <2>4, <2>6, StepFromAccount
<1>7. CASE OnCanceled \/ OnExpired
  <2>1. PICK kind \in {"canceled", "expired"} :
          /\ Handle(kind) /\ e.ev = kind /\ UNCHANGED pos /\ phase' \in {phase, "failed"}
          /\ acct' \in {acct, ConfirmCancelOrder(acct, e.c), ConfirmExpiredOrder(acct, e.c)}
          /\ acct' = acct \/ Known(acct, e.c)
      BY <1>3, <1>7 DEF OnCanceled, OnExpired, Handle, FailIf
  <2>2. Outside
      BY <1>1, <2>1, HandleOutside DEF Types0
  <2>3. exch[e.c].at = "Done"
      BY <1>3, <2>1 DEF EventTrue
  <2>4. Known(acct, e.c) => /\ Linked(ConfirmExpiredOrder(acct, e.c))
                            /\ Linked(ConfirmCancelOrder(acct, e.c))
      BY <1>1, <1>4, <2>3, FindsOwn, ExpiredLinked
  <2> QED
      BY <1>1, <2>1, <2>2, <2>4, StepFromAccount
<1> QED
    BY <1>5, <1>6, <1>7 DEF OnWebsocketMessage

\* Timers, the failure and the restart of the listener keep the invariant.
LEMMA TickStep ==
    ASSUME IInv,
           CheckSocket \/ CheckAccount \/ (\E c \in ClIDs : Minute(c)) \/ Restart \/ Initialize
    PROVE  IInv'
<1>1. World /\ Types0 /\ EventsTrue /\ Linked(acct) /\ AccountInv(acct)
    BY DEF IInv, Linked
<1>2. Outside
    BY <1>1, TicksOutside
<1>3. CASE CheckSocket \/ Restart \/ SubscribeAccount \/ FetchPositions
    BY <1>2, <1>3, SameAccount DEF CheckSocket, Restart, SubscribeAccount, FetchPositions
<1>4. CASE CheckAccount
  <2>1. acct' = CleanOrders(acct)
      BY <1>4 DEF CheckAccount
  <2>2. Linked(CleanOrders(acct))
      BY <1>1, CleanOrdersInv, CleanOrdersMoves, LinkedMovesNothing
  <2> QED
      BY <1>2, <2>1, <2>2, StepFromAccount
<1>5. ASSUME NEW c \in ClIDs, Minute(c) PROVE IInv'
  <2>1. acct' = Age(acct, c) /\ Referenced(acct, c)
      BY <1>5 DEF Minute
  <2>2. Linked(Age(acct, c))
      BY <1>1, <2>1, AgeInv, AgeMoves, LinkedMovesNothing
  <2> QED
      BY <1>2, <2>1, <2>2, StepFromAccount
<1>6. CASE SyncAccount
  <2>1. acct' = Sync([c \in ClIDs |-> Listed(c)])
      BY <1>6 DEF SyncAccount
  <2>2. Linked(Sync([c \in ClIDs |-> Listed(c)]))
      BY <1>1, SyncLinked
  <2> QED
      BY <1>2, <2>1, <2>2, StepFromAccount
<1> QED
    BY <1>3, <1>4, <1>5, <1>6 DEF Initialize

\* Nothing at all happens.
LEMMA StutterStep ==
    ASSUME IInv, UNCHANGED vars PROVE IInv'
<1>1. /\ UNCHANGED <<acct, pos, phase, fetched, future, owed, socket, exch, exchPos, cancels>>
      /\ UNCHANGED <<mass, seamless, sent, hasty, faults>>
    BY DEF vars, actor, world, count
<1>2. World /\ Types0 /\ EventsTrue
    BY DEF IInv
<1>3. Types0'
    BY <1>1, <1>2 DEF Types0
<1>4. Outside
    BY <1>1, <1>2, <1>3, NoEventAdded, QuietOutside
<1> QED
    BY <1>1, <1>4, SameAccount

\* Every step keeps the invariant: one case for each group of actions.
LEMMA InvariantStep ==
    ASSUME IInv, [Next]_vars PROVE IInv'
<1>1. ASSUME NEW c \in ClIDs, NewOrderResult(c) \/ CancelResult(c) PROVE IInv'
    BY <1>1, NewOrderResultStep, CancelResultStep
<1>2. ASSUME \E c \in ClIDs : Minute(c) PROVE IInv'
    BY <1>2, TickStep
<1> QED
    BY <1>1, <1>2, UsersStep, ExchangeStep, FaultsStep, WebsocketStep, TickStep, StutterStep
       DEF Next

\* The invariant holds at first.
LEMMA InvariantInit ==
    ASSUME Init PROVE IInv
<1>1. Types0
  <2>1. socket \in [up : BOOLEAN, q : Seq(Event)]
      BY SocketShapes DEF Init
  <2>2. exch \in [ClIDs -> ExchangeOrder]
      BY AccountConstants DEF Init, ExchangeOrder
  <2>3. /\ {pos, fetched, exchPos} \subseteq Int
        /\ future \in [ClIDs -> [new : {"none", "waiting"} \cup NewAnswers,
                                 cancel : {"none", "waiting"} \cup CancelAnswers]]
      BY DEF Init
  <2>4. {mass, seamless, hasty} \subseteq BOOLEAN
      BY DEF Init
  <2> QED
      BY <2>1, <2>2, <2>3, <2>4, ListenerBounds DEF Init, Types0
<1>2. World
    BY DEF Init, World, ExchangeSound, AnswersTrue
<1>3. EventsTrue
    BY DEF Init, EventsTrue, NoSocket
<1>4. Linked(acct)
  <2>1. AccountInv(acct)
      BY NewAccountInv DEF Init
  <2>2. ASSUME NEW c \in ClIDs PROVE Agrees(acct, c)
      BY AccountConstants DEF Init, Agrees, NewAccount, Referenced, Blank
  <2> QED
      BY <2>1, <2>2 DEF Linked
<1> QED
    BY <1>1, <1>2, <1>3, <1>4 DEF IInv
----------------------------------------------------------------------------
(***************************************************************************)
(* The theorems.                                                           *)
(***************************************************************************)

\* The inductive invariant: what the account, the answers, the events and the
\* exchange say of an order agrees, whatever is lost, delayed or restarted.
THEOREM Consistent == Spec => []IInv
<1>1. Init => IInv
    BY InvariantInit
<1>2. IInv /\ [Next]_vars => IInv'
    BY InvariantStep
<1> QED
    BY <1>1, <1>2, PTL DEF Spec

\* The handlers of fbinance's account listener keep the account's own invariant,
\* in any interleaving with its earlier incarnations and the exchange.
THEOREM ListenerAccountSound == Spec => []AccountSound
<1>1. IInv => AccountSound
    BY DEF IInv, Types0, Linked, AccountInv, AccountSound, TypeOK
<1> QED
    BY <1>1, Consistent, PTL

\* No race of answers and events makes the account take a live order for
\* canceled or expired.
THEOREM NeverFalselyClosed == Spec => []NoFalseClose
<1>1. IInv => NoFalseClose
    BY DEF IInv, Linked, Agrees, NoFalseClose, Live
<1> QED
    BY <1>1, Consistent, PTL

----------------------------------------------------------------------------
(***************************************************************************)
(* The fills on their way.                                                 *)
(***************************************************************************)

\* s is the running sum of the first n numbers of v.
Sums(s, v, n) ==
    s \in [0..n -> Int] /\ s[0] = 0 /\ \A i \in 1..n : s[i] = s[i - 1] + v[i]

\* Every finite sequence of integers has the sequence of its partial sums.
LEMMA SumsExist ==
    ASSUME NEW L \in Nat, NEW v, \A i \in 1..L : v[i] \in Int
    PROVE  \E s : Sums(s, v, L)
<1> DEFINE T == {n \in Nat : n <= L => \E s : Sums(s, v, n)}
<1>2. 0 \in T
  <2>1. Sums([i \in 0..0 |-> 0], v, 0)
      BY DEF Sums
  <2> QED
      BY <2>1
<1>3. ASSUME NEW n \in Nat, n \in T PROVE n + 1 \in T
  <2>1. ASSUME n + 1 <= L PROVE \E s : Sums(s, v, n + 1)
    <3>1. n <= L /\ v[n + 1] \in Int
        BY <2>1
    <3>2. PICK s : Sums(s, v, n)
        BY <1>3, <3>1
    <3> DEFINE t == [i \in 0..(n + 1) |-> IF i = n + 1 THEN s[n] + v[n + 1] ELSE s[i]]
    <3>3. s[n] \in Int
        BY <3>2 DEF Sums
    <3>4. t \in [0..(n + 1) -> Int] /\ t[0] = 0
        BY <3>1, <3>2, <3>3 DEF Sums
    <3>5. ASSUME NEW i \in 1..(n + 1) PROVE t[i] = t[i - 1] + v[i]
      <4>1. CASE i = n + 1
          BY <3>2, <4>1 DEF Sums
      <4>2. CASE i \in 1..n
        <5>1. t[i] = s[i] /\ t[i - 1] = s[i - 1]
            BY <4>2
        <5> QED
            BY <3>2, <4>2, <5>1 DEF Sums
      <4> QED
          BY <4>1, <4>2
    <3> HIDE DEF t
    <3>6. Sums(t, v, n + 1)
        BY <3>4, <3>5 DEF Sums
    <3> QED
        BY <3>6
  <2> QED
      BY <2>1
<1>4. L \in T
  <2> HIDE DEF T
  <2> QED
      BY <1>2, <1>3, NatSetInduction
<1> QED
    BY <1>4

\* It has but one, so Total may take any.
LEMMA SumsUnique ==
    ASSUME NEW L \in Nat, NEW v, NEW s, Sums(s, v, L), NEW t, t[0] = 0,
           \A n \in 1..L : t[n] = t[n - 1] + v[n]
    PROVE  t[L] = s[L]
<1> DEFINE T == {n \in Nat : n <= L => t[n] = s[n]}
<1>2. 0 \in T
    BY DEF Sums
<1>3. ASSUME NEW n \in Nat, n \in T PROVE n + 1 \in T
  <2>1. ASSUME n + 1 <= L PROVE t[n + 1] = s[n + 1]
    <3>1. n + 1 \in 1..L /\ (n + 1) - 1 = n
        BY <2>1
    <3>2. t[n] = s[n]
        BY <1>3, <2>1
    <3>3. t[n + 1] = t[n] + v[n + 1] /\ s[n + 1] = s[n] + v[n + 1]
        BY <3>1 DEF Sums
    <3> QED
        BY <3>2, <3>3
  <2> QED
      BY <2>1
<1>4. L \in T
  <2> HIDE DEF T
  <2> QED
      BY <1>2, <1>3, NatSetInduction
<1> QED
    BY <1>4

\* Total is the last of the running sums.
LEMMA TotalIsLast ==
    ASSUME NEW v \in Seq(Int), NEW s, Sums(s, v, Len(v))
    PROVE  Total(v) = s[Len(v)] /\ Total(v) \in Int
<1> DEFINE Def(f) == [n \in 0..Len(v) |-> IF n = 0 THEN 0 ELSE f[n - 1] + v[n]]
           sum == CHOOSE f : f = Def(f)
<1>1. Len(v) \in Nat
    OBVIOUS
<1>2. s = Def(s)
    BY <1>1 DEF Sums
<1>3. sum = Def(sum)
    BY <1>2
<1>4. Total(v) = sum[Len(v)]
    BY DEF Total
<1> HIDE DEF sum
<1>5. sum[0] = 0
    BY <1>1, <1>3
<1>6. ASSUME NEW n \in 1..Len(v) PROVE sum[n] = sum[n - 1] + v[n]
  <2>1. n \in 0..Len(v) /\ n # 0
      BY <1>1
  <2> QED
      BY <1>3, <2>1
<1>7. sum[Len(v)] = s[Len(v)]
    BY <1>1, <1>5, <1>6, SumsUnique
<1> QED
    BY <1>1, <1>4, <1>7 DEF Sums

\* Zeros add up to zero.
LEMMA TotalNone ==
    ASSUME NEW v \in Seq(Int), \A i \in 1..Len(v) : v[i] = 0
    PROVE  Total(v) = 0
<1> DEFINE s == [n \in 0..Len(v) |-> 0]
<1>1. Sums(s, v, Len(v))
    BY DEF Sums
<1> QED
    BY <1>1, TotalIsLast

\* u is L numbers of v, and then M of w.
Joins(u, v, w, L, M) ==
    /\ \A i \in 1..L : u[i] = v[i]
    /\ \A i \in 1..M : u[L + i] = w[i] /\ w[i] \in Int

\* The partial sums of two sequences, one after the other.
LEMMA SumsAppend ==
    ASSUME NEW L \in Nat, NEW M \in Nat, NEW v, NEW w, NEW u, Joins(u, v, w, L, M),
           NEW s, Sums(s, v, L), NEW t, Sums(t, w, M)
    PROVE  \E r : Sums(r, u, L + M) /\ r[L + M] = s[L] + t[M]
<1> DEFINE r == [n \in 0..(L + M) |-> IF n <= L THEN s[n] ELSE s[L] + t[n - L]]
<1>1. ASSUME NEW n \in 0..L PROVE r[n] = s[n] /\ s[n] \in Int /\ n \in 0..(L + M)
    BY DEF Sums
<1>2. ASSUME NEW n \in 0..M
      PROVE  r[L + n] = s[L] + t[n] /\ t[n] \in Int /\ s[L] \in Int /\ L + n \in 0..(L + M)
  <2>1. L + n \in 0..(L + M) /\ L + n - L = n /\ t[n] \in Int /\ t[0] = 0 /\ s[L] \in Int
      BY DEF Sums
  <2>2. CASE n = 0
    <3>1. L + n = L /\ L <= L
        BY <2>2
    <3> QED
        BY <2>1, <2>2, <3>1
  <2>3. CASE n > 0
    <3>1. ~(L + n <= L)
        BY <2>3
    <3> QED
        BY <2>1, <3>1
  <2> QED
      BY <2>2, <2>3
<1>3. ASSUME NEW n \in 0..(L + M), n \notin 0..L PROVE \E j \in 1..M : n = L + j
  <2>1. n - L \in 1..M /\ n = L + (n - L)
      BY <1>3
  <2> QED
      BY <2>1
<1>4. r \in [0..(L + M) -> Int]
  <2>1. ASSUME NEW n \in 0..(L + M) PROVE r[n] \in Int
    <3>1. CASE n \in 0..L
        BY <1>1, <3>1
    <3>2. CASE n \notin 0..L
      <4>1. PICK j \in 1..M : n = L + j
          BY <1>3, <3>2
      <4>2. j \in 0..M
          OBVIOUS
      <4> HIDE DEF r
      <4> QED
          BY <1>2, <4>1, <4>2
    <3> QED
        BY <3>1, <3>2
  <2> QED
      BY <2>1
<1> HIDE DEF r
<1>5. r[0] = 0 /\ r[L + M] = s[L] + t[M]
    BY <1>1, <1>2 DEF Sums
<1>6. ASSUME NEW n \in 1..(L + M) PROVE r[n] = r[n - 1] + u[n]
  <2>1. CASE n \in 0..L
    <3>1. n \in 1..L /\ n - 1 \in 0..L
        BY <2>1
    <3> QED
        BY <1>1, <2>1, <3>1 DEF Sums, Joins
  <2>2. CASE n \notin 0..L
    <3>1. PICK j \in 1..M : n = L + j
        BY <1>3, <2>2
    <3>2. j \in 0..M /\ j - 1 \in 0..M /\ n - 1 = L + (j - 1)
        BY <3>1
    <3>3. r[n] = s[L] + t[j] /\ r[n - 1] = s[L] + t[j - 1] /\ t[j - 1] \in Int /\ s[L] \in Int
        BY <1>2, <3>1, <3>2
    <3>4. t[j] = t[j - 1] + w[j] /\ u[n] = w[j] /\ w[j] \in Int
        BY <3>1 DEF Sums, Joins
    <3> QED
        BY <3>3, <3>4
  <2> QED
      BY <2>1, <2>2
<1>7. Sums(r, u, L + M)
    BY <1>4, <1>5, <1>6 DEF Sums
<1> QED
    BY <1>5, <1>7

\* A sequence of integers has a length and partial sums.
LEMMA SumsOf ==
    ASSUME NEW v \in Seq(Int)
    PROVE  Len(v) \in Nat /\ \E s : Sums(s, v, Len(v))
<1>1. PICK L \in Nat : L = Len(v)
    OBVIOUS
<1>2. \A i \in 1..L : v[i] \in Int
    BY <1>1
<1>3. \E s : Sums(s, v, L)
    BY <1>2, SumsExist
<1> QED
    BY <1>1, <1>3

\* The total of two sequences joined is the sum of their totals.
LEMMA TotalJoins ==
    ASSUME NEW v \in Seq(Int), NEW w \in Seq(Int), NEW u \in Seq(Int),
           Len(u) = Len(v) + Len(w), Joins(u, v, w, Len(v), Len(w))
    PROVE  Total(u) = Total(v) + Total(w) /\ Total(v) \in Int /\ Total(w) \in Int
<1>1. PICK L \in Nat, M \in Nat : L = Len(v) /\ M = Len(w)
    OBVIOUS
<1>2. PICK s : Sums(s, v, L)
    BY <1>1, SumsOf
<1>3. PICK t : Sums(t, w, M)
    BY <1>1, SumsOf
<1>4. Joins(u, v, w, L, M)
    BY <1>1
<1>5. PICK r : Sums(r, u, L + M) /\ r[L + M] = s[L] + t[M]
    BY <1>2, <1>3, <1>4, SumsAppend
<1>6. Len(u) = L + M
    BY <1>1
<1>7. Total(u) = r[L + M]
    BY <1>5, <1>6, TotalIsLast
<1>8. Total(v) = s[L] /\ Total(w) = t[M] /\ Total(v) \in Int /\ Total(w) \in Int
    BY <1>1, <1>2, <1>3, TotalIsLast
<1> QED
    BY <1>5, <1>7, <1>8

\* What the events of a queue change the position by, when the exchange has the
\* orders e, and what they do together.
Values(q, e) == [i \in 1..Len(q) |-> Signed(e[q[i].c].side, q[i].qty)]
Worth(q, e)  == Total(Values(q, e))

\* The same as the property says it.
LEMMA QueuedIsWorth == Queued = Worth(socket.q, exch)
BY DEF Queued, Worth, Values, Value

\* The worth of each event is an integer.
LEMMA ValuesType ==
    ASSUME NEW q \in Seq(Event), NEW e
    PROVE  /\ Values(q, e) \in Seq(Int) /\ Len(Values(q, e)) = Len(q)
           /\ \A i \in 1..Len(q) : Values(q, e)[i] = Signed(e[q[i].c].side, q[i].qty)
<1>1. ASSUME NEW i \in 1..Len(q) PROVE Signed(e[q[i].c].side, q[i].qty) \in Int
  <2>1. q[i] \in Event
      OBVIOUS
  <2> QED
      BY <2>1, AccountConstants DEF Event, Signed
<1>2. Values(q, e) \in [1..Len(q) -> Int]
    BY <1>1 DEF Values
<1>3. Len(q) \in Nat
    OBVIOUS
<1>4. Values(q, e) \in Seq(Int) /\ Len(Values(q, e)) = Len(q)
    BY <1>2, <1>3
<1> QED
    BY <1>4 DEF Values

\* The worth of two stretches of the stream is the sum of theirs.
LEMMA WorthAppend ==
    ASSUME NEW q \in Seq(Event), NEW r \in Seq(Event), NEW e
    PROVE  /\ Worth(q \o r, e) = Worth(q, e) + Worth(r, e)
           /\ Worth(q, e) \in Int /\ Worth(r, e) \in Int
<1>1. PICK p \in Seq(Event) :
        /\ p = q \o r /\ Len(p) = Len(q) + Len(r)
        /\ \A i \in 1..Len(q) : p[i] = q[i] /\ i \in 1..Len(p)
        /\ \A i \in 1..Len(r) : p[Len(q) + i] = r[i] /\ Len(q) + i \in 1..Len(p)
  <2>1. /\ q \o r \in Seq(Event) /\ Len(q \o r) = Len(q) + Len(r)
        /\ \A i \in 1..Len(q) : (q \o r)[i] = q[i]
        /\ \A i \in 1..Len(r) : (q \o r)[Len(q) + i] = r[i]
      BY Concatenation
  <2>2. Len(q) \in Nat /\ Len(r) \in Nat
      OBVIOUS
  <2>3. /\ \A i \in 1..Len(q) : i \in 1..Len(q \o r)
        /\ \A i \in 1..Len(r) : Len(q) + i \in 1..Len(q \o r)
      BY <2>1, <2>2
  <2> QED
      BY <2>1, <2>3
<1>2. /\ Values(p, e) \in Seq(Int) /\ Len(Values(p, e)) = Len(p)
      /\ \A i \in 1..Len(p) : Values(p, e)[i] = Signed(e[p[i].c].side, p[i].qty)
    BY ValuesType
<1>3. /\ Values(q, e) \in Seq(Int) /\ Len(Values(q, e)) = Len(q)
      /\ \A i \in 1..Len(q) : Values(q, e)[i] = Signed(e[q[i].c].side, q[i].qty)
    BY ValuesType
<1>4. /\ Values(r, e) \in Seq(Int) /\ Len(Values(r, e)) = Len(r)
      /\ \A i \in 1..Len(r) : Values(r, e)[i] = Signed(e[r[i].c].side, r[i].qty)
    BY ValuesType
<1>5. \A i \in 1..Len(q) : Values(p, e)[i] = Values(q, e)[i]
    BY <1>1, <1>2, <1>3
<1>6. \A i \in 1..Len(r) : Values(p, e)[Len(q) + i] = Values(r, e)[i]
    BY <1>1, <1>2, <1>4
<1>7. \A i \in 1..Len(r) : Values(r, e)[i] \in Int
    BY <1>4
<1>8. Joins(Values(p, e), Values(q, e), Values(r, e), Len(q), Len(r))
    BY <1>5, <1>6, <1>7 DEF Joins
<1>9. /\ Total(Values(p, e)) = Total(Values(q, e)) + Total(Values(r, e))
      /\ Total(Values(q, e)) \in Int /\ Total(Values(r, e)) \in Int
  <2> DEFINE u == Values(p, e)
             v == Values(q, e)
             w == Values(r, e)
  <2>1. u \in Seq(Int) /\ v \in Seq(Int) /\ w \in Seq(Int)
      BY <1>2, <1>3, <1>4
  <2>2. Len(u) = Len(v) + Len(w) /\ Joins(u, v, w, Len(v), Len(w))
      BY <1>1, <1>2, <1>3, <1>4, <1>8
  <2> HIDE DEF u, v, w
  <2>3. Total(u) = Total(v) + Total(w) /\ Total(v) \in Int /\ Total(w) \in Int
      BY <2>1, <2>2, TotalJoins
  <2> QED
      BY <2>3 DEF u, v, w
<1> QED
    BY <1>1, <1>9 DEF Worth

\* The worth of a single event.
LEMMA WorthOne ==
    ASSUME NEW n \in Event, NEW e
    PROVE  Worth(<<n>>, e) = Signed(e[n.c].side, n.qty)
<1>1. PICK q \in Seq(Event) : q = <<n>> /\ Len(q) = 1 /\ q[1] = n
  <2>1. <<n>> \in Seq(Event) /\ Len(<<n>>) = 1 /\ <<n>>[1] = n
      BY Singletons
  <2> QED
      BY <2>1
<1>2. PICK x \in Int : x = Signed(e[n.c].side, n.qty)
    BY AccountConstants DEF Event, Signed
<1>3. PICK v \in Seq(Int) : v = Values(q, e) /\ Len(v) = 1 /\ v[1] = x
  <2>1. /\ Values(q, e) \in Seq(Int) /\ Len(Values(q, e)) = Len(q)
        /\ \A i \in 1..Len(q) : Values(q, e)[i] = Signed(e[q[i].c].side, q[i].qty)
      BY ValuesType
  <2>2. Len(Values(q, e)) = 1 /\ Values(q, e)[1] = x
      BY <1>1, <1>2, <2>1
  <2> QED
      BY <2>1, <2>2
<1> DEFINE s == [i \in 0..1 |-> IF i = 0 THEN 0 ELSE x]
<1>4. Sums(s, v, Len(v)) /\ s[1] = x
    BY <1>3 DEF Sums
<1> HIDE DEF s
<1>5. Total(v) = x
    BY <1>3, <1>4, TotalIsLast
<1> QED
    BY <1>1, <1>2, <1>3, <1>5 DEF Worth

\* Events that are no trades are worth nothing.
LEMMA WorthNone ==
    ASSUME NEW q \in Seq(Event), NEW e, \A i \in 1..Len(q) : q[i].qty = 0
    PROVE  Worth(q, e) = 0
<1>1. \A i \in 1..Len(q) : Values(q, e)[i] = 0
    BY ValuesType DEF Signed
<1> QED
    BY <1>1, ValuesType, TotalNone DEF Worth

\* The worth of a queue depends on the sides of its orders only.
LEMMA WorthSame ==
    ASSUME NEW q \in Seq(Event), NEW e, NEW f,
           \A i \in 1..Len(q) : e[q[i].c].side = f[q[i].c].side
    PROVE  Worth(q, e) = Worth(q, f)
<1>1. Values(q, e) = Values(q, f)
    BY DEF Values
<1> QED
    BY <1>1 DEF Worth

\* The worth of a stretch is that of its first event and of the rest.
LEMMA WorthTail ==
    ASSUME NEW q \in Seq(Event), q # <<>>, NEW e
    PROVE  /\ Worth(q, e) = Signed(e[Head(q).c].side, Head(q).qty) + Worth(Tail(q), e)
           /\ Worth(Tail(q), e) \in Int
<1>1. Head(q) \in Event /\ Tail(q) \in Seq(Event)
    OBVIOUS
<1>2. PICK n \in Event, r \in Seq(Event) : n = Head(q) /\ r = Tail(q)
    BY <1>1
<1>3. <<n>> \in Seq(Event)
    BY Singletons
<1>4. PICK h \in Seq(Event) : h = <<n>>
    BY <1>3
<1>5. q = <<Head(q)>> \o Tail(q)
    OBVIOUS
<1>6. q = h \o r
    BY <1>2, <1>4, <1>5
<1>7. Worth(q, e) = Worth(h, e) + Worth(r, e) /\ Worth(r, e) \in Int
    BY <1>6, WorthAppend
<1>8. Worth(h, e) = Signed(e[n.c].side, n.qty)
    BY <1>4, WorthOne
<1> QED
    BY <1>2, <1>7, <1>8

----------------------------------------------------------------------------
(***************************************************************************)
(* The stream has no gap, action by action.                                *)
(***************************************************************************)

\* What the queued events change the position by.
Backlog == Worth(socket.q, exch)

NoTradeQueued == \A i \in 1..Len(socket.q) : socket.q[i].ev # "trade"

\* The stream has no gap while the socket it began with is up, the events still
\* queued make up for what the position lacks, and a position that was fetched
\* before any fill was queued is up to date.
Stream ==
    /\ seamless => socket.up /\ phase \in {"running", "failed"}
    /\ phase = "running" /\ seamless => pos + Backlog = exchPos
    /\ phase = "orders" /\ socket.up /\ NoTradeQueued => fetched = exchPos

\* The events that are queued keep their worth whatever the exchange does.
LEMMA BacklogKept ==
    ASSUME IInv, Grows
    PROVE  Worth(socket.q, exch') = Backlog /\ Backlog \in Int
<1>1. PICK q \in Seq(Event) : q = socket.q
    BY DEF IInv, Types0
<1>2. PICK f : f = exch'
    OBVIOUS
<1>3. ASSUME NEW i \in 1..Len(q) PROVE f[q[i].c].side = exch[q[i].c].side
  <2>1. q[i] \in Event /\ q[i].c \in ClIDs /\ q[i].id # NoID
    <3>1. q[i] \in Event
        OBVIOUS
    <3> QED
        BY <3>1, AccountConstants DEF Event
  <2>2. exch[q[i].c].at # "None"
      BY <1>1, <2>1 DEF IInv, World, ExchangeSound, EventsTrue, EventTrue
  <2> QED
      BY <1>2, <2>1, <2>2 DEF Grows
<1>4. Worth(q, f) = Worth(q, exch)
    BY <1>3, WorthSame
<1> QED
    BY <1>1, <1>2, <1>4, WorthAppend DEF Backlog

\* The exchange does something and tells the stream of it.
LEMMA StreamEmits ==
    ASSUME IInv, Stream, Grows, NEW events \in Seq(Event), Emit(events),
           UNCHANGED <<pos, phase, fetched, seamless>>,
           exchPos' = exchPos + Worth(events, exch'),
           \A i \in 1..Len(events) : events[i].ev # "trade" => events[i].qty = 0
    PROVE  Stream'
<1>1. PICK q \in Seq(Event) : q = socket.q
    BY DEF IInv, Types0
<1>2. /\ socket'.up = socket.up
      /\ socket.up => socket'.q = q \o events
    BY <1>1, EmitShape DEF IInv
<1>3. /\ Worth(q, exch') = Backlog /\ Backlog \in Int /\ pos \in Int /\ exchPos \in Int
      /\ Worth(events, exch') \in Int
    BY <1>1, BacklogKept, WorthAppend DEF IInv, Types0
<1>4. socket.up => Backlog' = Backlog + Worth(events, exch')
  <2>1. PICK f : f = exch'
      OBVIOUS
  <2>2. Worth(q \o events, f) = Worth(q, f) + Worth(events, f)
      BY WorthAppend
  <2> QED
      BY <1>2, <1>3, <2>1, <2>2 DEF Backlog
<1>5. socket.up /\ NoTradeQueued' => NoTradeQueued /\ Worth(events, exch') = 0
  <2> SUFFICES ASSUME socket.up, NoTradeQueued'
               PROVE  NoTradeQueued /\ Worth(events, exch') = 0
      OBVIOUS
  <2>1. PICK p \in Seq(Event) :
          /\ p = socket'.q /\ Len(p) = Len(q) + Len(events)
          /\ \A i \in 1..Len(q) : p[i] = q[i]
          /\ \A i \in 1..Len(events) : p[Len(q) + i] = events[i]
    <3>1. /\ q \o events \in Seq(Event) /\ Len(q \o events) = Len(q) + Len(events)
          /\ \A i \in 1..Len(q) : (q \o events)[i] = q[i]
          /\ \A i \in 1..Len(events) : (q \o events)[Len(q) + i] = events[i]
        BY Concatenation
    <3> QED
        BY <1>2, <3>1
  <2>2. \A i \in 1..Len(p) : p[i].ev # "trade"
      BY <2>1 DEF NoTradeQueued
  <2>3. Len(q) \in Nat /\ Len(events) \in Nat
      OBVIOUS
  <2>4. ASSUME NEW i \in 1..Len(q) PROVE q[i].ev # "trade"
    <3>1. i \in 1..Len(p)
        BY <2>1, <2>3
    <3> QED
        BY <2>1, <2>2, <3>1
  <2>5. ASSUME NEW i \in 1..Len(events) PROVE events[i].qty = 0
    <3>1. Len(q) + i \in 1..Len(p)
        BY <2>1, <2>3
    <3> QED
        BY <2>1, <2>2, <3>1
  <2>6. PICK f : f = exch'
      OBVIOUS
  <2>7. Worth(events, f) = 0
      BY <2>5, WorthNone
  <2> QED
      BY <1>1, <2>4, <2>6, <2>7 DEF NoTradeQueued
<1>6. /\ seamless' => socket'.up /\ phase' \in {"running", "failed"}
      /\ seamless => socket.up
      /\ phase' = "running" /\ seamless' => pos + Backlog = exchPos
      /\ phase' = "orders" /\ socket.up /\ NoTradeQueued => fetched = exchPos
    BY <1>2 DEF Stream
<1>7. phase' = "running" /\ seamless' => pos' + Backlog' = exchPos'
    BY <1>3, <1>4, <1>6
<1>8. phase' = "orders" /\ socket'.up /\ NoTradeQueued' => fetched' = exchPos'
    BY <1>2, <1>3, <1>5, <1>6
<1> QED
    BY <1>6, <1>7, <1>8 DEF Stream

\* Nothing reaches the stream, and nothing leaves it.
LEMMA StreamQuiet ==
    ASSUME IInv, Stream, Grows, phase' \in {phase, "failed"},
           UNCHANGED <<pos, fetched, seamless, exchPos, socket>>
    PROVE  Stream'
<1>1. Backlog' = Backlog
    BY BacklogKept DEF Backlog
<1>2. NoTradeQueued' = NoTradeQueued
    BY DEF NoTradeQueued
<1>3. /\ seamless' => socket'.up /\ phase' \in {"running", "failed"}
      /\ phase' = "running" /\ seamless' => pos' + Backlog' = exchPos'
      /\ phase' = "orders" /\ socket'.up /\ NoTradeQueued' => fetched' = exchPos'
    BY <1>1, <1>2 DEF Stream
<1> QED
    BY <1>3 DEF Stream

\* The exchange tells the stream of one event, or of two.
LEMMA StreamEmitsOne ==
    ASSUME IInv, Stream, Grows, NEW n \in Event, Emit(<<n>>),
           UNCHANGED <<pos, phase, fetched, seamless>>,
           exchPos' = exchPos + Signed(exch'[n.c].side, n.qty),
           n.ev # "trade" => n.qty = 0
    PROVE  Stream'
<1>1. PICK f : f = exch'
    OBVIOUS
<1>2. PICK es \in Seq(Event) : es = <<n>> /\ Len(es) = 1 /\ es[1] = n
  <2>1. <<n>> \in Seq(Event) /\ Len(<<n>>) = 1 /\ <<n>>[1] = n
      BY Singletons
  <2> QED
      BY <2>1
<1>3. Worth(es, f) = Signed(f[n.c].side, n.qty)
    BY <1>2, WorthOne
<1>4. exchPos' = exchPos + Worth(es, exch')
    BY <1>1, <1>3
<1>5. \A i \in 1..Len(es) : es[i].ev # "trade" => es[i].qty = 0
    BY <1>2
<1> QED
    BY <1>2, <1>4, <1>5, StreamEmits

\* Two events of which the second alone may be a trade, and the position moves by that trade.
LEMMA StreamEmitsTwo ==
    ASSUME IInv, Stream, Grows, NEW n \in Event, NEW m \in Event, Emit(<<n, m>>),
           UNCHANGED <<pos, phase, fetched, seamless>>, n.qty = 0,
           exchPos' = exchPos + Signed(exch'[m.c].side, m.qty),
           m.ev # "trade" => m.qty = 0
    PROVE  Stream'
<1>1. PICK f : f = exch'
    OBVIOUS
<1>2. PICK es \in Seq(Event), a \in Seq(Event), b \in Seq(Event) :
        /\ a = <<n>> /\ b = <<m>> /\ es = a \o b /\ es = <<n, m>>
        /\ Len(es) = 2 /\ es[1] = n /\ es[2] = m
  <2>1. /\ <<n>> \in Seq(Event) /\ <<m>> \in Seq(Event) /\ <<n, m>> \in Seq(Event)
        /\ Len(<<n, m>>) = 2 /\ <<n, m>>[1] = n /\ <<n, m>>[2] = m
      BY Singletons
  <2>2. <<n, m>> = <<n>> \o <<m>>
      BY Pairs
  <2> QED
      BY <2>1, <2>2
<1>3. Worth(a, f) = Signed(f[n.c].side, n.qty) /\ Worth(b, f) = Signed(f[m.c].side, m.qty)
    BY <1>2, WorthOne
<1>4. Worth(es, f) = Worth(a, f) + Worth(b, f) /\ Worth(b, f) \in Int
  <2>1. Worth(a \o b, f) = Worth(a, f) + Worth(b, f) /\ Worth(b, f) \in Int
      BY WorthAppend
  <2> QED
      BY <1>2, <2>1
<1>5. Worth(a, f) = 0
  <2>1. \A s : \A k \in Int : k <= 0 /\ k >= 0 => Signed(s, k) = 0
      BY DEF Signed
  <2>2. Signed(f[n.c].side, n.qty) = 0
      BY <2>1
  <2> QED
      BY <1>3, <2>2
<1>6. exchPos' = exchPos + Worth(es, exch')
    BY <1>1, <1>3, <1>4, <1>5
<1>7. \A i \in 1..Len(es) : es[i].ev # "trade" => es[i].qty = 0
    BY <1>2
<1> QED
    BY <1>2, <1>6, <1>7, StreamEmits

\* A new order that the exchange takes adds its trade to the position and to the stream alike.
LEMMA AcceptStream ==
    ASSUME IInv, Stream, NEW c \in ClIDs, Accept(c) PROVE Stream'
<1>1. Grows /\ UNCHANGED <<pos, phase, fetched, seamless>>
    BY AcceptOutside DEF IInv, Outside, Accept
<1>2. PICK x \in ExIDs :
        \/ /\ Emit(<<Happened("new", c, x, 0)>>)
           /\ exchPos' = exchPos
        \/ /\ Emit(<<Happened("new", c, x, 0), Happened("trade", c, x, exch[c].leaves)>>)
           /\ exchPos' = exchPos + Signed(exch[c].side, exch[c].leaves)
        \/ /\ Emit(<<Happened("new", c, x, 0), Happened("expired", c, x, 0)>>)
           /\ exchPos' = exchPos
    BY DEF Accept
<1>3. /\ exch[c].leaves \in 0..MaxLots /\ 0 \in 0..MaxLots /\ exchPos \in Int
      /\ exch'[c].side = exch[c].side
    BY <1>1, AccountConstants DEF IInv, Types0, ExchangeOrder, Accept, Grows
<1>4. PICK n \in Event, m \in Event, k \in Event :
        /\ n = Happened("new", c, x, 0) /\ n.ev = "new" /\ n.c = c /\ n.qty = 0
        /\ m = Happened("trade", c, x, exch[c].leaves)
        /\ m.ev = "trade" /\ m.c = c /\ m.qty = exch[c].leaves
        /\ k = Happened("expired", c, x, 0) /\ k.ev = "expired" /\ k.c = c /\ k.qty = 0
    BY <1>3, HappenedShape
<1>5. CASE Emit(<<n>>) /\ exchPos' = exchPos
  <2>1. exchPos' = exchPos + Signed(exch'[n.c].side, n.qty)
      BY <1>3, <1>4, <1>5 DEF Signed
  <2> QED
      BY <1>1, <1>4, <1>5, <2>1, StreamEmitsOne
<1>6. CASE Emit(<<n, m>>) /\ exchPos' = exchPos + Signed(exch[c].side, exch[c].leaves)
  <2>1. exchPos' = exchPos + Signed(exch'[m.c].side, m.qty)
      BY <1>3, <1>4, <1>6
  <2> QED
      BY <1>1, <1>4, <1>6, <2>1, StreamEmitsTwo
<1>7. CASE Emit(<<n, k>>) /\ exchPos' = exchPos
  <2>1. exchPos' = exchPos + Signed(exch'[k.c].side, k.qty)
      BY <1>3, <1>4, <1>7 DEF Signed
  <2> QED
      BY <1>1, <1>4, <1>7, <2>1, StreamEmitsTwo
<1> QED
    BY <1>2, <1>4, <1>5, <1>6, <1>7

\* A trade moves the position and the stream alike.
LEMMA TradeStream ==
    ASSUME IInv, Stream, NEW c \in ClIDs, NEW qty \in Lots, Trade(c, qty) PROVE Stream'
<1>1. Grows /\ UNCHANGED <<pos, phase, fetched, seamless>>
    BY TradeOutside DEF IInv, Outside, Trade, actor
<1>2. /\ exch[c].at = "Live" /\ exch[c].id \in ExIDs /\ qty \in 0..MaxLots
      /\ exch'[c].side = exch[c].side
    BY <1>1, AccountConstants
       DEF IInv, World, ExchangeSound, Types0, ExchangeOrder, Trade, Live, Lots, Grows
<1>3. PICK n \in Event :
        /\ n = Happened("trade", c, exch[c].id, qty)
        /\ n.ev = "trade" /\ n.c = c /\ n.qty = qty
    BY <1>2, HappenedShape
<1>4. Emit(<<n>>) /\ exchPos' = exchPos + Signed(exch'[n.c].side, n.qty)
    BY <1>2, <1>3 DEF Trade
<1> QED
    BY <1>1, <1>3, <1>4, StreamEmitsOne

\* An order placed elsewhere moves neither.
LEMMA ForeignOrderStream ==
    ASSUME IInv, Stream, NEW c \in ClIDs, NEW side \in Sides, NEW qty \in Lots,
           ForeignOrder(c, side, qty)
    PROVE  Stream'
<1>1. Grows /\ UNCHANGED <<pos, phase, fetched, seamless, exchPos>>
    BY ForeignOrderOutside DEF IInv, Outside, ForeignOrder, actor
<1>2. PICK x \in ExIDs : Emit(<<Happened("new", c, x, 0)>>)
    BY DEF ForeignOrder
<1>3. 0 \in 0..MaxLots /\ exchPos \in Int
    BY AccountConstants DEF IInv, Types0
<1>4. PICK n \in Event : n = Happened("new", c, x, 0) /\ n.ev = "new" /\ n.qty = 0
    BY <1>3, HappenedShape
<1>5. Emit(<<n>>) /\ exchPos' = exchPos + Signed(exch'[n.c].side, n.qty)
    BY <1>1, <1>2, <1>3, <1>4 DEF Signed
<1> QED
    BY <1>1, <1>4, <1>5, StreamEmitsOne

\* A cancel moves neither.
LEMMA CarryOutCancelStream ==
    ASSUME IInv, Stream, NEW c \in ClIDs, CarryOutCancel(c) PROVE Stream'
<1>1. Grows /\ UNCHANGED <<pos, phase, fetched, seamless, exchPos>>
    BY CarryOutCancelOutside DEF IInv, Outside, CarryOutCancel
<1>2. CASE ~Live(c)
    BY <1>1, <1>2, StreamQuiet, SMTT(30) DEF CarryOutCancel
<1>3. CASE Live(c)
  <2>1. exch[c].id \in ExIDs /\ 0 \in 0..MaxLots /\ exchPos \in Int
      BY <1>3, AccountConstants DEF IInv, World, ExchangeSound, Types0, ExchangeOrder, Live
  <2>2. PICK n \in Event :
          n = Happened("canceled", c, exch[c].id, 0) /\ n.ev = "canceled" /\ n.qty = 0
      BY <2>1, HappenedShape
  <2>3. Emit(<<n>>) /\ exchPos' = exchPos + Signed(exch'[n.c].side, n.qty)
      BY <1>1, <1>3, <2>1, <2>2 DEF CarryOutCancel, Signed
  <2> QED
      BY <1>1, <2>2, <2>3, StreamEmitsOne
<1> QED
    BY <1>2, <1>3

\* A mass cancel moves neither.
LEMMA CarryOutMassCancelStream ==
    ASSUME IInv, Stream, CarryOutMassCancel PROVE Stream'
<1> DEFINE L == {d \in ClIDs : Live(d)}
           S == {Happened("canceled", d, exch[d].id, 0) : d \in L}
<1>1. Grows /\ UNCHANGED <<pos, phase, fetched, seamless, exchPos>>
    BY CarryOutMassCancelOutside DEF IInv, Outside, CarryOutMassCancel, actor
<1>2. PICK events \in SetToSeqs(S) : Emit(events)
    BY DEF CarryOutMassCancel
<1>3. ASSUME NEW n \in S PROVE n \in Event /\ n.qty = 0
  <2>1. PICK d \in ClIDs : Live(d) /\ n = Happened("canceled", d, exch[d].id, 0)
      BY <1>3
  <2>2. exch[d].id \in ExIDs /\ 0 \in 0..MaxLots
      BY <2>1, AccountConstants DEF IInv, World, ExchangeSound, Types0, ExchangeOrder, Live
  <2> QED
      BY <2>1, <2>2, HappenedShape
<1>4. events \in Seq(Event) /\ \A i \in 1..Len(events) : events[i] \in S
  <2>1. S \in SUBSET Event /\ IsFiniteSet(S)
    <3>1. IsFiniteSet(S)
        BY CanceledFinite
    <3> HIDE DEF S
    <3> QED
        BY <1>3, <3>1
  <2> HIDE DEF S
  <2> QED
      BY <2>1, SequencesOf
<1> HIDE DEF S
<1>5. \A i \in 1..Len(events) : events[i].qty = 0
    BY <1>3, <1>4
<1>6. PICK f : f = exch'
    OBVIOUS
<1>7. Worth(events, f) = 0
    BY <1>4, <1>5, WorthNone
<1>8. exchPos' = exchPos + Worth(events, exch')
    BY <1>1, <1>6, <1>7 DEF IInv, Types0
<1> QED
    BY <1>1, <1>2, <1>4, <1>5, <1>8, StreamEmits

\* The exchange's own steps keep the stream's balance.
LEMMA ExchangeStream ==
    ASSUME IInv, Stream, Exchange PROVE Stream'
<1>1. World /\ Types0 /\ EventsTrue
    BY DEF IInv
<1>2. ASSUME NEW c \in ClIDs, RefuseNew(c) PROVE Stream'
    BY <1>1, <1>2, RefuseNewOutside, StreamQuiet DEF RefuseNew, Outside
<1>3. ASSUME NEW c \in ClIDs, RefuseCancel(c) PROVE Stream'
    BY <1>1, <1>3, RefuseCancelOutside, StreamQuiet DEF RefuseCancel, Outside
<1> QED
    BY <1>2, <1>3, AcceptStream, CarryOutCancelStream, TradeStream, ForeignOrderStream,
       CarryOutMassCancelStream DEF Exchange, Arrivals, CancelArrivals

\* The requests of the users keep the stream's balance.
LEMMA UsersStream ==
    ASSUME IInv, Stream, Users PROVE Stream'
<1>1. World /\ Types0 /\ EventsTrue
    BY DEF IInv
<1>2. ASSUME NEW c \in ClIDs, NEW s \in Sides, NEW t \in Types, NEW q \in Lots,
             OnNewOrderSingleRequest(c, s, t, q)
      PROVE  Stream'
  <2>1. Grows
      BY <1>1, <1>2, NewRequestOutside DEF Outside
  <2> QED
      BY <1>2, <2>1, StreamQuiet DEF OnNewOrderSingleRequest
<1>3. ASSUME NEW c \in ClIDs, OnOrderCancelRequest(c) PROVE Stream'
  <2>1. Grows
      BY <1>1, <1>3, CancelRequestOutside DEF Outside
  <2> QED
      BY <1>3, <2>1, StreamQuiet DEF OnOrderCancelRequest
<1> QED
    BY <1>2, <1>3 DEF Users

\* Faults: a cut stream is not seamless, and a failed actor starts anew.
LEMMA FaultsStream ==
    ASSUME IInv, Stream, Faults PROVE Stream'
<1>1. World /\ Types0 /\ EventsTrue
    BY DEF IInv
<1>2. ASSUME NEW c \in ClIDs, NEW request \in {"new", "cancel"}, LoseAnswer(request, c)
      PROVE  Stream'
  <2>1. Grows
      BY <1>1, <1>2, LoseAnswerOutside DEF Outside
  <2> QED
      BY <1>2, <2>1, StreamQuiet DEF LoseAnswer, world
<1>3. CASE LoseMassCancel \/ FetchFails
  <2>1. Grows
      BY <1>1, <1>3, FaultsOutside DEF Outside
  <2> QED
      BY <1>3, <2>1, StreamQuiet DEF LoseMassCancel, FetchFails, world, actor
<1>4. CASE SocketFails
  <2>1. socket'.up = FALSE /\ seamless' = FALSE
      BY <1>1, <1>4 DEF SocketFails, Types0
  <2> QED
      BY <2>1 DEF Stream
<1>5. CASE InitializeFails
  <2>1. seamless' = seamless /\ ~seamless /\ phase' = "subscribe"
      BY <1>5 DEF InitializeFails, Stream
  <2> QED
      BY <2>1 DEF Stream
<1> QED
    BY <1>2, <1>3, <1>4, <1>5 DEF Faults

\* The results of requests keep the stream's balance: they book no fill.
LEMMA ResultsStream ==
    ASSUME IInv, Stream, NEW c \in ClIDs, NewOrderResult(c) \/ CancelResult(c) PROVE Stream'
<1>1. /\ Resume("new", c) \/ Resume("cancel", c)
      /\ phase' \in {phase, "failed"}
    BY DEF NewOrderResult, NewOrderTimedOut, NewOrderRefused, NewOrderAccepted,
           CancelResult, CancelRefused, CancelDone, CancelUnknown, FailIf
<1>2. UNCHANGED <<pos, fetched, seamless, exchPos, socket, exch>>
    BY <1>1 DEF Resume, world
<1>3. Grows
    BY <1>2 DEF Grows
<1> QED
    BY <1>1, <1>2, <1>3, StreamQuiet

\* An event is handled: the fill it carries moves from the queue to the position,
\* on the side the account knows of the order, or the actor fails.
LEMMA WebsocketStream ==
    ASSUME IInv, Stream, OnWebsocketMessage PROVE Stream'
<1>1. World /\ Types0 /\ EventsTrue /\ Linked(acct)
    BY DEF IInv
<1>2. PICK kind \in {"new", "trade", "canceled", "expired"} : Handle(kind)
    BY DEF OnWebsocketMessage, OnNew, OnTrade, OnCanceled, OnExpired
<1>3. /\ socket.q # <<>> /\ Head(socket.q).ev = kind /\ phase = "running"
      /\ socket' = [socket EXCEPT !.q = Tail(socket.q)]
      /\ UNCHANGED <<fetched, exch, exchPos, seamless>>
    BY <1>2 DEF Handle, world
<1>4. PICK e \in Event : e = Head(socket.q) /\ EventTrue(e)
    BY <1>1, <1>3, HeadTrue
<1>5. PICK q \in Seq(Event) : q = socket.q
    BY <1>1 DEF Types0
<1>6. socket'.up = socket.up /\ socket'.q = Tail(q)
    BY <1>1, <1>3, <1>5 DEF Types0
<1>7. /\ Backlog = Signed(exch[e.c].side, e.qty) + Backlog'
      /\ Backlog' \in Int /\ Signed(exch[e.c].side, e.qty) \in Int
  <2>1. /\ Worth(q, exch) = Signed(exch[e.c].side, e.qty) + Worth(Tail(q), exch)
        /\ Worth(Tail(q), exch) \in Int
      BY <1>3, <1>4, <1>5, WorthTail
  <2>2. e.qty \in Int
      BY AccountConstants DEF Event
  <2> QED
      BY <1>3, <1>5, <1>6, <2>1, <2>2 DEF Backlog, Signed
<1>8. pos \in Int /\ exchPos \in Int
    BY <1>1 DEF Types0
<1>9. CASE phase' = "failed"
    BY <1>3, <1>6, <1>9 DEF Stream
<1>10. CASE phase' = phase /\ pos' = pos + Signed(exch[e.c].side, e.qty)
  <2>1. seamless' => pos' + Backlog' = exchPos'
      BY <1>3, <1>7, <1>8, <1>10 DEF Stream
  <2> QED
      BY <1>3, <1>6, <1>10, <2>1 DEF Stream
<1>11. CASE kind # "trade"
  <2>1. e.qty = 0
      BY <1>3, <1>4, <1>11, AccountConstants DEF EventTrue, Event
  <2>2. \A s : \A k \in Int : k <= 0 /\ k >= 0 => Signed(s, k) = 0
      BY DEF Signed
  <2>3. pos' = pos /\ phase' \in {phase, "failed"}
      BY <1>3, <1>11 DEF OnWebsocketMessage, OnNew, OnTrade, OnCanceled, OnExpired, FailIf, Handle
  <2>4. Signed(exch[e.c].side, e.qty) = 0
      BY <2>1, <2>2
  <2> QED
      BY <1>8, <1>9, <1>10, <2>3, <2>4
<1>12. CASE kind = "trade"
  <2> DEFINE error == ConfirmFillError(acct, e.id, e.qty)
  <2>1. /\ pos' = IF error THEN pos
                  ELSE pos + Signed(acct.orders[Find(acct, e.id)].side, e.qty)
        /\ phase' = IF error THEN "failed" ELSE phase
      BY <1>3, <1>4, <1>12
         DEF OnWebsocketMessage, OnNew, OnTrade, OnCanceled, OnExpired, FailIf, Handle
  <2>2. CASE error
      BY <1>9, <2>1, <2>2
  <2>3. CASE ~error
    <3>1. e.c \in ClIDs /\ e.id \in ExIDs /\ e.id = exch[e.c].id /\ Known(acct, e.id)
        BY <1>4, <2>3 DEF Event, EventTrue, ConfirmFillError
    <3>2. Find(acct, e.id) = e.c
        BY <1>1, <3>1, FindsOwn
    <3>3. Referenced(acct, e.c)
        BY <1>1, <3>1, <3>2, AccountConstants
           DEF Known, Find, Referenced, Linked, AccountInv, AccountType
    <3>4. acct.orders[e.c].side = exch[e.c].side
        BY <1>1, <3>1, <3>3 DEF Linked, Agrees
    <3> QED
        BY <1>10, <2>1, <2>3, <3>2, <3>4
  <2> QED
      BY <2>2, <2>3
<1> QED
    BY <1>11, <1>12
\* A failure breaks the balance, a fetched position restores it.
LEMMA TicksStream ==
    ASSUME IInv, Stream,
           CheckSocket \/ CheckAccount \/ (\E c \in ClIDs : Minute(c)) \/ Restart \/ Initialize
    PROVE  Stream'
<1>1. World /\ Types0 /\ EventsTrue
    BY DEF IInv
<1>2. UNCHANGED <<exch, exchPos>> /\ Grows
    BY DEF CheckSocket, CheckAccount, Minute, Restart, Initialize,
           SubscribeAccount, FetchPositions, SyncAccount, world, actor, Grows
<1>3. CASE CheckSocket
    BY <1>3 DEF CheckSocket, Stream, actor
<1>4. CASE CheckAccount \/ \E c \in ClIDs : Minute(c)
  <2>1. /\ phase' \in {phase, "failed"}
        /\ UNCHANGED <<pos, fetched, seamless, exchPos, socket>>
      BY <1>4 DEF CheckAccount, Minute, FailIf, actor, world
  <2> QED
      BY <1>2, <2>1, StreamQuiet
<1>5. CASE Restart
    BY <1>5 DEF Restart, Stream
<1>6. CASE SubscribeAccount
    BY <1>6 DEF SubscribeAccount, Stream
<1>7. CASE FetchPositions
  <2>1. /\ phase = "positions" /\ phase' = "orders" /\ fetched' = exchPos'
        /\ UNCHANGED <<seamless, socket>>
      BY <1>7 DEF FetchPositions, world
  <2> QED
      BY <2>1 DEF Stream
<1>8. CASE SyncAccount
  <2>1. /\ phase = "orders" /\ phase' = "running" /\ pos' = fetched
        /\ seamless' = (socket.up /\ NoTradeQueued)
        /\ UNCHANGED <<socket, exch, exchPos>>
      BY <1>8 DEF SyncAccount, world, NoTradeQueued
  <2>2. NoTradeQueued => Backlog = 0
    <3> SUFFICES ASSUME NoTradeQueued PROVE Backlog = 0
        OBVIOUS
    <3>1. PICK q \in Seq(Event) : q = socket.q
        BY <1>1 DEF Types0
    <3>2. ASSUME NEW i \in 1..Len(q) PROVE q[i].qty = 0
      <4>1. EventTrue(q[i]) /\ q[i].ev # "trade"
          BY <1>1, <3>1 DEF EventsTrue, NoTradeQueued
      <4>2. q[i].qty \in 0..MaxLots
        <5>1. q[i] \in Event
            OBVIOUS
        <5> QED
            BY <5>1 DEF Event
      <4> QED
          BY <4>1, <4>2, AccountConstants DEF EventTrue
    <3>3. Worth(q, exch) = 0
        BY <3>2, WorthNone
    <3> QED
        BY <3>1, <3>3 DEF Backlog
  <2>3. Backlog' = Backlog
      BY <2>1 DEF Backlog
  <2>4. seamless' => pos' + Backlog' = exchPos'
      BY <1>1, <2>1, <2>2, <2>3 DEF Stream, Types0
  <2> QED
      BY <2>1, <2>4 DEF Stream
<1> QED
    BY <1>3, <1>4, <1>5, <1>6, <1>7, <1>8 DEF Initialize

\* Every step keeps the stream's balance.
LEMMA StreamStep ==
    ASSUME IInv, Stream, [Next]_vars PROVE Stream'
<1>1. ASSUME NEW c \in ClIDs, NewOrderResult(c) \/ CancelResult(c) PROVE Stream'
    BY <1>1, ResultsStream
<1>2. ASSUME \E c \in ClIDs : Minute(c) PROVE Stream'
    BY <1>2, TicksStream
<1>3. CASE UNCHANGED vars
  <2>1. UNCHANGED <<exch, exchPos, socket, pos, fetched, seamless, phase>>
      BY <1>3 DEF vars, actor, world
  <2>2. Grows
      BY <2>1 DEF Grows
  <2> QED
      BY <2>1, <2>2, StreamQuiet
<1> QED
    BY <1>1, <1>2, <1>3, UsersStream, ExchangeStream, FaultsStream, WebsocketStream, TicksStream
       DEF Next

\* As long as the stream had no gap and Sync no fill in flight, the position and
\* the fills still queued make the exchange's position: no fill is lost, and none
\* counts twice.
THEOREM FillsArrive == Spec => []NoFillLost
<1>1. Init => Stream
    BY DEF Init, Stream
<1>2. IInv /\ Stream /\ [Next]_vars => Stream'
    BY StreamStep
<1>3. Stream => NoFillLost
    BY QueuedIsWorth DEF Stream, Backlog, NoFillLost
<1> QED
    BY <1>1, <1>2, <1>3, Consistent, PTL DEF Spec

----------------------------------------------------------------------------
(***************************************************************************)
(* The live orders.  What the account has left of an order is what the     *)
(* exchange has left of it and the fills of it that are still queued; an   *)
(* order the account does not have yet has its first event in the queue.   *)
(***************************************************************************)

\* How much of order c the queued events execute.
Shares(q, c) == [i \in 1..Len(q) |-> IF q[i].c = c THEN q[i].qty ELSE 0]
Fills(q, c)  == Total(Shares(q, c))

\* The first event of order c is queued.
News(q, c) == \E i \in 1..Len(q) : q[i].ev = "new" /\ q[i].c = c

\* Before an order is announced no event tells of it, and what it has executed
\* by now is queued behind the announcement.
NewsFirst(q) == \A i, j \in 1..Len(q) : q[i].ev = "new" /\ q[j].c = q[i].c => i <= j
FillsFollow(q, e) == \A c \in ClIDs : News(q, c) => Fills(q, c) = e[c].cum

\* Account a has order c, which is o at the exchange, and the queue q tells the rest.
Mine(a, o, q, c) ==
    /\ a.ordersID[o.id] = c
    /\ a.orders[c].status \notin ClosedStatus
    /\ a.orders[c].leaves = o.leaves + Fills(q, c)

\* Account a will learn of order c from the queue; its own order is unconfirmed.
Awaited(a, o, q, c) ==
    /\ News(q, c)
    /\ c \in a.ordersClID => /\ a.orders[c].status = "PendingNew"
                             /\ a.orders[c].leaves = o.leaves + o.cum

OnTrack(a, o, q, c) ==
    /\ o.at = "Sent" /\ c \in a.ordersClID => /\ a.orders[c].status = "PendingNew"
                                              /\ a.orders[c].leaves = o.leaves
    /\ o.at = "Live" => Mine(a, o, q, c) \/ Awaited(a, o, q, c)

\* An order is done when its answer says it is filled.  If no user has canceled
\* an order before it was confirmed, no cancel request overtakes its order.
Timely(c) ==
    /\ future[c].new = "Filled" => exch[c].at = "Done"
    /\ ~hasty => /\ c \in cancels => exch[c].at \notin {"None", "Sent"}
                 /\ future[c].cancel = "unknown" => exch[c].at = "Done"

Tracking ==
    /\ \A c \in ClIDs : Timely(c)
    /\ socket.up => NewsFirst(socket.q) /\ FillsFollow(socket.q, exch)
    /\ phase = "running" /\ seamless /\ ~hasty =>
          \A c \in ClIDs : OnTrack(acct, exch[c], socket.q, c)

\* The share of each event is a number.
LEMMA SharesType ==
    ASSUME NEW q \in Seq(Event), NEW c
    PROVE  /\ Shares(q, c) \in Seq(Int) /\ Len(Shares(q, c)) = Len(q)
           /\ \A i \in 1..Len(q) : Shares(q, c)[i] = IF q[i].c = c THEN q[i].qty ELSE 0
           /\ \A i \in 1..Len(q) : Shares(q, c)[i] \in Nat
<1>1. ASSUME NEW i \in 1..Len(q) PROVE q[i].qty \in Nat
  <2>1. q[i] \in Event
      OBVIOUS
  <2> QED
      BY <2>1, AccountConstants DEF Event
<1>2. Shares(q, c) \in [1..Len(q) -> Int]
    BY <1>1 DEF Shares
<1>3. Len(q) \in Nat
    OBVIOUS
<1>4. Shares(q, c) \in Seq(Int) /\ Len(Shares(q, c)) = Len(q)
    BY <1>2, <1>3
<1> QED
    BY <1>1, <1>4 DEF Shares

\* Two queues one after the other execute what they execute together.
LEMMA FillsAppend ==
    ASSUME NEW q \in Seq(Event), NEW r \in Seq(Event), NEW c
    PROVE  /\ Fills(q \o r, c) = Fills(q, c) + Fills(r, c)
           /\ Fills(q, c) \in Int /\ Fills(r, c) \in Int
<1>1. PICK p \in Seq(Event) :
        /\ p = q \o r /\ Len(p) = Len(q) + Len(r)
        /\ \A i \in 1..Len(q) : p[i] = q[i] /\ i \in 1..Len(p)
        /\ \A i \in 1..Len(r) : p[Len(q) + i] = r[i] /\ Len(q) + i \in 1..Len(p)
  <2>1. /\ q \o r \in Seq(Event) /\ Len(q \o r) = Len(q) + Len(r)
        /\ \A i \in 1..Len(q) : (q \o r)[i] = q[i]
        /\ \A i \in 1..Len(r) : (q \o r)[Len(q) + i] = r[i]
      BY Concatenation
  <2>2. Len(q) \in Nat /\ Len(r) \in Nat
      OBVIOUS
  <2>3. /\ \A i \in 1..Len(q) : i \in 1..Len(q \o r)
        /\ \A i \in 1..Len(r) : Len(q) + i \in 1..Len(q \o r)
      BY <2>1, <2>2
  <2> QED
      BY <2>1, <2>3
<1>2. PICK u \in Seq(Int) :
        /\ u = Shares(p, c) /\ Len(u) = Len(p)
        /\ \A i \in 1..Len(p) : u[i] = IF p[i].c = c THEN p[i].qty ELSE 0
    BY SharesType
<1>3. PICK v \in Seq(Int) :
        /\ v = Shares(q, c) /\ Len(v) = Len(q)
        /\ \A i \in 1..Len(q) : v[i] = IF q[i].c = c THEN q[i].qty ELSE 0
    BY SharesType
<1>4. PICK w \in Seq(Int) :
        /\ w = Shares(r, c) /\ Len(w) = Len(r)
        /\ \A i \in 1..Len(r) : w[i] = IF r[i].c = c THEN r[i].qty ELSE 0
    BY SharesType
<1>5. \A i \in 1..Len(q) : u[i] = v[i]
    BY <1>1, <1>2, <1>3
<1>6. ASSUME NEW i \in 1..Len(r) PROVE u[Len(q) + i] = w[i] /\ w[i] \in Int
  <2>1. PICK j \in 1..Len(p) : j = Len(q) + i /\ p[j] = r[i]
      BY <1>1
  <2>2. u[j] = w[i] /\ i \in 1..Len(w)
      BY <1>2, <1>4, <2>1
  <2> QED
      BY <2>1, <2>2
<1>7. Joins(u, v, w, Len(v), Len(w)) /\ Len(u) = Len(v) + Len(w)
    BY <1>1, <1>2, <1>3, <1>4, <1>5, <1>6 DEF Joins
<1>8. Total(u) = Total(v) + Total(w) /\ Total(v) \in Int /\ Total(w) \in Int
    BY <1>7, TotalJoins
<1> QED
    BY <1>1, <1>2, <1>3, <1>4, <1>8 DEF Fills

\* Events that are no trades, or of other orders, execute nothing.
LEMMA FillsNone ==
    ASSUME NEW q \in Seq(Event), NEW c, \A i \in 1..Len(q) : q[i].c = c => q[i].qty = 0
    PROVE  Fills(q, c) = 0
<1>1. \A i \in 1..Len(q) : Shares(q, c)[i] = 0
    BY SharesType
<1> QED
    BY <1>1, SharesType, TotalNone DEF Fills

\* Sums of naturals are naturals.
LEMMA TotalNatural ==
    ASSUME NEW v \in Seq(Int), \A i \in 1..Len(v) : v[i] \in Nat
    PROVE  Total(v) \in Nat
<1>1. PICK L \in Nat : L = Len(v)
    OBVIOUS
<1>2. PICK s : Sums(s, v, L)
    BY <1>1, SumsOf
<1> DEFINE T == {n \in Nat : n <= L => s[n] \in Nat}
<1>3. 0 \in T
    BY <1>2 DEF Sums
<1>4. ASSUME NEW n \in Nat, n \in T PROVE n + 1 \in T
  <2>1. ASSUME n + 1 <= L PROVE s[n + 1] \in Nat
    <3>1. n + 1 \in 1..L /\ (n + 1) - 1 = n /\ n <= L
        BY <2>1
    <3>2. s[n] \in Nat /\ v[n + 1] \in Nat
        BY <1>1, <1>4, <3>1
    <3>3. s[n + 1] = s[n] + v[n + 1]
        BY <1>2, <3>1 DEF Sums
    <3> QED
        BY <3>2, <3>3
  <2> QED
      BY <2>1
<1>5. L \in T
  <2> HIDE DEF T
  <2> QED
      BY <1>3, <1>4, NatSetInduction
<1> QED
    BY <1>1, <1>2, <1>5, TotalIsLast

\* The queue executes no negative quantity.
LEMMA FillsNatural ==
    ASSUME NEW q \in Seq(Event), NEW c PROVE Fills(q, c) \in Nat
BY SharesType, TotalNatural DEF Fills

\* What one event executes.
LEMMA FillsOne ==
    ASSUME NEW n \in Event, NEW c
    PROVE  Fills(<<n>>, c) = IF n.c = c THEN n.qty ELSE 0
<1>1. PICK q \in Seq(Event) : q = <<n>> /\ Len(q) = 1 /\ q[1] = n
  <2>1. <<n>> \in Seq(Event) /\ Len(<<n>>) = 1 /\ <<n>>[1] = n
      BY Singletons
  <2> QED
      BY <2>1
<1>2. PICK x \in Int : x = IF n.c = c THEN n.qty ELSE 0
    BY AccountConstants DEF Event
<1>3. PICK v \in Seq(Int) : v = Shares(q, c) /\ Len(v) = 1 /\ v[1] = x
  <2>1. /\ Shares(q, c) \in Seq(Int) /\ Len(Shares(q, c)) = Len(q)
        /\ \A i \in 1..Len(q) : Shares(q, c)[i] = IF q[i].c = c THEN q[i].qty ELSE 0
      BY SharesType
  <2>2. Shares(q, c)[1] = x /\ Len(Shares(q, c)) = 1
      BY <1>1, <1>2, <2>1
  <2> QED
      BY <2>1, <2>2
<1> DEFINE s == [i \in 0..1 |-> IF i = 0 THEN 0 ELSE x]
<1>4. Sums(s, v, Len(v)) /\ s[1] = x
    BY <1>3 DEF Sums
<1> HIDE DEF s
<1>5. Total(v) = x
    BY <1>3, <1>4, TotalIsLast
<1> QED
    BY <1>1, <1>2, <1>3, <1>5 DEF Fills

\* p is the L events of q and then the M of r.
Follows(p, q, r, L, M) ==
    /\ Len(p) = L + M
    /\ \A i \in 1..L : p[i] = q[i]
    /\ \A i \in 1..M : p[L + i] = r[i]
    /\ \A k \in 1..(L + M) : k \in 1..L \/ \E i \in 1..M : k = L + i

\* That is what joining two queues makes.
LEMMA JoinedFollows ==
    ASSUME NEW q \in Seq(Event), NEW r \in Seq(Event)
    PROVE  q \o r \in Seq(Event) /\ Follows(q \o r, q, r, Len(q), Len(r))
<1>1. /\ q \o r \in Seq(Event) /\ Len(q \o r) = Len(q) + Len(r)
      /\ \A i \in 1..Len(q) : (q \o r)[i] = q[i]
      /\ \A i \in 1..Len(r) : (q \o r)[Len(q) + i] = r[i]
      /\ \A k \in 1..Len(q \o r) : k \in 1..Len(q) \/ \E i \in 1..Len(r) : k = Len(q) + i
    BY Concatenation
<1> QED
    BY <1>1 DEF Follows

\* What is announced in two queues one after the other.
LEMMA NewsAppend ==
    ASSUME NEW q \in Seq(Event), NEW r \in Seq(Event), NEW c
    PROVE  News(q \o r, c) <=> News(q, c) \/ News(r, c)
<1>1. PICK L \in Nat, M \in Nat : L = Len(q) /\ M = Len(r)
    OBVIOUS
<1>2. PICK p \in Seq(Event) : p = q \o r /\ Follows(p, q, r, L, M)
    BY <1>1, JoinedFollows
<1>3. ASSUME News(q, c) PROVE News(p, c)
  <2>1. PICK i \in 1..L : q[i].ev = "new" /\ q[i].c = c
      BY <1>1, <1>3 DEF News
  <2>2. i \in 1..Len(p) /\ p[i] = q[i]
      BY <1>2 DEF Follows
  <2> QED
      BY <2>1, <2>2 DEF News
<1>4. ASSUME News(r, c) PROVE News(p, c)
  <2>1. PICK i \in 1..M : r[i].ev = "new" /\ r[i].c = c
      BY <1>1, <1>4 DEF News
  <2>2. L + i \in 1..Len(p) /\ p[L + i] = r[i]
      BY <1>2 DEF Follows
  <2> QED
      BY <2>1, <2>2 DEF News
<1>5. ASSUME News(p, c) PROVE News(q, c) \/ News(r, c)
  <2>1. PICK k \in 1..(L + M) : p[k].ev = "new" /\ p[k].c = c
      BY <1>2, <1>5 DEF News, Follows
  <2>2. CASE k \in 1..L
      BY <1>1, <1>2, <2>1, <2>2 DEF News, Follows
  <2>3. ASSUME NEW i \in 1..M, k = L + i PROVE News(r, c)
    <3>1. r[i] = p[k]
        BY <1>2, <2>3 DEF Follows
    <3> QED
        BY <1>1, <2>1, <3>1 DEF News
  <2> QED
      BY <1>2, <2>2, <2>3 DEF Follows
<1> QED
    BY <1>2, <1>3, <1>4, <1>5

\* Announcements stay first when the queue has nothing yet of what is announced.
LEMMA NewsFirstAppend ==
    ASSUME NEW q \in Seq(Event), NEW r \in Seq(Event), NewsFirst(q), NewsFirst(r),
           \A i \in 1..Len(q) : ~News(r, q[i].c)
    PROVE  NewsFirst(q \o r)
<1>1. PICK L \in Nat, M \in Nat : L = Len(q) /\ M = Len(r)
    OBVIOUS
<1>2. PICK p \in Seq(Event) : p = q \o r /\ Follows(p, q, r, L, M)
    BY <1>1, JoinedFollows
<1>3. ASSUME NEW i \in 1..Len(p), NEW j \in 1..Len(p), p[i].ev = "new", p[j].c = p[i].c
      PROVE  i <= j
  <2>1. CASE i \in 1..L /\ j \in 1..L
      BY <1>1, <1>2, <1>3, <2>1 DEF NewsFirst, Follows
  <2>2. CASE i \in 1..L /\ j \notin 1..L
      BY <1>2, <2>2 DEF Follows
  <2>3. ASSUME NEW k \in 1..M, i = L + k, j \in 1..L PROVE FALSE
    <3>1. r[k].ev = "new" /\ r[k].c = q[j].c
        BY <1>2, <1>3, <2>3 DEF Follows
    <3> QED
        BY <1>1, <2>3, <3>1 DEF News
  <2>4. ASSUME NEW k \in 1..M, i = L + k, NEW l \in 1..M, j = L + l PROVE i <= j
    <3>1. r[k].ev = "new" /\ r[k].c = r[l].c
        BY <1>2, <1>3, <2>4 DEF Follows
    <3>2. k <= l
        BY <1>1, <3>1 DEF NewsFirst
    <3> QED
        BY <2>4, <3>2
  <2> QED
      BY <1>2, <2>1, <2>2, <2>3, <2>4 DEF Follows
<1> QED
    BY <1>2, <1>3 DEF NewsFirst

\* What one event announces.
LEMMA NewsOne ==
    ASSUME NEW n \in Event
    PROVE  /\ NewsFirst(<<n>>)
           /\ \A c : News(<<n>>, c) <=> n.ev = "new" /\ n.c = c
<1>1. PICK q \in Seq(Event) : q = <<n>> /\ Len(q) = 1 /\ q[1] = n
  <2>1. <<n>> \in Seq(Event) /\ Len(<<n>>) = 1 /\ <<n>>[1] = n
      BY Singletons
  <2> QED
      BY <2>1
<1>2. \A i \in 1..Len(q) : i = 1
    BY <1>1
<1>3. NewsFirst(q)
    BY <1>2 DEF NewsFirst
<1>4. ASSUME NEW c PROVE News(q, c) <=> n.ev = "new" /\ n.c = c
  <2>1. 1 \in 1..Len(q)
      BY <1>1
  <2> QED
      BY <1>1, <1>2, <2>1 DEF News
<1> QED
    BY <1>1, <1>3, <1>4

\* The queue q is the event e and then t.
Takes(q, e, t) == q # <<>> /\ e = Head(q) /\ t = Tail(q)

\* A queue that is not empty is its first event and a rest.
LEMMA RestTaken ==
    ASSUME NEW q \in Seq(Event), q # <<>>, NEW e, e = Head(q)
    PROVE  \E t \in Seq(Event) : Takes(q, e, t)
<1>1. Tail(q) \in Seq(Event)
    OBVIOUS
<1> QED
    BY <1>1 DEF Takes

\* What is left of the queue when its first event is taken.
LEMMA TakenOff ==
    ASSUME NEW q \in Seq(Event), NEW e \in Event, NEW t \in Seq(Event), Takes(q, e, t)
    PROVE  /\ \A c : /\ Fills(q, c) = (IF e.c = c THEN e.qty ELSE 0) + Fills(t, c)
                     /\ News(q, c) <=> (e.ev = "new" /\ e.c = c) \/ News(t, c)
           /\ NewsFirst(q) => NewsFirst(t) /\ ~News(t, e.c)
<1> USE DEF Takes
<1>1. PICK h \in Seq(Event) : h = <<e>> /\ q = h \o t
  <2>1. <<e>> \in Seq(Event) /\ q = <<Head(q)>> \o Tail(q)
      BY Singletons
  <2> QED
      BY <2>1
<1>2. ASSUME NEW c
      PROVE  /\ Fills(q, c) = (IF e.c = c THEN e.qty ELSE 0) + Fills(t, c)
             /\ News(q, c) <=> (e.ev = "new" /\ e.c = c) \/ News(t, c)
  <2>1. Fills(h \o t, c) = Fills(h, c) + Fills(t, c)
      BY FillsAppend
  <2>2. Fills(h, c) = IF e.c = c THEN e.qty ELSE 0
      BY <1>1, FillsOne
  <2>3. News(h \o t, c) <=> News(h, c) \/ News(t, c)
      BY NewsAppend
  <2>4. News(h, c) <=> e.ev = "new" /\ e.c = c
      BY <1>1, NewsOne
  <2> QED
      BY <1>1, <2>1, <2>2, <2>3, <2>4
<1>3. PICK L \in Nat : L = Len(q)
    OBVIOUS
<1>4. /\ Len(t) = L - 1 /\ q[1] = e /\ 1 \in 1..L
      /\ \A i \in 1..(L - 1) : t[i] = q[i + 1] /\ i + 1 \in 1..L
  <2>1. Len(q) > 0 /\ Len(t) = Len(q) - 1 /\ q[1] = e /\ \A i \in 1..Len(t) : t[i] = q[i + 1]
      OBVIOUS
  <2>2. \A i \in 1..(L - 1) : i + 1 \in 1..L
      OBVIOUS
  <2> QED
      BY <1>3, <2>1, <2>2
<1>5. ASSUME NewsFirst(q) PROVE NewsFirst(t)
  <2>1. ASSUME NEW i \in 1..(L - 1), NEW j \in 1..(L - 1), t[i].ev = "new", t[j].c = t[i].c
        PROVE  i <= j
    <3>1. q[i + 1].ev = "new" /\ q[j + 1].c = q[i + 1].c
        BY <1>4, <2>1
    <3>2. i + 1 <= j + 1
        BY <1>3, <1>4, <1>5, <3>1 DEF NewsFirst
    <3> QED
        BY <3>2
  <2> QED
      BY <1>3, <1>4, <2>1 DEF NewsFirst
<1>6. ASSUME NewsFirst(q), News(t, e.c) PROVE FALSE
  <2>1. PICK i \in 1..(L - 1) : t[i].ev = "new" /\ t[i].c = e.c
      BY <1>3, <1>4, <1>6 DEF News
  <2>2. i + 1 \in 1..Len(q) /\ 1 \in 1..Len(q) /\ q[i + 1].ev = "new" /\ q[1].c = q[i + 1].c
      BY <1>3, <1>4, <2>1
  <2>3. i + 1 <= 1
      BY <1>6, <2>2 DEF NewsFirst
  <2> QED
      BY <2>3
<1> QED
    BY <1>2, <1>5, <1>6

----------------------------------------------------------------------------
(***************************************************************************)
(* What the account's methods do to an order that is tracked.              *)
(***************************************************************************)

\* Going from account a to b, order d is not entered, and unless it was closed
\* before it keeps what it has left and the exchange ids that lead to it, is not
\* closed, and stays unconfirmed as long as it is found by client id.
Spares(a, b, d) ==
    /\ d \in b.ordersClID => d \in a.ordersClID
    /\ a.orders[d].status \notin ClosedStatus =>
          /\ a.orders[d].status = "PendingNew" /\ d \in b.ordersClID =>
                b.orders[d].status = "PendingNew"
          /\ Referenced(b, d) => /\ b.orders[d].status \notin ClosedStatus
                                 /\ b.orders[d].leaves = a.orders[d].leaves
          /\ \A x \in ExIDs : a.ordersID[x] = d => b.ordersID[x] = d

\* A method that spares an order does not lose track of it.
LEMMA SparedTrack ==
    ASSUME NEW a, NEW b, NEW o, NEW q, NEW d, OnTrack(a, o, q, d), Spares(a, b, d),
           o.at = "Live" => o.id \in ExIDs
    PROVE  OnTrack(b, o, q, d)
<1>1. d \in b.ordersClID => Referenced(b, d) /\ d \in a.ordersClID
    BY DEF Referenced, Spares
<1>2. "PendingNew" \notin ClosedStatus
    BY DEF ClosedStatus
<1>3. ASSUME Mine(a, o, q, d), o.id \in ExIDs PROVE Mine(b, o, q, d)
  <2>1. b.ordersID[o.id] = d /\ a.orders[d].status \notin ClosedStatus
      BY <1>3 DEF Mine, Spares
  <2>2. Referenced(b, d)
      BY <1>3, <2>1 DEF Referenced
  <2> QED
      BY <1>3, <2>1, <2>2 DEF Mine, Spares
<1>4. ASSUME Awaited(a, o, q, d) PROVE Awaited(b, o, q, d)
    BY <1>1, <1>2, <1>4 DEF Awaited, Spares
<1>5. ASSUME o.at = "Sent", d \in b.ordersClID
      PROVE  b.orders[d].status = "PendingNew" /\ b.orders[d].leaves = o.leaves
    BY <1>1, <1>2, <1>5 DEF OnTrack, Spares
<1> QED
    BY <1>3, <1>4, <1>5 DEF OnTrack

\* An account that stays as it is spares every order.
LEMMA SparedByNothing ==
    ASSUME NEW a, NEW d PROVE Spares(a, a, d)
BY DEF Spares

\* A method that only writes to order c and its entry spares the others, and c
\* itself when what it has left stays and its status neither is PendingNew nor
\* becomes closed.
LEMMA OneOrderSpares ==
    ASSUME NEW a \in AccountType, NEW c \in ClIDs, NEW o \in Order, NEW b,
           Touches(Put(a, c, o), b, c)
    PROVE  /\ \A d \in ClIDs \ {c} : Spares(a, b, d)
           /\ o.leaves = a.orders[c].leaves /\ o.status \notin ClosedStatus
              /\ (a.orders[c].status = "PendingNew" => o.status = "PendingNew")
                 => Spares(a, b, c)
<1>1. PICK p \in AccountType :
        /\ p = Put(a, c, o) /\ p.ordersClID = a.ordersClID
        /\ p.ordersID = a.ordersID /\ p.orders[c] = o
        /\ \A d \in ClIDs \ {c} : p.orders[d] = a.orders[d]
    BY PutShape
<1>2. /\ b.ordersClID = a.ordersClID /\ b.ordersID = a.ordersID /\ b.orders[c] = o
      /\ \A d \in ClIDs \ {c} : b.orders[d] = a.orders[d]
    BY <1>1 DEF Touches
<1> QED
    BY <1>2 DEF Spares

\* The same without an entry.
LEMMA PutSpares ==
    ASSUME NEW a \in AccountType, NEW c \in ClIDs, NEW o \in Order
    PROVE  /\ \A d \in ClIDs \ {c} : Spares(a, Put(a, c, o), d)
           /\ o.leaves = a.orders[c].leaves /\ o.status \notin ClosedStatus
              /\ (a.orders[c].status = "PendingNew" => o.status = "PendingNew")
                 => Spares(a, Put(a, c, o), c)
<1>1. PICK p \in AccountType : p = Put(a, c, o)
    BY PutShape
<1>2. Touches(p, p, c)
    BY DEF Touches
<1> QED
    BY <1>1, <1>2, OneOrderSpares

\* A cancel request spares every order, its own when it was confirmed.
LEMMA CancelOrderSpares ==
    ASSUME NEW a, AccountInv(a), NEW c \in ClIDs, ~CancelOrderRejected(a, c),
           a.orders[c].id # NoID, NEW d \in ClIDs
    PROVE  Spares(a, CancelOrder(a, c), d)
<1> DEFINE r == a.orders[c]
           o == Save(r, "PendingCancel")
<1>1. a \in AccountType /\ r \in Order /\ OrderInv(a, c) /\ Find(a, c) = c
    BY AccountConstants DEF AccountInv, AccountType, CancelOrderRejected, Known, Find
<1>2. r.status # "PendingNew"
    BY <1>1 DEF OrderInv, SavedStatusSound
<1>3. o \in Order /\ o.status = "PendingCancel" /\ o.leaves = r.leaves
    BY <1>1, SaveShape DEF OrderStatus, PendingStatus
<1> HIDE DEF o
<1>4. Spares(a, Put(a, c, o), d)
    BY <1>1, <1>2, <1>3, PutSpares DEF ClosedStatus
<1> QED
    BY <1>1, <1>4 DEF CancelOrder, o

\* A cancel that is refused spares every order: the status it had before was
\* not closed.
LEMMA RejectCancelOrderSpares ==
    ASSUME NEW a, AccountInv(a), NEW c \in ClIDs, Known(a, c), NEW d \in ClIDs
    PROVE  Spares(a, RejectCancelOrder(a, c, FALSE), d)
<1> DEFINE r == a.orders[c]
           o == CancelRejected(r, FALSE)
<1>1. a \in AccountType /\ r \in Order /\ OrderInv(a, c) /\ Find(a, c) = c
    BY AccountConstants DEF AccountInv, AccountType, Known, Find
<1>2. CASE r.status # "PendingCancel"
    BY <1>1, <1>2, SparedByNothing DEF RejectCancelOrder
<1>3. CASE r.status = "PendingCancel"
  <2>1. r.prev \in CancelableStatus
      BY <1>1, <1>3 DEF OrderInv, SavedStatusSound
  <2>2. o \in Order /\ o.status = r.prev /\ o.leaves = r.leaves
      BY <1>1 DEF CancelRejected, MissedFill, Order
  <2> HIDE DEF o
  <2>3. Spares(a, Put(a, c, o), d)
      BY <1>1, <1>3, <2>1, <2>2, PutSpares DEF ClosedStatus, CancelableStatus
  <2> QED
      BY <1>1, <1>3, <2>3 DEF RejectCancelOrder, o
<1> QED
    BY <1>2, <1>3

\* So does a minute that passes.
LEMMA AgeSpares ==
    ASSUME NEW a, AccountInv(a), NEW c \in ClIDs, NEW d \in ClIDs
    PROVE  Spares(a, Age(a, c), d)
<1> DEFINE o == [a.orders[c] EXCEPT !.stale = TRUE]
<1>1. a \in AccountType /\ a.orders[c] \in Order
    BY DEF AccountInv, AccountType
<1>2. o \in Order /\ o.status = a.orders[c].status /\ o.leaves = a.orders[c].leaves
    BY <1>1 DEF Order
<1>3. Age(a, c) = Put(a, c, o)
    BY <1>1 DEF Age, Put, AccountType
<1> HIDE DEF o
<1>4. CASE a.orders[c].status \notin ClosedStatus
  <2>1. Spares(a, Put(a, c, o), d)
      BY <1>1, <1>2, <1>4, PutSpares
  <2> QED
      BY <1>3, <2>1
<1>5. CASE a.orders[c].status \in ClosedStatus
  <2>1. d # c => Spares(a, Put(a, c, o), d)
      BY <1>1, <1>2, PutSpares
  <2>2. Spares(a, Put(a, c, o), c)
      BY <1>1, <1>2, <1>5, PutShape DEF Spares
  <2> QED
      BY <1>3, <2>1, <2>2
<1> QED
    BY <1>4, <1>5

\* A new order that is refused is forgotten by client id; what an exchange id
\* still leads to keeps what it has left.
LEMMA RejectNewOrderSpares ==
    ASSUME NEW a, AccountInv(a), NEW c \in ClIDs, NEW d \in ClIDs
    PROVE  Spares(a, RejectNewOrder(a, c), d)
<1> DEFINE r == a.orders[c]
           o == [r EXCEPT !.status = "Rejected"]
           p == Put(a, c, o)
           q == [p EXCEPT !.ordersClID = @ \ {c}]
           b == Collect(q)
<1>1. a \in AccountType /\ r \in Order
    BY DEF AccountInv, AccountType
<1>2. o \in Order /\ o.status = "Rejected" /\ o.leaves = r.leaves
    BY <1>1 DEF Order, OrderStatus
<1> HIDE DEF o
<1>3. /\ p \in AccountType /\ p.ordersClID = a.ordersClID
      /\ p.ordersID = a.ordersID /\ p.orders[c] = o
      /\ \A e \in ClIDs \ {c} : p.orders[e] = a.orders[e]
    BY <1>1, <1>2, PutShape
<1> HIDE DEF p
<1>4. /\ q \in AccountType /\ q.ordersClID = a.ordersClID \ {c}
      /\ q.ordersID = a.ordersID /\ q.orders[c] = o
      /\ \A e \in ClIDs \ {c} : q.orders[e] = a.orders[e]
    BY <1>3 DEF AccountType
<1> HIDE DEF q
<1>5. /\ b.ordersClID = a.ordersClID \ {c} /\ b.ordersID = a.ordersID
      /\ b.orders[d] = IF Referenced(q, d) THEN q.orders[d] ELSE Blank
    BY <1>4, CollectShape
<1> HIDE DEF b
<1>6. Referenced(b, d) => b.orders[d] = q.orders[d]
    BY <1>4, <1>5 DEF Referenced
<1>7. Spares(a, b, d)
    BY <1>2, <1>4, <1>5, <1>6 DEF Spares, ClosedStatus, Referenced
<1> QED
    BY <1>7 DEF RejectNewOrder, b, q, p, o

\* Cleaning drops closed orders only: the exchange ids it drops are theirs.
LEMMA CleanOrdersSpares ==
    ASSUME NEW a, AccountInv(a), NEW d \in ClIDs
    PROVE  Spares(a, CleanOrders(a), d)
<1> DEFINE gone == {c \in a.ordersClID :
                      a.orders[c].status \in ClosedStatus /\ a.orders[c].stale}
           ids == [x \in ExIDs |-> IF \E c \in gone : a.orders[c].id = x
                                   THEN NoID ELSE a.ordersID[x]]
           q == [a EXCEPT !.ordersClID = @ \ gone, !.ordersID = ids]
           b == Collect(q)
<1>1. a \in AccountType
    BY DEF AccountInv
<1>2. gone \subseteq a.ordersClID /\ \A c \in gone : a.orders[c].status \in ClosedStatus
    OBVIOUS
<1> HIDE DEF gone
<1>3. /\ ids \in [ExIDs -> ClIDs \cup {NoID}]
      /\ \A x \in ExIDs : ids[x] = a.ordersID[x] \/ \E c \in gone : a.orders[c].id = x
    BY <1>1 DEF AccountType
<1> HIDE DEF ids
<1>4. /\ q \in AccountType /\ q.ordersClID = a.ordersClID \ gone /\ q.ordersID = ids
      /\ q.orders = a.orders
    BY <1>1, <1>3 DEF AccountType
<1> HIDE DEF q
<1>5. /\ b.ordersClID = a.ordersClID \ gone /\ b.ordersID = ids
      /\ b.orders[d] = IF Referenced(q, d) THEN a.orders[d] ELSE Blank
    BY <1>4, CollectShape
<1> HIDE DEF b
<1>6. Referenced(b, d) => b.orders[d] = a.orders[d]
    BY <1>4, <1>5 DEF Referenced
<1>7. ASSUME a.orders[d].status \notin ClosedStatus, NEW x \in ExIDs, a.ordersID[x] = d
      PROVE  ids[x] = d
  <2>1. ASSUME NEW c \in gone, a.orders[c].id = x PROVE FALSE
    <3>1. c \in ClIDs /\ OrderInv(a, c) /\ x # NoID /\ d # NoID
        BY <1>1, <1>2, AccountConstants DEF AccountInv, AccountType
    <3>2. a.ordersID[x] \in {NoID, c}
        BY <2>1, <3>1 DEF OrderInv, HeapSound
    <3> QED
        BY <1>2, <1>7, <3>1, <3>2
  <2> QED
      BY <1>3, <1>7, <2>1
<1>8. Spares(a, b, d)
  <2>1. a.orders[d].status = "PendingNew" /\ d \in b.ordersClID => b.orders[d] = a.orders[d]
      BY <1>6 DEF Referenced
  <2> QED
      BY <1>5, <1>6, <1>7, <2>1 DEF Spares
<1> QED
    BY <1>8 DEF CleanOrders, b, q, ids, gone

\* Closing an order spares the others.
LEMMA ClosingSpares ==
    ASSUME NEW a, AccountInv(a), NEW k, Known(a, k), NEW d \in ClIDs, d # Find(a, k)
    PROVE  /\ Spares(a, ConfirmCancelOrder(a, k), d)
           /\ Spares(a, ConfirmExpiredOrder(a, k), d)
<1> DEFINE c == Find(a, k)
           r == a.orders[c]
           o == Stamp(r, "Canceled")
           n == [Stamp(r, "Expired") EXCEPT !.leaves = 0]
<1>1. a \in AccountType /\ c \in ClIDs /\ r \in Order
    BY FindInClIDs DEF AccountInv, AccountType
<1> HIDE DEF c
<1>2. o \in Order
    BY <1>1, StampShape DEF OrderStatus, ClosedStatus
<1>3. n \in Order
  <2>1. PICK m \in Order : m = Stamp(r, "Expired")
      BY <1>1, StampShape DEF OrderStatus, ClosedStatus
  <2>2. [m EXCEPT !.leaves = 0] \in Order
      BY DEF Order
  <2> QED
      BY <2>1, <2>2
<1> HIDE DEF o, n
<1>4. Spares(a, a, d)
    BY SparedByNothing
<1>5. Spares(a, BookRemove(Put(a, c, o), c), d)
  <2>1. PICK p \in AccountType : p = Put(a, c, o)
      BY <1>1, <1>2, PutShape
  <2>2. Touches(p, BookRemove(p, c), c)
      BY <1>1, BookShapes
  <2> QED
      BY <1>1, <1>2, <2>1, <2>2, OneOrderSpares DEF c
<1>6. Spares(a, BookRemove(Put(a, c, n), c), d)
  <2>1. PICK p \in AccountType : p = Put(a, c, n)
      BY <1>1, <1>3, PutShape
  <2>2. Touches(p, BookRemove(p, c), c)
      BY <1>1, BookShapes
  <2> QED
      BY <1>1, <1>3, <2>1, <2>2, OneOrderSpares DEF c
<1> QED
    BY <1>4, <1>5, <1>6 DEF ConfirmCancelOrder, ConfirmExpiredOrder, o, n, c

\* So does expecting its fill.
LEMMA PendingFilledSpares ==
    ASSUME NEW a, AccountInv(a), NEW k, Known(a, k), NEW d \in ClIDs, d # Find(a, k)
    PROVE  Spares(a, PendingFilled(a, k), d)
<1> DEFINE c == Find(a, k)
           o == Save(a.orders[c], "PendingFilled")
<1>1. a \in AccountType /\ c \in ClIDs /\ a.orders[c] \in Order
    BY FindInClIDs DEF AccountInv, AccountType
<1> HIDE DEF c
<1>2. o \in Order
    BY <1>1, SaveShape DEF OrderStatus, PendingStatus
<1> HIDE DEF o
<1>3. Spares(a, Put(a, c, o), d) /\ Spares(a, a, d)
    BY <1>1, <1>2, PutSpares, SparedByNothing DEF c
<1> QED
    BY <1>3 DEF PendingFilled, o, c

\* A fill spares the other orders; it takes what it executes from what its own
\* order has left, which it does not close unless nothing is left.
LEMMA ConfirmFillSpares ==
    ASSUME NEW a, AccountInv(a), NEW k, NEW qty \in Lots, ~ConfirmFillError(a, k, qty)
    PROVE  LET b == ConfirmFill(a, k, qty)
               c == Find(a, k)
           IN  /\ \A d \in ClIDs \ {c} : Spares(a, b, d)
               /\ b.ordersID = a.ordersID
               /\ b.orders[c].leaves = a.orders[c].leaves - qty
               /\ a.orders[c].status \notin ClosedStatus /\ qty # a.orders[c].leaves =>
                     b.orders[c].status \notin ClosedStatus
<1> DEFINE c == Find(a, k)
           r == a.orders[c]
           o == Filled(r, qty)
           p == Put(a, c, o)
           b == ConfirmFill(a, k, qty)
<1>1. a \in AccountType /\ Known(a, k) /\ ~(qty > r.leaves)
    BY DEF AccountInv, ConfirmFillError
<1>2. c \in ClIDs /\ r \in Order
    BY <1>1, FindInClIDs DEF AccountType
<1> HIDE DEF c
<1>3. qty \in Nat /\ qty <= r.leaves /\ r.leaves \in Nat /\ r.cum \in Nat
    BY <1>1, <1>2, AccountConstants DEF Order, Lots
<1>4. FillStatus(r, qty) \in OrderStatus \cup {"Blank"}
    BY <1>2 DEF FillStatus, Order, OrderStatus, OpenStatus, ClosedStatus
<1>5. r.status \notin ClosedStatus /\ qty # r.leaves => FillStatus(r, qty) \notin ClosedStatus
    BY DEF FillStatus, ClosedStatus
<1>6. o \in Order /\ o.status = FillStatus(r, qty) /\ o.leaves = r.leaves - qty
  <2> DEFINE f == FillStatus(r, qty)
             l == r.leaves - qty
             m == r.cum + qty
  <2>1. o = [r EXCEPT !.status = f, !.stale = FALSE, !.leaves = l, !.cum = m]
      BY <1>2 DEF Filled, Stamp, Order
  <2>2. l \in Nat /\ m \in Nat /\ f \in OrderStatus \cup {"Blank"}
      BY <1>3, <1>4
  <2> HIDE DEF l, m, f
  <2>3. o \in Order /\ o.status = f /\ o.leaves = l
      BY <1>2, <2>1, <2>2, ZenonT(60) DEF Order
  <2> QED
      BY <2>3 DEF f, l
<1> HIDE DEF o
<1>7. p \in AccountType /\ p.ordersID = a.ordersID /\ p.orders[c] = o
    BY <1>1, <1>2, <1>6, PutShape
<1>8. b \in {BookRemove(p, c), BookUpdateQuantity(p, c)}
    BY <1>7 DEF ConfirmFill, p, o, c
<1>9. Touches(p, b, c)
  <2> HIDE DEF p, b
  <2>1. Touches(p, BookRemove(p, c), c) /\ Touches(p, BookUpdateQuantity(p, c), c)
      BY <1>2, <1>7, BookShapes
  <2> QED
      BY <1>8, <2>1
<1> HIDE DEF b
<1>10. \A d \in ClIDs \ {c} : Spares(a, b, d)
    BY <1>1, <1>2, <1>6, <1>9, OneOrderSpares
<1>11. b.ordersID = a.ordersID /\ b.orders[c] = o
  <2> HIDE DEF p
  <2> QED
      BY <1>7, <1>9 DEF Touches
<1> QED
    BY <1>5, <1>6, <1>10, <1>11 DEF b, c

\* A confirmation spares the other orders: the exchange id is not theirs.
LEMMA ConfirmNewSpares ==
    ASSUME World, NEW a, Linked(a), NEW c \in ClIDs, NEW x \in ExIDs, exch[c].id = x,
           NEW d \in ClIDs, d # c
    PROVE  Spares(a, ConfirmNewOrder(a, c, x, 0), d)
<1> DEFINE b == ConfirmNewOrder(a, c, x, 0)
<1>1. a \in AccountType /\ 0 \in 0..MaxLots /\ d # NoID /\ a.ordersID[x] \in {NoID, c}
    BY ItsOwnID, AccountConstants DEF Linked, AccountInv
<1>2. CASE a.orders[c].status # "PendingNew"
    BY <1>2, SparedByNothing DEF ConfirmNewOrder
<1>3. CASE a.orders[c].status = "PendingNew"
  <2>1. Confirms(a, b, c, x, 0)
      BY <1>1, <1>3, ConfirmNewOrderShape
  <2> HIDE DEF b
  <2>2. /\ b.ordersClID = a.ordersClID /\ b.orders[d] = a.orders[d]
        /\ \A y \in ExIDs : a.ordersID[y] = d => b.ordersID[y] = d
      BY <1>1, <2>1 DEF Confirms, AccountType
  <2>3. Spares(a, b, d)
      BY <2>2 DEF Spares
  <2> QED
      BY <2>3 DEF b
<1> QED
    BY <1>2, <1>3

\* An order that waits for its confirmation is tracked by its exchange id then.
LEMMA ConfirmNewMine ==
    ASSUME World, Types0, NEW a, Linked(a), NEW c \in ClIDs, NEW x \in ExIDs, exch[c].id = x,
           c \in a.ordersClID, exch[c].at = "Live",
           NEW q, OnTrack(a, exch[c], q, c), News(q, c) => Fills(q, c) = exch[c].cum
    PROVE  Mine(ConfirmNewOrder(a, c, x, 0), exch[c], q, c)
<1> DEFINE b == ConfirmNewOrder(a, c, x, 0)
<1>1. a \in AccountType /\ 0 \in 0..MaxLots
    BY AccountConstants DEF Linked, AccountInv
<1>2. Mine(a, exch[c], q, c) \/ Awaited(a, exch[c], q, c)
    BY DEF OnTrack
<1>3. CASE a.orders[c].status # "PendingNew"
    BY <1>2, <1>3 DEF Awaited, ConfirmNewOrder
<1>4. CASE a.orders[c].status = "PendingNew"
  <2>1. Confirms(a, b, c, x, 0)
      BY <1>1, <1>4, ConfirmNewOrderShape
  <2> HIDE DEF b
  <2>2. b.ordersID[x] = c /\ b.orders[c].status = "New" /\ b.orders[c].leaves = a.orders[c].leaves
      BY <1>1, <2>1 DEF Confirms, AccountType
  <2>3. a.orders[c].leaves = exch[c].leaves + Fills(q, c)
      BY <1>2 DEF Mine, Awaited
  <2>4. Mine(b, exch[c], q, c)
      BY <2>2, <2>3 DEF Mine, ClosedStatus
  <2> QED
      BY <2>4 DEF b
<1> QED
    BY <1>3, <1>4

\* A confirmation loses track of no order.
LEMMA ConfirmNewTrack ==
    ASSUME World, Types0, NEW a, Linked(a), NEW c \in ClIDs, NEW x \in ExIDs, exch[c].id = x,
           c \in a.ordersClID, NEW q, NEW d \in ClIDs, OnTrack(a, exch[d], q, d),
           News(q, d) => Fills(q, d) = exch[d].cum
    PROVE  OnTrack(ConfirmNewOrder(a, c, x, 0), exch[d], q, d)
<1>1. CASE d # c
  <2>1. exch[d].at = "Live" => exch[d].id \in ExIDs
      BY DEF World, ExchangeSound, Types0, ExchangeOrder
  <2> QED
      BY <1>1, <2>1, ConfirmNewSpares, SparedTrack
<1>2. CASE d = c
  <2>1. exch[c].at # "Sent"
      BY AccountConstants DEF World, ExchangeSound
  <2> QED
      BY <1>2, <2>1, ConfirmNewMine DEF OnTrack
<1> QED
    BY <1>1, <1>2

\* A new order spares the others.
LEMMA NewOrderSpares ==
    ASSUME NEW a \in AccountType, NEW c \in ClIDs, NEW side \in Sides, NEW type \in Types,
           NEW qty \in Lots, NEW d \in ClIDs, d # c
    PROVE  Spares(a, NewOrder(a, c, side, type, 1, qty), d)
<1>1. 1 \in Prices \cup {NoPrice}
    BY AccountConstants DEF Prices
<1>2. PICK b : b = NewOrder(a, c, side, type, 1, qty)
    OBVIOUS
<1>3. /\ b.ordersClID = a.ordersClID \cup {c} /\ b.ordersID = a.ordersID
      /\ b.orders[d] = a.orders[d]
    BY <1>1, <1>2, NewOrderShape
<1>4. Spares(a, b, d)
    BY <1>3 DEF Spares
<1> QED
    BY <1>2, <1>4

\* An order that is announced, and was unknown, is entered with what it was
\* ordered for: what it has left and what has executed behind the announcement.
LEMMA EnterTrack ==
    ASSUME World, Types0, NEW a, Linked(a), NEW c \in ClIDs, NEW x \in ExIDs, exch[c].id = x,
           c \notin a.ordersClID, NEW d \in ClIDs, NEW q, NEW b,
           b = ConfirmNewOrder(NewOrder(a, c, exch[c].side, exch[c].type, 1,
                                        exch[c].leaves + exch[c].cum), c, x, 0)
    PROVE  /\ d # c => Spares(a, b, d)
           /\ Fills(q, c) = exch[c].cum => Mine(b, exch[c], q, c)
<1>1. /\ a \in AccountType /\ 0 \in 0..MaxLots /\ 1 \in Prices \cup {NoPrice}
      /\ d # NoID /\ a.ordersID[x] \in {NoID, c}
    BY ItsOwnID, AccountConstants DEF Linked, AccountInv, Prices
<1>2. /\ exch[c].side \in Sides /\ exch[c].type \in Types /\ exch[c].leaves + exch[c].cum \in Lots
    BY AccountConstants DEF World, ExchangeSound, Types0, ExchangeOrder
<1>3. PICK n : n = NewOrder(a, c, exch[c].side, exch[c].type, 1, exch[c].leaves + exch[c].cum)
    OBVIOUS
<1>4. /\ n \in AccountType /\ n.ordersClID = a.ordersClID \cup {c} /\ n.ordersID = a.ordersID
      /\ n.orders[c].status = "PendingNew" /\ n.orders[c].leaves = exch[c].leaves + exch[c].cum
      /\ \A e \in ClIDs \ {c} : n.orders[e] = a.orders[e]
    BY <1>1, <1>2, <1>3, NewOrderShape
<1>5. Confirms(n, b, c, x, 0)
    BY <1>1, <1>3, <1>4, ConfirmNewOrderShape
<1>6. /\ b.ordersClID = a.ordersClID \cup {c} /\ b.ordersID = [a.ordersID EXCEPT ![x] = c]
      /\ b.orders[c].status = "New" /\ b.orders[c].leaves = exch[c].leaves + exch[c].cum
      /\ \A e \in ClIDs \ {c} : b.orders[e] = a.orders[e]
  <2>1. /\ b.ordersClID = n.ordersClID /\ b.ordersID = [n.ordersID EXCEPT ![x] = c]
        /\ b.orders[c].status = "New" /\ b.orders[c].leaves = n.orders[c].leaves
        /\ \A e \in ClIDs \ {c} : b.orders[e] = n.orders[e]
      BY <1>5 DEF Confirms
  <2> QED
      BY <1>4, <2>1
<1>7. ASSUME d # c PROVE Spares(a, b, d)
  <2>1. \A y \in ExIDs : a.ordersID[y] = d => b.ordersID[y] = d
      BY <1>1, <1>6, <1>7 DEF AccountType
  <2> QED
      BY <1>6, <1>7, <2>1 DEF Spares
<1>8. ASSUME Fills(q, c) = exch[c].cum PROVE Mine(b, exch[c], q, c)
  <2>1. b.ordersID[x] = c
      BY <1>1, <1>6 DEF AccountType
  <2> QED
      BY <1>6, <1>8, <2>1 DEF Mine, ClosedStatus
<1> QED
    BY <1>7, <1>8

\* Sync tracks what is live, with what it has left, and knows of nothing else.
LEMMA SyncTrack ==
    ASSUME World, Types0, NEW d \in ClIDs, NEW q, Fills(q, d) = 0
    PROVE  OnTrack(Sync([c \in ClIDs |-> Listed(c)]), exch[d], q, d)
<1> DEFINE f == [c \in ClIDs |-> Listed(c)]
           listed == {c \in ClIDs : f[c].status # "Blank"}
           b == Sync(f)
           x == exch[d].id
<1>1. ASSUME NEW c \in ClIDs
      PROVE  /\ ~Live(c) => f[c].status = "Blank"
             /\ Live(c) => /\ f[c].status \in OpenStatus /\ f[c].id = exch[c].id
                           /\ f[c].leaves = exch[c].leaves
             /\ f[c] \in Order
    BY ListedShape DEF Blank
<1> HIDE DEF f
<1>2. \A c \in ClIDs : c \in listed <=> Live(c)
    BY <1>1 DEF OpenStatus
<1>3. /\ b.ordersClID = listed
      /\ x \in ExIDs => b.ordersID[x] = IF \E c \in listed : f[c].id = x
                                        THEN CHOOSE c \in listed : f[c].id = x ELSE NoID
      /\ d \in listed => /\ b.orders[d].status = f[d].status
                         /\ b.orders[d].leaves = f[d].leaves
  <2>1. b.ordersClID = listed
      BY DEF Sync
  <2>2. x \in ExIDs => b.ordersID[x] = IF \E c \in listed : f[c].id = x
                                       THEN CHOOSE c \in listed : f[c].id = x ELSE NoID
      BY DEF Sync
  <2>3. ASSUME d \in listed
        PROVE  b.orders[d] = [f[d] EXCEPT !.prev = f[d].status, !.unknown = 0,
                                !.amendPrice = NoPrice, !.amendQty = 0, !.stale = TRUE]
      BY <2>3 DEF Sync
  <2>4. f[d] \in Order
      BY <1>1
  <2> QED
      BY <2>1, <2>2, <2>3, <2>4 DEF Order
<1> HIDE DEF b, listed
<1>4. exch[d].at = "Sent" => d \notin b.ordersClID
    BY <1>2, <1>3 DEF Live
<1>5. ASSUME exch[d].at = "Live" PROVE Mine(b, exch[d], q, d)
  <2>1. d \in listed /\ x \in ExIDs /\ x # NoID /\ f[d].id = x
      BY <1>1, <1>2, <1>5, AccountConstants
         DEF Live, World, ExchangeSound, Types0, ExchangeOrder
  <2>2. \A c \in listed : f[c].id = x => c = d
    <3>1. \A c \in listed : c \in ClIDs /\ f[c].id = exch[c].id
        BY <1>1, <1>2 DEF listed
    <3> QED
        BY <2>1, <3>1 DEF World, ExchangeSound
  <2>3. b.ordersID[x] = d
      BY <1>3, <2>1, <2>2
  <2>4. /\ b.orders[d].status \notin ClosedStatus
        /\ b.orders[d].leaves = exch[d].leaves /\ exch[d].leaves \in Int
    <3>1. f[d].status \in OpenStatus /\ f[d].leaves = exch[d].leaves
        BY <1>1, <1>5 DEF Live
    <3>2. exch[d].leaves \in Int
        BY AccountConstants DEF Types0, ExchangeOrder
    <3> QED
        BY <1>3, <2>1, <3>1, <3>2 DEF OpenStatus, ClosedStatus
  <2> QED
      BY <2>3, <2>4 DEF Mine
<1> QED
    BY <1>4, <1>5 DEF OnTrack, b, f

----------------------------------------------------------------------------
(***************************************************************************)
(* What the exchange does to an order that is tracked.                     *)
(***************************************************************************)

\* Order d goes from o to p at the exchange, and the events r tell of it: an
\* order is announced when it gets its id, with all it has executed behind the
\* announcement, and whatever it executes later is told.
Told(o, p, r, d) ==
    /\ News(r, d) => /\ o.id = NoID /\ p.cum = Fills(r, d)
                     /\ p.at = "Live" => \/ o.at = "None"
                                         \/ o.at = "Sent" /\ o.leaves = p.leaves + p.cum
    /\ ~News(r, d) => /\ p.cum = o.cum + Fills(r, d)
                      /\ p.at = "Live" => /\ o.at = "Live" /\ p.id = o.id
                                          /\ o.leaves = p.leaves + Fills(r, d)
    /\ p.at = "Sent" => o.at = "Sent" /\ o.leaves = p.leaves

\* An order that stays as it is, while the events tell of others.
LEMMA ToldNothing ==
    ASSUME NEW o \in ExchangeOrder, NEW r \in Seq(Event), NEW d,
           \A i \in 1..Len(r) : r[i].c # d
    PROVE  Told(o, o, r, d)
<1>1. Fills(r, d) = 0 /\ ~News(r, d)
    BY FillsNone DEF News
<1>2. o.cum \in Int /\ o.leaves \in Int
    BY AccountConstants DEF ExchangeOrder
<1> QED
    BY <1>1, <1>2 DEF Told

\* An order that is told of stays on track.
LEMMA ToldTrack ==
    ASSUME NEW q \in Seq(Event), NEW r \in Seq(Event), NEW d, NEW a,
           NEW o \in ExchangeOrder, NEW p \in ExchangeOrder, Told(o, p, r, d),
           o.id = NoID => \A i \in 1..Len(q) : q[i].c # d,
           o.at = "None" => d \notin a.ordersClID,
           OnTrack(a, o, q, d)
    PROVE  OnTrack(a, p, q \o r, d)
<1>1. PICK m \in Int, n \in Int :
        /\ m = Fills(q, d) /\ n = Fills(r, d) /\ Fills(q \o r, d) = m + n
  <2>1. Fills(q \o r, d) = Fills(q, d) + Fills(r, d) /\ Fills(q, d) \in Int /\ Fills(r, d) \in Int
      BY FillsAppend
  <2> QED
      BY <2>1
<1>2. News(q \o r, d) <=> News(q, d) \/ News(r, d)
    BY NewsAppend
<1>3. o.cum \in Int /\ o.leaves \in Int /\ p.cum \in Int /\ p.leaves \in Int
    BY AccountConstants DEF ExchangeOrder
<1>4. ASSUME p.at = "Live", News(r, d) PROVE Awaited(a, p, q \o r, d)
    BY <1>2, <1>3, <1>4 DEF Told, OnTrack, Awaited
<1>5. ASSUME p.at = "Live", ~News(r, d)
      PROVE  Mine(a, p, q \o r, d) \/ Awaited(a, p, q \o r, d)
  <2>1. o.at = "Live" /\ p.id = o.id /\ o.leaves = p.leaves + n /\ p.cum = o.cum + n
      BY <1>1, <1>5 DEF Told
  <2>2. CASE Mine(a, o, q, d)
      BY <1>1, <1>3, <2>1, <2>2 DEF Mine
  <2>3. CASE Awaited(a, o, q, d)
      BY <1>2, <1>3, <2>1, <2>3 DEF Awaited
  <2> QED
      BY <2>1, <2>2, <2>3 DEF OnTrack
<1> QED
    BY <1>4, <1>5 DEF Told, OnTrack

\* What it has executed stays queued behind its announcement.
LEMMA ToldFollows ==
    ASSUME NEW q \in Seq(Event), NEW r \in Seq(Event), NEW d,
           NEW o \in ExchangeOrder, NEW p \in ExchangeOrder, Told(o, p, r, d),
           o.id = NoID => \A i \in 1..Len(q) : q[i].c # d,
           News(q, d) => Fills(q, d) = o.cum, News(q \o r, d)
    PROVE  Fills(q \o r, d) = p.cum
<1>1. PICK m \in Int, n \in Int :
        /\ m = Fills(q, d) /\ n = Fills(r, d) /\ Fills(q \o r, d) = m + n
  <2>1. Fills(q \o r, d) = Fills(q, d) + Fills(r, d) /\ Fills(q, d) \in Int /\ Fills(r, d) \in Int
      BY FillsAppend
  <2> QED
      BY <2>1
<1>2. News(q, d) \/ News(r, d)
    BY NewsAppend
<1>3. o.cum \in Int /\ p.cum \in Int
    BY AccountConstants DEF ExchangeOrder
<1>4. CASE News(r, d)
  <2>1. \A i \in 1..Len(q) : q[i].c # d
      BY <1>4 DEF Told
  <2>2. m = 0
      BY <1>1, <2>1, FillsNone
  <2> QED
      BY <1>1, <1>3, <1>4, <2>2 DEF Told
<1>5. CASE ~News(r, d)
    BY <1>1, <1>2, <1>3, <1>5 DEF Told
<1> QED
    BY <1>4, <1>5

\* Before it has an id no event tells of an order.
LEMMA UntoldBeforeID ==
    ASSUME Types0, EventsTrue, NEW d \in ClIDs, exch[d].id = NoID
    PROVE  \A i \in 1..Len(socket.q) : socket.q[i].c # d
<1>1. PICK q \in Seq(Event) : q = socket.q
    BY DEF Types0
<1>2. ASSUME NEW i \in 1..Len(q) PROVE q[i].c # d
  <2>1. q[i] \in Event
      OBVIOUS
  <2>2. q[i].id # NoID
      BY <2>1, AccountConstants DEF Event
  <2> QED
      BY <1>1, <2>2 DEF EventsTrue, EventTrue
<1> QED
    BY <1>1, <1>2

\* What the exchange does, and tells of, loses track of no order.
LEMMA TrackEmits ==
    ASSUME IInv, Stream, Tracking, exch' \in [ClIDs -> ExchangeOrder],
           NEW r \in Seq(Event), Emit(r), NewsFirst(r),
           \A d \in ClIDs : Told(exch[d], exch'[d], r, d),
           \A c : News(r, c) => c \in ClIDs,
           UNCHANGED <<acct, phase, seamless, hasty>>, \A c \in ClIDs : Timely(c)'
    PROVE  Tracking'
<1>1. Types0 /\ EventsTrue /\ Linked(acct)
    BY DEF IInv
<1>2. PICK q \in Seq(Event) : q = socket.q
    BY <1>1 DEF Types0
<1>3. PICK e \in [ClIDs -> ExchangeOrder], f \in [ClIDs -> ExchangeOrder] : e = exch /\ f = exch'
    BY <1>1 DEF Types0
<1>4. socket'.up = socket.up /\ (socket.up => socket'.q = q \o r)
    BY <1>1, <1>2, EmitShape
<1>5. ASSUME NEW d \in ClIDs
      PROVE  /\ Told(e[d], f[d], r, d)
             /\ e[d].id = NoID => \A i \in 1..Len(q) : q[i].c # d
             /\ e[d].at = "None" => d \notin acct.ordersClID
  <2>1. e[d].id = NoID => \A i \in 1..Len(q) : q[i].c # d
      BY <1>1, <1>2, <1>3, UntoldBeforeID
  <2>2. e[d].at = "None" => d \notin acct.ordersClID
      BY <1>1, <1>3 DEF Linked, Agrees, Referenced
  <2> QED
      BY <1>3, <2>1, <2>2
<1>6. ASSUME socket.up PROVE NewsFirst(q \o r) /\ FillsFollow(q \o r, f)
  <2>1. NewsFirst(q) /\ FillsFollow(q, e)
      BY <1>2, <1>3, <1>6 DEF Tracking
  <2>2. \A i \in 1..Len(q) : ~News(r, q[i].c)
      BY <1>5 DEF Told
  <2>3. NewsFirst(q \o r)
      BY <2>1, <2>2, NewsFirstAppend
  <2>4. ASSUME NEW d \in ClIDs, News(q \o r, d) PROVE Fills(q \o r, d) = f[d].cum
    <3>1. News(q, d) => Fills(q, d) = e[d].cum
        BY <2>1 DEF FillsFollow
    <3> QED
        BY <1>5, <2>4, <3>1, ToldFollows
  <2> QED
      BY <2>3, <2>4 DEF FillsFollow
<1>7. ASSUME socket.up, phase = "running", seamless, ~hasty, NEW d \in ClIDs
      PROVE  OnTrack(acct, f[d], q \o r, d)
  <2>1. OnTrack(acct, e[d], q, d)
      BY <1>2, <1>3, <1>7 DEF Tracking
  <2> QED
      BY <1>5, <2>1, ToldTrack
<1>8. seamless => socket.up
    BY DEF Stream
<1>9. ASSUME phase' = "running", seamless', ~hasty', NEW d \in ClIDs
      PROVE  OnTrack(acct', exch'[d], socket'.q, d)
    BY <1>3, <1>4, <1>7, <1>8, <1>9
<1>10. socket'.up => NewsFirst(socket'.q) /\ FillsFollow(socket'.q, exch')
    BY <1>3, <1>4, <1>6
<1> QED
    BY <1>9, <1>10 DEF Tracking

----------------------------------------------------------------------------
(***************************************************************************)
(* The live orders are tracked, action by action.                          *)
(***************************************************************************)

\* What an order's answers and cancel requests say stays in time when nothing
\* new is said that the exchange has not done.
LEMMA TimelyKept ==
    ASSUME World, Types0, World', Types0', Grows, NEW c \in ClIDs, Timely(c), hasty => hasty',
           future'[c].new = "Filled" => future[c].new = "Filled" \/ exch'[c].at = "Done",
           ~hasty' /\ c \in cancels' => c \in cancels \/ exch[c].id # NoID,
           ~hasty' /\ future'[c].cancel = "unknown" =>
              future[c].cancel = "unknown" \/ exch'[c].at = "Done"
    PROVE  Timely(c)'
<1>1. exch[c].at \notin {"None", "Sent"} => exch[c].id # NoID \/ exch[c].at = "Done"
    BY DEF World, ExchangeSound, Types0, ExchangeOrder
<1>2. exch[c].id # NoID \/ exch[c].at = "Done" => exch'[c].at \notin {"None", "Sent"}
    BY DEF Grows, World, ExchangeSound
<1>3. exch[c].at = "Done" => exch'[c].at = "Done"
    BY DEF Grows
<1>4. future'[c].new = "Filled" => exch'[c].at = "Done"
    BY <1>3 DEF Timely
<1>5. ASSUME ~hasty' PROVE ~hasty
    BY <1>5, Zenon
<1>6. ASSUME ~hasty', c \in cancels' PROVE exch'[c].at \notin {"None", "Sent"}
  <2>1. exch[c].at \notin {"None", "Sent"} \/ exch[c].id # NoID
      BY <1>5, <1>6 DEF Timely
  <2> QED
      BY <1>1, <1>2, <2>1
<1>7. ASSUME ~hasty', future'[c].cancel = "unknown" PROVE exch'[c].at = "Done"
    BY <1>3, <1>5, <1>7 DEF Timely
<1> QED
    BY <1>4, <1>6, <1>7 DEF Timely

\* When the socket stays as it is, and the exchange executes nothing, the account
\* has to keep track of its orders.
LEMMA TrackKept ==
    ASSUME Types0, Tracking, socket' = socket, \A c \in ClIDs : Timely(c)',
           exch' \in [ClIDs -> ExchangeOrder],
           \A c \in ClIDs : exch'[c].cum = exch[c].cum \/ ~News(socket.q, c),
           phase' = "running" /\ seamless' /\ ~hasty' =>
              \A c \in ClIDs : OnTrack(acct', exch'[c], socket.q, c)
    PROVE  Tracking'
<1>1. PICK q : q = socket.q
    OBVIOUS
<1>2. PICK f : f = exch'
    OBVIOUS
<1>3. FillsFollow(q, exch) => FillsFollow(q, f)
    BY <1>1, <1>2 DEF FillsFollow
<1>4. socket'.up => NewsFirst(socket'.q) /\ FillsFollow(socket'.q, exch')
    BY <1>1, <1>2, <1>3 DEF Tracking
<1> QED
    BY <1>4 DEF Tracking

\* At most the exchange is done with an order, and says so to no stream.
LEMMA TrackQuiet ==
    ASSUME Types0, Types0', Tracking, socket' = socket, acct' = acct,
           \A c \in ClIDs : Timely(c)',
           \A c \in ClIDs : \/ exch'[c] = exch[c]
                            \/ exch'[c].at = "Done" /\ exch'[c].cum = exch[c].cum,
           phase' \in {phase, "failed"}, seamless' = seamless, hasty => hasty'
    PROVE  Tracking'
<1>1. ASSUME phase' = "running", seamless', ~hasty', NEW c \in ClIDs
      PROVE  OnTrack(acct', exch'[c], socket.q, c)
  <2>1. ~hasty
      BY <1>1, Zenon
  <2>2. OnTrack(acct, exch[c], socket.q, c)
      BY <1>1, <2>1 DEF Tracking
  <2> QED
      BY <2>2 DEF OnTrack
<1>2. \A c \in ClIDs : exch'[c].cum = exch[c].cum
    OBVIOUS
<1>3. exch' \in [ClIDs -> ExchangeOrder]
    BY DEF Types0
<1> QED
    BY <1>1, <1>2, <1>3, TrackKept

\* One order changes at the exchange, which tells of it.
LEMMA TrackOneOrder ==
    ASSUME IInv, Stream, Tracking, NEW c \in ClIDs, NEW p \in ExchangeOrder,
           exch' = [exch EXCEPT ![c] = p],
           NEW r \in Seq(Event), Emit(r), NewsFirst(r), \A i \in 1..Len(r) : r[i].c = c,
           Told(exch[c], p, r, c),
           UNCHANGED <<acct, phase, seamless, hasty>>, \A d \in ClIDs : Timely(d)'
    PROVE  Tracking'
<1>1. exch \in [ClIDs -> ExchangeOrder] /\ exch' \in [ClIDs -> ExchangeOrder]
    BY DEF IInv, Types0
<1>2. ASSUME NEW d \in ClIDs PROVE Told(exch[d], exch'[d], r, d)
  <2>1. CASE d = c
      BY <1>1, <2>1
  <2>2. CASE d # c
    <3>1. PICK o \in ExchangeOrder : o = exch[d] /\ exch'[d] = o
        BY <1>1, <2>2
    <3>2. Told(o, o, r, d)
        BY <2>2, ToldNothing
    <3> QED
        BY <3>1, <3>2
  <2> QED
      BY <2>1, <2>2
<1>3. \A d : News(r, d) => d \in ClIDs
    BY DEF News
<1> QED
    BY <1>1, <1>2, <1>3, TrackEmits

\* An announcement with what happens at once behind it.
LEMMA NewsOfTwo ==
    ASSUME NEW n \in Event, NEW m \in Event, n.ev = "new", m.ev # "new", n.c = m.c
    PROVE  \E r \in Seq(Event) :
             /\ r = <<n, m>> /\ NewsFirst(r) /\ News(r, n.c) /\ \A i \in 1..Len(r) : r[i].c = n.c
             /\ Fills(r, n.c) = n.qty + m.qty
<1>1. PICK a \in Seq(Event), b \in Seq(Event) : a = <<n>> /\ b = <<m>> /\ <<n, m>> = a \o b
  <2>1. <<n>> \in Seq(Event) /\ <<m>> \in Seq(Event)
      BY Singletons
  <2>2. <<n, m>> = <<n>> \o <<m>>
      BY Pairs
  <2> QED
      BY <2>1, <2>2
<1>2. PICK r \in Seq(Event) :
        r = <<n, m>> /\ r = a \o b /\ Len(r) = 2 /\ r[1] = n /\ r[2] = m
  <2>1. <<n, m>> \in Seq(Event) /\ Len(<<n, m>>) = 2 /\ <<n, m>>[1] = n /\ <<n, m>>[2] = m
      BY Singletons
  <2> QED
      BY <1>1, <2>1
<1>3. NewsFirst(a) /\ NewsFirst(b) /\ News(a, n.c) /\ \A d : ~News(b, d)
    BY <1>1, NewsOne
<1>4. NewsFirst(a \o b) /\ News(a \o b, n.c)
    BY <1>3, NewsFirstAppend, NewsAppend
<1>5. Fills(a \o b, n.c) = Fills(a, n.c) + Fills(b, n.c)
    BY FillsAppend
<1>6. Fills(a, n.c) = n.qty /\ Fills(b, n.c) = m.qty
    BY <1>1, FillsOne
<1>7. \A i \in 1..Len(r) : r[i].c = n.c
    BY <1>2
<1> QED
    BY <1>2, <1>4, <1>5, <1>6, <1>7

\* The exchange takes a new order: it is announced, and confirmed with what the
\* account has left of it.
LEMMA AcceptTrack ==
    ASSUME IInv, Stream, Tracking, NEW c \in ClIDs, Accept(c) PROVE Tracking'
<1>1. World /\ Types0 /\ EventsTrue /\ exch \in [ClIDs -> ExchangeOrder]
    BY DEF IInv, Types0
<1>2. Grows /\ World' /\ Types0'
    BY <1>1, AcceptOutside DEF Outside
<1>3. UNCHANGED <<acct, phase, cancels, seamless, hasty>>
    BY DEF Accept, count
<1>4. PICK o \in ExchangeOrder :
        /\ o = exch[c] /\ o.at = "Sent" /\ o.id = NoID /\ o.cum = 0 /\ o.leaves \in 0..MaxLots
        /\ 0 \in 0..MaxLots
    BY <1>1, AccountConstants DEF Accept, World, ExchangeSound, ExchangeOrder
<1>5. PICK x \in ExIDs :
        \/ /\ exch' = [exch EXCEPT ![c] = [@ EXCEPT !.at = "Live", !.id = x]]
           /\ Emit(<<Happened("new", c, x, 0)>>)
           /\ Answer("new", c, "New")
        \/ /\ exch' = [exch EXCEPT ![c] = [@ EXCEPT !.at = "Done", !.id = x, !.leaves = 0,
                                                    !.cum = exch[c].leaves]]
           /\ Emit(<<Happened("new", c, x, 0), Happened("trade", c, x, exch[c].leaves)>>)
           /\ Answer("new", c, "Filled")
        \/ /\ exch' = [exch EXCEPT ![c] = [@ EXCEPT !.at = "Done", !.id = x]]
           /\ Emit(<<Happened("new", c, x, 0), Happened("expired", c, x, 0)>>)
           /\ Answer("new", c, "Expired")
    BY DEF Accept
<1>6. PICK n \in Event, m \in Event, k \in Event :
        /\ n = Happened("new", c, x, 0) /\ n.ev = "new" /\ n.c = c /\ n.qty = 0
        /\ m = Happened("trade", c, x, o.leaves)
        /\ m.ev = "trade" /\ m.c = c /\ m.qty = o.leaves
        /\ k = Happened("expired", c, x, 0) /\ k.ev = "expired" /\ k.c = c /\ k.qty = 0
    BY <1>4, HappenedShape
<1>7. ASSUME NEW p \in ExchangeOrder, exch' = [exch EXCEPT ![c] = p],
             NEW a \in {"New", "Filled", "Expired"}, Answer("new", c, a),
             a = "Filled" => p.at = "Done",
             NEW r \in Seq(Event), Emit(r), NewsFirst(r), \A i \in 1..Len(r) : r[i].c = c,
             News(r, c), p.cum = Fills(r, c), p.at \in {"Live", "Done"},
             p.at = "Live" => o.leaves = p.leaves + p.cum
      PROVE  Tracking'
  <2>1. /\ \A d \in ClIDs : /\ future'[d].cancel = future[d].cancel
                            /\ future'[d].new = future[d].new \/ (d = c /\ future'[d].new = a)
    <3>1. a \in NewAnswers
        BY DEF NewAnswers
    <3> QED
        BY <1>1, <1>7, <3>1, AnswerNewShape
  <2>2. exch'[c] = p
      BY <1>1, <1>7
  <2>3. ASSUME NEW d \in ClIDs PROVE Timely(d)'
    <3>1. Timely(d)
        BY DEF Tracking
    <3>2. future'[d].new = "Filled" => future[d].new = "Filled" \/ exch'[d].at = "Done"
        BY <1>7, <2>1, <2>2
    <3>3. future'[d].cancel = future[d].cancel /\ cancels' = cancels /\ (hasty => hasty')
        BY <1>3, <2>1
    <3> QED
        BY <1>1, <1>2, <3>1, <3>2, <3>3, TimelyKept
  <2>4. Told(o, p, r, c)
      BY <1>4, <1>7 DEF Told
  <2> QED
      BY <1>3, <1>4, <1>7, <2>3, <2>4, TrackOneOrder
<1>8. CASE /\ exch' = [exch EXCEPT ![c] = [o EXCEPT !.at = "Live", !.id = x]]
           /\ Emit(<<n>>) /\ Answer("new", c, "New")
  <2> DEFINE p == [o EXCEPT !.at = "Live", !.id = x]
  <2>1. p \in ExchangeOrder /\ p.at = "Live" /\ p.cum = 0 /\ p.leaves = o.leaves
      BY <1>4 DEF ExchangeOrder
  <2>0. exch' = [exch EXCEPT ![c] = p]
      BY <1>8
  <2>6. o.leaves \in Int
      BY <1>4, AccountConstants
  <2> HIDE DEF p
  <2>2. PICK r \in Seq(Event) : r = <<n>> /\ Len(r) = 1 /\ r[1] = n
    <3>1. <<n>> \in Seq(Event) /\ Len(<<n>>) = 1 /\ <<n>>[1] = n
        BY Singletons
    <3> QED
        BY <3>1
  <2>3. NewsFirst(r) /\ News(r, c) /\ Fills(r, c) = 0
      BY <1>6, <2>2, NewsOne, FillsOne
  <2>4. \A i \in 1..Len(r) : r[i].c = c
      BY <1>6, <2>2
  <2>5. p.at = "Live" => o.leaves = p.leaves + p.cum
      BY <2>1, <2>6
  <2> QED
      BY <1>7, <1>8, <2>0, <2>1, <2>2, <2>3, <2>4, <2>5
<1>9. CASE /\ exch' = [exch EXCEPT ![c] = [o EXCEPT !.at = "Done", !.id = x, !.leaves = 0,
                                                    !.cum = o.leaves]]
           /\ Emit(<<n, m>>) /\ Answer("new", c, "Filled")
  <2> DEFINE p == [o EXCEPT !.at = "Done", !.id = x, !.leaves = 0, !.cum = o.leaves]
  <2>1. p \in ExchangeOrder /\ p.at = "Done" /\ p.cum = o.leaves
      BY <1>4 DEF ExchangeOrder
  <2>0. exch' = [exch EXCEPT ![c] = p]
      BY <1>9
  <2> HIDE DEF p
  <2>2. PICK r \in Seq(Event) :
          /\ r = <<n, m>> /\ NewsFirst(r) /\ News(r, c) /\ \A i \in 1..Len(r) : r[i].c = c
          /\ Fills(r, c) = 0 + o.leaves
      BY <1>6, NewsOfTwo
  <2>3. p.cum = Fills(r, c)
      BY <1>4, <2>1, <2>2
  <2> QED
      BY <1>7, <1>9, <2>0, <2>1, <2>2, <2>3
<1>10. CASE /\ exch' = [exch EXCEPT ![c] = [o EXCEPT !.at = "Done", !.id = x]]
            /\ Emit(<<n, k>>) /\ Answer("new", c, "Expired")
  <2> DEFINE p == [o EXCEPT !.at = "Done", !.id = x]
  <2>1. p \in ExchangeOrder /\ p.at = "Done" /\ p.cum = 0
      BY <1>4 DEF ExchangeOrder
  <2>0. exch' = [exch EXCEPT ![c] = p]
      BY <1>10
  <2> HIDE DEF p
  <2>2. PICK r \in Seq(Event) :
          /\ r = <<n, k>> /\ NewsFirst(r) /\ News(r, c) /\ \A i \in 1..Len(r) : r[i].c = c
          /\ Fills(r, c) = 0 + 0
      BY <1>6, NewsOfTwo
  <2>3. p.cum = Fills(r, c)
      BY <2>1, <2>2
  <2> QED
      BY <1>7, <1>10, <2>0, <2>1, <2>2, <2>3
<1> QED
    BY <1>4, <1>5, <1>6, <1>8, <1>9, <1>10

\* One event that is no announcement.
LEMMA NoNewsOne ==
    ASSUME NEW n \in Event, n.ev # "new"
    PROVE  \E r \in Seq(Event) :
             /\ r = <<n>> /\ NewsFirst(r) /\ \A i \in 1..Len(r) : r[i].c = n.c
             /\ ~News(r, n.c) /\ Fills(r, n.c) = n.qty
<1>1. PICK r \in Seq(Event) : r = <<n>> /\ Len(r) = 1 /\ r[1] = n
  <2>1. <<n>> \in Seq(Event) /\ Len(<<n>>) = 1 /\ <<n>>[1] = n
      BY Singletons
  <2> QED
      BY <2>1
<1>2. NewsFirst(r) /\ ~News(r, n.c) /\ Fills(r, n.c) = n.qty
    BY <1>1, NewsOne, FillsOne
<1>3. \A i \in 1..Len(r) : r[i].c = n.c
    BY <1>1
<1> QED
    BY <1>1, <1>2, <1>3

\* A trade takes from what is left what its event executes.
LEMMA TradeTrack ==
    ASSUME IInv, Stream, Tracking, NEW c \in ClIDs, NEW qty \in Lots, Trade(c, qty)
    PROVE  Tracking'
<1>1. World /\ Types0 /\ EventsTrue /\ exch \in [ClIDs -> ExchangeOrder]
    BY DEF IInv, Types0
<1>2. Grows /\ World' /\ Types0'
    BY <1>1, TradeOutside DEF Outside
<1>3. UNCHANGED <<acct, phase, future, cancels, seamless, hasty>>
    BY DEF Trade, count, actor
<1>4. PICK o \in ExchangeOrder :
        /\ o = exch[c] /\ o.at = "Live" /\ o.id \in ExIDs /\ o.cum \in Int /\ o.leaves \in Int
        /\ qty <= o.leaves /\ qty \in 0..MaxLots
    BY <1>1, AccountConstants DEF Trade, Live, World, ExchangeSound, ExchangeOrder, Lots
<1>5. PICK p : p = [o EXCEPT !.leaves = o.leaves - qty, !.cum = o.cum + qty,
                             !.at = IF qty = o.leaves THEN "Done" ELSE "Live"]
    OBVIOUS
<1>6. exch' = [exch EXCEPT ![c] = p] /\ p = exch'[c] /\ p \in ExchangeOrder
  <2>1. exch' = [exch EXCEPT ![c] = p]
      BY <1>4, <1>5 DEF Trade
  <2>2. exch'[c] \in ExchangeOrder
      BY <1>2 DEF Types0
  <2> QED
      BY <1>1, <2>1, <2>2
<1>7. /\ p.at \in {"Live", "Done"} /\ p.id = o.id
      /\ p.leaves = o.leaves - qty /\ p.cum = o.cum + qty
    BY <1>4, <1>5 DEF ExchangeOrder
<1>8. PICK n \in Event :
        n = Happened("trade", c, o.id, qty) /\ n.ev = "trade" /\ n.c = c /\ n.qty = qty
    BY <1>4, HappenedShape
<1>9. PICK r \in Seq(Event) :
        /\ r = <<n>> /\ NewsFirst(r) /\ \A i \in 1..Len(r) : r[i].c = c
        /\ ~News(r, c) /\ Fills(r, c) = qty
    BY <1>8, NoNewsOne
<1>10. Emit(r)
    BY <1>4, <1>8, <1>9 DEF Trade
<1>11. Told(o, p, r, c)
    BY <1>4, <1>7, <1>9 DEF Told
<1>12. ASSUME NEW d \in ClIDs PROVE Timely(d)'
  <2>1. Timely(d)
      BY DEF Tracking
  <2> QED
      BY <1>1, <1>2, <1>3, <2>1, TimelyKept
<1> QED
    BY <1>3, <1>4, <1>6, <1>9, <1>10, <1>11, <1>12, TrackOneOrder

\* An order of another client is announced before it executes.
LEMMA ForeignOrderTrack ==
    ASSUME IInv, Stream, Tracking, NEW c \in ClIDs, NEW side \in Sides, NEW qty \in Lots,
           ForeignOrder(c, side, qty)
    PROVE  Tracking'
<1>1. World /\ Types0 /\ EventsTrue /\ exch \in [ClIDs -> ExchangeOrder]
    BY DEF IInv, Types0
<1>2. Grows /\ World' /\ Types0'
    BY <1>1, ForeignOrderOutside DEF Outside
<1>3. UNCHANGED <<acct, phase, future, cancels, seamless, hasty>>
    BY DEF ForeignOrder, count, actor
<1>4. PICK x \in ExIDs :
        /\ exch' = [exch EXCEPT ![c] = [at |-> "Live", side |-> side, type |-> "Limit",
                                        id |-> x, leaves |-> qty, cum |-> 0]]
        /\ Emit(<<Happened("new", c, x, 0)>>)
    BY DEF ForeignOrder
<1>5. PICK p : p = [at |-> "Live", side |-> side, type |-> "Limit",
                    id |-> x, leaves |-> qty, cum |-> 0]
    OBVIOUS
<1>6. exch' = [exch EXCEPT ![c] = p] /\ p \in ExchangeOrder
  <2>1. exch'[c] \in ExchangeOrder
      BY <1>2 DEF Types0
  <2> QED
      BY <1>1, <1>4, <1>5, <2>1
<1>7. PICK o \in ExchangeOrder : o = exch[c] /\ o.at = "None" /\ o.id = NoID
    BY <1>1 DEF ForeignOrder, World, ExchangeSound
<1>8. 0 \in 0..MaxLots
    BY AccountConstants
<1>9. PICK n \in Event :
        n = Happened("new", c, x, 0) /\ n.ev = "new" /\ n.c = c /\ n.qty = 0
    BY <1>8, HappenedShape
<1>10. PICK r \in Seq(Event) : r = <<n>> /\ Len(r) = 1 /\ r[1] = n
  <2>1. <<n>> \in Seq(Event) /\ Len(<<n>>) = 1 /\ <<n>>[1] = n
      BY Singletons
  <2> QED
      BY <2>1
<1>11. NewsFirst(r) /\ News(r, c) /\ Fills(r, c) = 0
    BY <1>9, <1>10, NewsOne, FillsOne
<1>12. \A i \in 1..Len(r) : r[i].c = c
    BY <1>9, <1>10
<1>13. Told(o, p, r, c)
    BY <1>5, <1>7, <1>11 DEF Told
<1>14. ASSUME NEW d \in ClIDs PROVE Timely(d)'
  <2>1. Timely(d)
      BY DEF Tracking
  <2> QED
      BY <1>1, <1>2, <1>3, <2>1, TimelyKept
<1> QED
    BY <1>3, <1>4, <1>6, <1>7, <1>9, <1>10, <1>11, <1>12, <1>13, <1>14, TrackOneOrder

\* What a step that sends no cancel request, and gives only answers the exchange
\* has done, leaves in time.
LEMMA TimelyOutside ==
    ASSUME IInv, Tracking, Outside, hasty => hasty', cancels' \subseteq cancels,
           \A d \in ClIDs :
              /\ future'[d].new = "Filled" => future[d].new = "Filled"
              /\ ~hasty' /\ future'[d].cancel = "unknown" =>
                    future[d].cancel = "unknown" \/ exch'[d].at = "Done"
    PROVE  \A d \in ClIDs : Timely(d)'
<1>1. World /\ Types0 /\ World' /\ Types0' /\ Grows
    BY DEF IInv, Outside
<1>2. ASSUME NEW d \in ClIDs PROVE Timely(d)'
  <2>1. Timely(d)
      BY DEF Tracking
  <2> QED
      BY <1>1, <2>1, TimelyKept
<1> QED
    BY <1>2

\* A cancel closes a live order, and tells of it; what it does not find was done.
LEMMA CarryOutCancelTrack ==
    ASSUME IInv, Stream, Tracking, NEW c \in ClIDs, CarryOutCancel(c) PROVE Tracking'
<1>1. World /\ Types0 /\ EventsTrue /\ exch \in [ClIDs -> ExchangeOrder]
    BY DEF IInv, Types0
<1>2. Outside /\ Types0'
    BY <1>1, CarryOutCancelOutside DEF Outside
<1>3. UNCHANGED <<acct, phase, seamless, hasty>> /\ cancels' \subseteq cancels /\ c \in cancels
    BY DEF CarryOutCancel, count
<1>4. CASE Live(c)
  <2>1. PICK o \in ExchangeOrder :
          /\ o = exch[c] /\ o.at = "Live" /\ o.id \in ExIDs /\ o.cum \in Int /\ 0 \in 0..MaxLots
      BY <1>1, <1>4, AccountConstants DEF Live, World, ExchangeSound, ExchangeOrder
  <2> DEFINE p == [o EXCEPT !.at = "Done"]
  <2>2. p \in ExchangeOrder /\ p.at = "Done" /\ p.cum = o.cum
      BY <2>1 DEF ExchangeOrder
  <2>3. exch' = [exch EXCEPT ![c] = p]
      BY <1>4, <2>1 DEF CarryOutCancel
  <2> HIDE DEF p
  <2>4. PICK n \in Event :
          n = Happened("canceled", c, o.id, 0) /\ n.ev = "canceled" /\ n.c = c /\ n.qty = 0
      BY <2>1, HappenedShape
  <2>5. PICK r \in Seq(Event) :
          /\ r = <<n>> /\ NewsFirst(r) /\ \A i \in 1..Len(r) : r[i].c = c
          /\ ~News(r, c) /\ Fills(r, c) = 0
      BY <2>4, NoNewsOne
  <2>6. Emit(r) /\ Answer("cancel", c, "ok")
      BY <1>4, <2>1, <2>4, <2>5 DEF CarryOutCancel
  <2>7. Told(o, p, r, c)
      BY <2>1, <2>2, <2>5 DEF Told
  <2>8. \A d \in ClIDs : /\ future'[d].new = future[d].new
                         /\ future'[d].cancel \in {future[d].cancel, "ok"}
    <3>1. "ok" \in CancelAnswers
        BY DEF CancelAnswers
    <3> QED
        BY <1>1, <2>6, <3>1, AnswerCancelShape
  <2>9. \A d \in ClIDs : Timely(d)'
      BY <1>2, <1>3, <2>8, TimelyOutside
  <2> QED
      BY <1>3, <2>1, <2>2, <2>3, <2>5, <2>6, <2>7, <2>9, TrackOneOrder
<1>5. CASE ~Live(c)
  <2>1. Answer("cancel", c, "unknown") /\ exch' = exch /\ socket' = socket
      BY <1>5 DEF CarryOutCancel
  <2>2. \A d \in ClIDs : /\ future'[d].new = future[d].new
                         /\ \/ future'[d].cancel = future[d].cancel
                            \/ d = c /\ future'[d].cancel = "unknown"
    <3>1. "unknown" \in CancelAnswers
        BY DEF CancelAnswers
    <3> QED
        BY <1>1, <2>1, <3>1, AnswerCancelShape
  <2>3. ASSUME ~hasty' PROVE exch'[c].at = "Done"
    <3>1. ~hasty
        BY <1>3, <2>3
    <3>2. Timely(c) /\ exch[c] \in ExchangeOrder
        BY <1>1 DEF Tracking
    <3>3. exch[c].at \notin {"None", "Sent"}
        BY <1>3, <3>1, <3>2 DEF Timely
    <3> QED
        BY <1>5, <2>1, <3>2, <3>3 DEF Live, ExchangeOrder
  <2>4. \A d \in ClIDs : Timely(d)'
      BY <1>2, <1>3, <2>2, <2>3, TimelyOutside
  <2> QED
      BY <1>1, <1>2, <1>3, <2>1, <2>4, TrackQuiet
<1> QED
    BY <1>4, <1>5

\* Everything the exchange cancels at once is done.
LEMMA CarryOutMassCancelTrack ==
    ASSUME IInv, Stream, Tracking, CarryOutMassCancel PROVE Tracking'
<1> DEFINE L == {d \in ClIDs : Live(d)}
           S == {Happened("canceled", d, exch[d].id, 0) : d \in L}
<1>1. World /\ Types0 /\ EventsTrue /\ exch \in [ClIDs -> ExchangeOrder]
    BY DEF IInv, Types0
<1>2. Outside /\ Types0'
    BY <1>1, CarryOutMassCancelOutside DEF Outside
<1>3. UNCHANGED <<acct, phase, future, cancels, seamless, hasty>>
    BY DEF CarryOutMassCancel, count, actor
<1>4. PICK r \in SetToSeqs(S) : Emit(r)
    BY DEF CarryOutMassCancel
<1>5. ASSUME NEW n \in S PROVE n \in Event /\ n.ev = "canceled" /\ n.qty = 0
  <2>1. PICK d \in ClIDs : Live(d) /\ n = Happened("canceled", d, exch[d].id, 0)
      BY <1>5
  <2>2. exch[d].id \in ExIDs /\ 0 \in 0..MaxLots
      BY <2>1, AccountConstants DEF IInv, World, ExchangeSound, Types0, ExchangeOrder, Live
  <2> QED
      BY <2>1, <2>2, HappenedShape
<1>6. r \in Seq(Event) /\ \A i \in 1..Len(r) : r[i] \in S
  <2>1. S \in SUBSET Event /\ IsFiniteSet(S)
    <3>1. IsFiniteSet(S)
        BY CanceledFinite
    <3> HIDE DEF S
    <3> QED
        BY <1>5, <3>1
  <2> HIDE DEF S
  <2> QED
      BY <2>1, SequencesOf
<1>7. ASSUME NEW d \in ClIDs
      PROVE  /\ exch'[d].cum = exch[d].cum /\ exch[d].cum \in Int
             /\ (exch'[d] = exch[d] /\ exch[d].at # "Live") \/ exch'[d].at = "Done"
  <2>1. exch'[d] = IF Live(d) THEN [exch[d] EXCEPT !.at = "Done"] ELSE exch[d]
      BY DEF CarryOutMassCancel
  <2>2. exch[d] \in ExchangeOrder /\ exch[d].cum \in Int
      BY <1>1, AccountConstants DEF ExchangeOrder
  <2> QED
      BY <2>1, <2>2 DEF Live, ExchangeOrder
<1> HIDE DEF S
<1>8. \A i \in 1..Len(r) : r[i].ev # "new" /\ r[i].qty = 0
    BY <1>5, <1>6
<1>9. NewsFirst(r) /\ \A d : ~News(r, d)
    BY <1>8 DEF NewsFirst, News
<1>10. ASSUME NEW d \in ClIDs PROVE Told(exch[d], exch'[d], r, d)
  <2>1. Fills(r, d) = 0
      BY <1>6, <1>8, FillsNone
  <2>2. ~News(r, d)
      BY <1>9
  <2>3. exch'[d].at # "Live" /\ exch'[d].cum = exch[d].cum + 0
      BY <1>7
  <2> QED
      BY <1>7, <2>1, <2>2, <2>3 DEF Told
<1>11. \A d \in ClIDs : Timely(d)'
    BY <1>2, <1>3, TimelyOutside
<1>12. exch' \in [ClIDs -> ExchangeOrder]
    BY <1>2 DEF Types0
<1> QED
    BY <1>3, <1>4, <1>6, <1>9, <1>10, <1>11, <1>12, TrackEmits

\* The exchange loses track of no order, whatever it does.
LEMMA ExchangeTrack ==
    ASSUME IInv, Stream, Tracking, Exchange PROVE Tracking'
<1>1. World /\ Types0 /\ EventsTrue /\ exch \in [ClIDs -> ExchangeOrder]
    BY DEF IInv, Types0
<1>2. ASSUME NEW c \in ClIDs, RefuseNew(c) PROVE Tracking'
  <2>1. Outside /\ Types0'
      BY <1>1, <1>2, RefuseNewOutside DEF Outside
  <2>2. UNCHANGED <<acct, phase, socket, cancels, seamless, hasty>>
      BY <1>2 DEF RefuseNew, count
  <2>3. \A d \in ClIDs : /\ future'[d].cancel = future[d].cancel
                         /\ future'[d].new \in {future[d].new, "refused"}
    <3>1. "refused" \in NewAnswers /\ Answer("new", c, "refused")
        BY <1>2 DEF NewAnswers, RefuseNew
    <3> QED
        BY <1>1, <3>1, AnswerNewShape
  <2>4. \A d \in ClIDs : \/ exch'[d] = exch[d]
                         \/ exch'[d].at = "Done" /\ exch'[d].cum = exch[d].cum
      BY <1>1, <1>2 DEF RefuseNew, ExchangeOrder
  <2>5. \A d \in ClIDs : Timely(d)'
      BY <2>1, <2>2, <2>3, TimelyOutside
  <2> QED
      BY <1>1, <2>1, <2>2, <2>4, <2>5, TrackQuiet
<1>3. ASSUME NEW c \in ClIDs, RefuseCancel(c) PROVE Tracking'
  <2>1. Outside /\ Types0'
      BY <1>1, <1>3, RefuseCancelOutside DEF Outside
  <2>2. UNCHANGED <<acct, phase, socket, exch, seamless, hasty>> /\ cancels' \subseteq cancels
      BY <1>3 DEF RefuseCancel, count
  <2>3. \A d \in ClIDs : /\ future'[d].new = future[d].new
                         /\ future'[d].cancel \in {future[d].cancel, "refused"}
    <3>1. "refused" \in CancelAnswers /\ Answer("cancel", c, "refused")
        BY <1>3 DEF CancelAnswers, RefuseCancel
    <3> QED
        BY <1>1, <3>1, AnswerCancelShape
  <2>4. \A d \in ClIDs : Timely(d)'
      BY <2>1, <2>2, <2>3, TimelyOutside
  <2> QED
      BY <1>1, <2>1, <2>2, <2>4, TrackQuiet
<1> QED
    BY <1>2, <1>3, AcceptTrack, CarryOutCancelTrack, TradeTrack, ForeignOrderTrack,
       CarryOutMassCancelTrack DEF Exchange, Arrivals, CancelArrivals

\* When the exchange and the socket stay as they are, an account that spares the
\* orders that are not done keeps track of them.
LEMMA TrackSpared ==
    ASSUME IInv, Tracking, Outside, UNCHANGED <<exch, socket, seamless>>, hasty => hasty',
           phase' \in {phase, "failed"}, \A d \in ClIDs : Timely(d)',
           phase = "running" /\ seamless /\ ~hasty' =>
              \A d \in ClIDs : exch[d].at = "Done" \/ Spares(acct, acct', d)
    PROVE  Tracking'
<1>1. Types0 /\ World /\ exch \in [ClIDs -> ExchangeOrder]
    BY DEF IInv, Types0
<1>2. ASSUME phase' = "running", seamless', ~hasty', NEW d \in ClIDs
      PROVE  OnTrack(acct', exch'[d], socket.q, d)
  <2>1. ~hasty
      BY <1>2, Zenon
  <2>2. OnTrack(acct, exch[d], socket.q, d)
      BY <1>2, <2>1 DEF Tracking
  <2>3. CASE exch[d].at = "Done"
      BY <2>3 DEF OnTrack
  <2>4. CASE exch[d].at # "Done"
    <3>1. Spares(acct, acct', d)
        BY <1>2, <2>4
    <3>2. exch[d].at = "Live" => exch[d].id \in ExIDs
        BY <1>1 DEF World, ExchangeSound, ExchangeOrder
    <3>3. PICK b : b = acct'
        OBVIOUS
    <3>4. OnTrack(b, exch[d], socket.q, d)
        BY <2>2, <3>1, <3>2, <3>3, SparedTrack
    <3> QED
        BY <3>3, <3>4
  <2> QED
      BY <2>3, <2>4
<1> QED
    BY <1>1, <1>2, TrackKept

\* A new order is sent with what the account has left of it.
LEMMA NewRequestTrack ==
    ASSUME IInv, Tracking, NEW c \in ClIDs, NEW side \in Sides, NEW type \in Types,
           NEW qty \in Lots, OnNewOrderSingleRequest(c, side, type, qty)
    PROVE  Tracking'
<1>1. World /\ Types0 /\ EventsTrue /\ exch \in [ClIDs -> ExchangeOrder]
    BY DEF IInv, Types0
<1>2. Outside /\ Types0' /\ exch' \in [ClIDs -> ExchangeOrder]
    BY <1>1, NewRequestOutside DEF Outside, Types0
<1>3. UNCHANGED <<phase, socket, cancels, seamless, hasty>>
    BY DEF OnNewOrderSingleRequest, count
<1>4. \A d \in ClIDs : /\ future'[d].cancel = future[d].cancel
                       /\ future'[d].new \in {future[d].new, "waiting"}
    BY <1>1 DEF OnNewOrderSingleRequest, Types0
<1>5. \A d \in ClIDs : Timely(d)'
    BY <1>2, <1>3, <1>4, TimelyOutside
<1>6. /\ exch' = [exch EXCEPT ![c] = [at |-> "Sent", side |-> side, type |-> type,
                                      id |-> NoID, leaves |-> qty, cum |-> 0]]
      /\ exch[c].at = "None" /\ acct' = NewOrder(acct, c, side, type, 1, qty)
    BY DEF OnNewOrderSingleRequest
<1>7. ~News(socket.q, c)
  <2>1. exch[c].id = NoID
      BY <1>1, <1>6 DEF World, ExchangeSound
  <2> QED
      BY <1>1, <2>1, UntoldBeforeID DEF News
<1>8. \A d \in ClIDs : exch'[d].cum = exch[d].cum \/ ~News(socket.q, d)
    BY <1>1, <1>6, <1>7
<1>9. ASSUME phase' = "running", seamless', ~hasty', NEW d \in ClIDs
      PROVE  OnTrack(acct', exch'[d], socket.q, d)
  <2>1. acct \in AccountType
      BY DEF IInv, Linked, AccountInv
  <2>2. PICK b : b = NewOrder(acct, c, side, type, 1, qty)
      OBVIOUS
  <2>3. CASE d = c
    <3>1. b.orders[c] = Submitted(side, type, 1, qty)
        BY <2>1, <2>2 DEF NewOrder, Put, AccountType
    <3>2. b.orders[c].status = "PendingNew" /\ b.orders[c].leaves = qty
        BY <3>1 DEF Submitted
    <3>3. exch'[c].at = "Sent" /\ exch'[c].leaves = qty
        BY <1>1, <1>6
    <3> QED
        BY <1>6, <2>2, <2>3, <3>2, <3>3 DEF OnTrack
  <2>4. CASE d # c
    <3>1. PICK o \in ExchangeOrder : o = exch[d] /\ exch'[d] = o
        BY <1>1, <1>6, <2>4
    <3>2. OnTrack(acct, o, socket.q, d)
        BY <1>3, <1>9, <3>1 DEF Tracking
    <3>3. Spares(acct, b, d)
        BY <2>1, <2>2, <2>4, NewOrderSpares
    <3>4. o.at = "Live" => o.id \in ExIDs
        BY <1>1, <3>1 DEF World, ExchangeSound, ExchangeOrder
    <3>5. OnTrack(b, o, socket.q, d)
        BY <3>2, <3>3, <3>4, SparedTrack
    <3> QED
        BY <1>6, <2>2, <3>1, <3>5
  <2> QED
      BY <2>3, <2>4
<1> QED
    BY <1>1, <1>2, <1>3, <1>5, <1>8, <1>9, TrackKept

\* A cancel request: the order it names has its id when no cancel is hasty, so it
\* is at the exchange, and its entry by exchange id stays.
LEMMA CancelRequestTrack ==
    ASSUME IInv, Tracking, NEW c \in ClIDs, OnOrderCancelRequest(c) PROVE Tracking'
<1>1. World /\ Types0 /\ EventsTrue /\ Linked(acct) /\ AccountInv(acct)
    BY DEF IInv, Linked
<1>2. Outside /\ Types0' /\ World' /\ Grows
    BY <1>1, CancelRequestOutside DEF Outside
<1>3. UNCHANGED <<phase, socket, exch, seamless>> /\ cancels' = cancels \cup {c}
    BY DEF OnOrderCancelRequest
<1>4. hasty' = (hasty \/ acct.orders[c].id = NoID)
    BY DEF OnOrderCancelRequest
<1>5. hasty => hasty'
    BY <1>4, Zenon
<1>6. ~hasty' => acct.orders[c].id # NoID
    BY <1>4, Zenon
<1>7. \A d \in ClIDs : /\ future'[d].new = future[d].new
                       /\ future'[d].cancel \in {future[d].cancel, "waiting"}
    BY <1>1 DEF OnOrderCancelRequest, Types0
<1>8. ASSUME NEW d \in ClIDs PROVE Timely(d)'
  <2>1. Timely(d)
      BY DEF Tracking
  <2>2. ~hasty' => exch[c].id # NoID
      BY <1>1, <1>6 DEF Linked, Agrees
  <2>3. ~hasty' /\ d \in cancels' => d \in cancels \/ exch[d].id # NoID
      BY <1>3, <2>2
  <2>4. /\ future'[d].new = "Filled" => future[d].new = "Filled"
        /\ future'[d].cancel = "unknown" => future[d].cancel = "unknown"
      BY <1>7
  <2> QED
      BY <1>1, <1>2, <1>5, <2>1, <2>3, <2>4, TimelyKept
<1>9. ASSUME ~hasty', NEW d \in ClIDs PROVE Spares(acct, acct', d)
  <2>1. CASE CancelOrderRejected(acct, c)
      BY <2>1, SparedByNothing DEF OnOrderCancelRequest
  <2>2. CASE ~CancelOrderRejected(acct, c)
    <3>1. acct' = CancelOrder(acct, c)
        BY <2>2 DEF OnOrderCancelRequest
    <3>2. Spares(acct, CancelOrder(acct, c), d)
        BY <1>1, <1>6, <1>9, <2>2, CancelOrderSpares
    <3> QED
        BY <3>1, <3>2
  <2> QED
      BY <2>1, <2>2
<1> QED
    BY <1>2, <1>3, <1>5, <1>8, <1>9, TrackSpared

\* The users' requests lose track of no order.
LEMMA UsersTrack ==
    ASSUME IInv, Tracking, Users PROVE Tracking'
BY NewRequestTrack, CancelRequestTrack DEF Users

\* A fault: a lost answer says nothing, a cut stream is not seamless, and a failed
\* actor starts anew.
LEMMA FaultsTrack ==
    ASSUME IInv, Tracking, Faults PROVE Tracking'
<1>1. World /\ Types0 /\ EventsTrue /\ exch \in [ClIDs -> ExchangeOrder]
    BY DEF IInv, Types0
<1>2. ASSUME NEW c \in ClIDs, NEW request \in {"new", "cancel"}, LoseAnswer(request, c)
      PROVE  Tracking'
  <2>1. Outside /\ Types0'
      BY <1>1, <1>2, LoseAnswerOutside DEF Outside
  <2>2. UNCHANGED <<acct, phase, socket, exch, cancels, seamless, hasty>>
      BY <1>2 DEF LoseAnswer, Fault, world
  <2>3. \A d \in ClIDs : /\ future'[d].new \in {future[d].new, "timeout", "refused"}
                         /\ future'[d].cancel \in {future[d].cancel, "timeout", "refused"}
    <3>1. future' = [future EXCEPT ![c][request] = "timeout"]
             \/ future' = [future EXCEPT ![c][request] = "refused"]
        BY <1>2 DEF LoseAnswer
    <3> QED
        BY <1>1, <1>2, <3>1 DEF Types0
  <2>4. \A d \in ClIDs : Timely(d)'
      BY <2>1, <2>2, <2>3, TimelyOutside
  <2> QED
      BY <1>1, <2>1, <2>2, <2>4, TrackQuiet
<1>3. ASSUME LoseMassCancel \/ SocketFails \/ FetchFails \/ InitializeFails
      PROVE  /\ Outside /\ Types0' /\ UNCHANGED <<acct, exch, hasty>>
             /\ \A d \in ClIDs : Timely(d)'
  <2>1. Outside /\ Types0'
      BY <1>1, <1>3, FaultsOutside DEF Outside
  <2>2. UNCHANGED <<acct, future, exch, cancels, hasty>>
      BY <1>3 DEF LoseMassCancel, SocketFails, FetchFails, InitializeFails, Fault, actor, world
  <2> QED
      BY <2>1, <2>2, TimelyOutside
<1>4. CASE LoseMassCancel \/ FetchFails
  <2>1. UNCHANGED <<socket, seamless>> /\ phase' \in {phase, "failed"}
      BY <1>4 DEF LoseMassCancel, FetchFails, actor
  <2> QED
      BY <1>1, <1>3, <1>4, <2>1, TrackQuiet
<1>5. CASE SocketFails
  <2>1. socket'.up = FALSE /\ seamless' = FALSE
      BY <1>1, <1>5 DEF SocketFails, Types0
  <2> QED
      BY <1>3, <1>5, <2>1 DEF Tracking
<1>6. CASE InitializeFails
  <2>1. socket'.up = FALSE /\ phase' = "subscribe"
      BY <1>6 DEF InitializeFails, NoSocket
  <2> QED
      BY <1>3, <1>6, <2>1 DEF Tracking
<1> QED
    BY <1>2, <1>4, <1>5, <1>6 DEF Faults

\* A cancel of an unknown order spares the others.
LEMMA RejectCancelSparesOthers ==
    ASSUME NEW a, AccountInv(a), NEW c \in ClIDs, Known(a, c), NEW d \in ClIDs, d # c
    PROVE  /\ Spares(a, RejectCancelOrder(a, c, TRUE), d)
           /\ Spares(RejectCancelOrder(a, c, TRUE), PendingFilled(RejectCancelOrder(a, c, TRUE), c), d)
<1> DEFINE r == a.orders[c]
           o == CancelRejected(r, TRUE)
<1>1. a \in AccountType /\ r \in Order /\ Find(a, c) = c
    BY AccountConstants DEF AccountInv, AccountType, Known, Find
<1>2. RejectCancelOrder(a, c, TRUE) \in AccountType
    BY RejectCancelOrderInv DEF AccountInv
<1>3. RejectCancelOrder(a, c, TRUE) = IF r.status = "PendingCancel" THEN Put(a, c, o) ELSE a
    BY <1>1 DEF RejectCancelOrder
<1> HIDE DEF o
<1>4. Spares(a, RejectCancelOrder(a, c, TRUE), d)
  <2>1. CASE r.status = "PendingCancel"
    <3>1. o \in Order
      <4>1. PICK b \in AccountType : b = Put(a, c, o)
          BY <1>2, <1>3, <2>1
      <4>2. b.orders[c] \in Order
          BY <4>1 DEF AccountType
      <4>3. b.orders[c] = o
          BY <1>1, <4>1 DEF Put, AccountType
      <4> QED
          BY <4>2, <4>3
    <3> QED
        BY <1>1, <1>3, <2>1, <3>1, PutSpares
  <2>2. CASE r.status # "PendingCancel"
      BY <1>3, <2>2, SparedByNothing
  <2> QED
      BY <2>1, <2>2
<1>5. PICK b : b = RejectCancelOrder(a, c, TRUE)
    OBVIOUS
<1>6. AccountInv(b) /\ Known(b, c) /\ Find(b, c) = c
  <2>1. AccountInv(RejectCancelOrder(a, c, TRUE))
      BY RejectCancelOrderInv
  <2>2. b.ordersClID = a.ordersClID /\ b.ordersID = a.ordersID
      BY <1>1, <1>5 DEF RejectCancelOrder, Put, AccountType
  <2> QED
      BY <1>1, <1>5, <2>1, <2>2 DEF Known, Find
<1>7. Spares(b, PendingFilled(b, c), d)
    BY <1>6, PendingFilledSpares
<1> QED
    BY <1>4, <1>5, <1>7

\* What a result leaves alone, and in time.
LEMMA ResultQuiet ==
    ASSUME IInv, Tracking, NEW c \in ClIDs, NEW request \in {"new", "cancel"},
           Resume(request, c), phase' \in {phase, "failed"}
    PROVE  /\ Outside /\ UNCHANGED <<exch, socket, seamless, hasty>>
           /\ \A d \in ClIDs : Timely(d)'
<1>1. World /\ Types0 /\ EventsTrue
    BY DEF IInv
<1>2. Outside /\ UNCHANGED <<exch, socket, cancels, seamless, hasty>>
    BY <1>1, ResumeOutside DEF Resume, world, count
<1>3. \A d \in ClIDs : /\ future'[d].new \in {future[d].new, "none"}
                       /\ future'[d].cancel \in {future[d].cancel, "none"}
    BY <1>1 DEF Resume, Types0
<1> QED
    BY <1>2, <1>3, TimelyOutside

\* The answer to a new order that was accepted confirms it, with what is left of it
\* at the exchange and in the queue; one that says more says that it is done.
LEMMA NewOrderAcceptedTrack ==
    ASSUME IInv, Stream, Tracking, NEW c \in ClIDs, NewOrderAccepted(c) PROVE Tracking'
<1>1. World /\ Types0 /\ Linked(acct) /\ AnswersTrue(c) /\ exch \in [ClIDs -> ExchangeOrder]
    BY DEF IInv, World, Types0
<1>2. Resume("new", c) /\ phase' = phase
    BY DEF NewOrderAccepted
<1>3. /\ Outside /\ UNCHANGED <<exch, socket, seamless, hasty>>
      /\ \A d \in ClIDs : Timely(d)'
    BY <1>2, ResultQuiet
<1> DEFINE x == exch[c].id
           a == IF ConfirmNewOrderError(acct, c) THEN acct ELSE ConfirmNewOrder(acct, c, x, 0)
<1>4. /\ future[c].new \in {"New", "Expired", "Filled"}
      /\ future[c].new = "New" => acct' = a
      /\ future[c].new = "Expired" =>
            acct' = IF Known(a, x) THEN ConfirmExpiredOrder(a, x) ELSE a
      /\ future[c].new = "Filled" => acct' = IF Known(a, x) THEN PendingFilled(a, x) ELSE a
    BY DEF NewOrderAccepted
<1>5. x \in ExIDs
    BY <1>1, <1>4 DEF AnswersTrue, Types0, ExchangeOrder
<1>6. Linked(a) /\ AccountInv(a)
    BY <1>1, <1>5, ConfirmNewLinked DEF ConfirmNewOrderError, Linked
<1>7. Known(a, x) => Find(a, x) = c
    BY <1>1, <1>5, <1>6, FindsOwn
<1>8. future[c].new # "New" => exch[c].at = "Done"
    BY <1>1, <1>4 DEF AnswersTrue, Tracking, Timely
<1>9. ASSUME phase = "running", seamless, ~hasty, NEW d \in ClIDs
      PROVE  OnTrack(a, exch[d], socket.q, d)
  <2>1. PICK q : q = socket.q
      OBVIOUS
  <2>2. OnTrack(acct, exch[d], q, d) /\ (News(q, d) => Fills(q, d) = exch[d].cum)
      BY <1>9, <2>1 DEF Tracking, Stream, FillsFollow
  <2>3. c \in acct.ordersClID => OnTrack(ConfirmNewOrder(acct, c, x, 0), exch[d], q, d)
      BY <1>1, <1>5, <2>2, ConfirmNewTrack
  <2> QED
      BY <2>1, <2>2, <2>3 DEF ConfirmNewOrderError
<1>10. ASSUME NEW d \in ClIDs PROVE exch[d].at = "Live" => exch[d].id \in ExIDs
    BY <1>1 DEF World, ExchangeSound, ExchangeOrder
<1> HIDE DEF a, x
<1>11. ASSUME phase = "running", seamless, ~hasty, NEW d \in ClIDs
       PROVE  OnTrack(acct', exch[d], socket.q, d)
  <2>1. CASE exch[d].at = "Done"
      BY <2>1 DEF OnTrack
  <2>2. CASE acct' = a
      BY <1>9, <1>11, <2>2
  <2>3. CASE exch[d].at # "Done" /\ acct' # a
    <3>1. Known(a, x) /\ d # Find(a, x)
        BY <1>4, <1>7, <1>8, <2>3
    <3>2. PICK b : b = acct'
        OBVIOUS
    <3>3. b \in {ConfirmExpiredOrder(a, x), PendingFilled(a, x)}
        BY <1>4, <2>3, <3>2
    <3>4. Spares(a, b, d)
        BY <1>6, <3>1, <3>3, ClosingSpares, PendingFilledSpares
    <3>5. OnTrack(a, exch[d], socket.q, d)
        BY <1>9, <1>11
    <3>6. OnTrack(b, exch[d], socket.q, d)
        BY <1>10, <3>4, <3>5, SparedTrack
    <3> QED
        BY <3>2, <3>6
  <2> QED
      BY <2>1, <2>2, <2>3
<1> QED
    BY <1>1, <1>2, <1>3, <1>11, TrackKept

\* So do the other results of a new order: one that is rejected leaves the client
\* ids, and keeps the exchange id it may have.
LEMMA NewOrderResultTrack ==
    ASSUME IInv, Stream, Tracking, NEW c \in ClIDs, NewOrderResult(c) PROVE Tracking'
<1>1. CASE NewOrderTimedOut(c) \/ NewOrderRefused(c)
  <2>1. /\ Resume("new", c) /\ phase' \in {phase, "failed"}
        /\ acct' = IF RejectNewOrderError(acct, c) THEN acct ELSE RejectNewOrder(acct, c)
      BY <1>1 DEF NewOrderTimedOut, NewOrderRefused, FailIf
  <2>2. /\ Outside /\ UNCHANGED <<exch, socket, seamless, hasty>>
        /\ \A d \in ClIDs : Timely(d)'
      BY <2>1, ResultQuiet
  <2>3. ASSUME NEW d \in ClIDs PROVE Spares(acct, acct', d)
    <3>1. Spares(acct, RejectNewOrder(acct, c), d) /\ Spares(acct, acct, d)
        BY RejectNewOrderSpares, SparedByNothing DEF IInv, Linked
    <3> QED
        BY <2>1, <3>1
  <2> QED
      BY <2>1, <2>2, <2>3, TrackSpared
<1> QED
    BY <1>1, NewOrderAcceptedTrack DEF NewOrderResult

\* The result of a cancel: an order that is canceled is done, and when no cancel
\* is hasty so is one the exchange does not know.
LEMMA CancelResultTrack ==
    ASSUME IInv, Stream, Tracking, NEW c \in ClIDs, CancelResult(c) PROVE Tracking'
<1>1. World /\ Types0 /\ Linked(acct) /\ AccountInv(acct) /\ AnswersTrue(c)
    BY DEF IInv, World, Linked
<1>2. Resume("cancel", c) /\ phase' \in {phase, "failed"}
    BY DEF CancelResult, CancelRefused, CancelDone, CancelUnknown, FailIf
<1>3. /\ Outside /\ UNCHANGED <<exch, socket, seamless, hasty>>
      /\ \A d \in ClIDs : Timely(d)'
    BY <1>2, ResultQuiet
<1>4. Known(acct, c) => Find(acct, c) = c
    BY <1>1, FindsOwn
<1>5. CASE CancelRefused(c)
  <2>1. acct' = IF Known(acct, c) THEN RejectCancelOrder(acct, c, FALSE) ELSE acct
      BY <1>5 DEF CancelRefused
  <2>2. ASSUME NEW d \in ClIDs PROVE Spares(acct, acct', d)
    <3>1. Known(acct, c) => Spares(acct, RejectCancelOrder(acct, c, FALSE), d)
        BY <1>1, RejectCancelOrderSpares
    <3>2. Spares(acct, acct, d)
        BY SparedByNothing
    <3> QED
        BY <2>1, <3>1, <3>2
  <2> QED
      BY <1>2, <1>3, <2>2, TrackSpared
<1>6. CASE CancelDone(c)
  <2>1. /\ exch[c].at = "Done"
        /\ acct' = IF Known(acct, c) THEN ConfirmCancelOrder(acct, c) ELSE acct
      BY <1>1, <1>6 DEF CancelDone, AnswersTrue
  <2>2. ASSUME NEW d \in ClIDs PROVE exch[d].at = "Done" \/ Spares(acct, acct', d)
    <3>1. Known(acct, c) /\ d # c => Spares(acct, ConfirmCancelOrder(acct, c), d)
        BY <1>1, <1>4, ClosingSpares
    <3>2. Spares(acct, acct, d)
        BY SparedByNothing
    <3> QED
        BY <2>1, <3>1, <3>2
  <2> QED
      BY <1>2, <1>3, <2>2, TrackSpared
<1>7. CASE CancelUnknown(c)
  <2>1. /\ future[c].cancel = "unknown"
        /\ acct' \in {acct, RejectCancelOrder(acct, c, TRUE),
                      PendingFilled(RejectCancelOrder(acct, c, TRUE), c)}
        /\ ~Known(acct, c) => acct' = acct
      BY <1>7 DEF CancelUnknown
  <2>2. ~hasty => exch[c].at = "Done"
      BY <2>1 DEF Tracking, Timely
  <2>3. PICK b : b = acct'
      OBVIOUS
  <2>4. PICK a : a = RejectCancelOrder(acct, c, TRUE)
      OBVIOUS
  <2>5. ASSUME phase = "running", seamless, ~hasty, NEW d \in ClIDs
        PROVE  OnTrack(b, exch[d], socket.q, d)
    <3>1. OnTrack(acct, exch[d], socket.q, d)
        BY <2>5 DEF Tracking
    <3>2. CASE d = c
        BY <2>2, <2>5, <3>2 DEF OnTrack
    <3>3. CASE b = acct
        BY <3>1, <3>3
    <3>4. CASE d # c /\ b # acct
      <4>1. Spares(acct, a, d) /\ Spares(a, PendingFilled(a, c), d)
          BY <1>1, <2>1, <2>3, <2>4, <3>4, RejectCancelSparesOthers
      <4>2. exch[d].at = "Live" => exch[d].id \in ExIDs
          BY <1>1 DEF World, ExchangeSound, Types0, ExchangeOrder
      <4>3. OnTrack(a, exch[d], socket.q, d)
          BY <3>1, <4>1, <4>2, SparedTrack
      <4>4. OnTrack(PendingFilled(a, c), exch[d], socket.q, d)
          BY <4>1, <4>2, <4>3, SparedTrack
      <4> QED
          BY <2>1, <2>3, <2>4, <3>4, <4>3, <4>4
    <3> QED
        BY <3>2, <3>3, <3>4
  <2>6. phase' = "running" /\ seamless' /\ ~hasty' => phase = "running" /\ seamless /\ ~hasty
      BY <1>2, <1>3
  <2>7. exch' \in [ClIDs -> ExchangeOrder] /\ exch' = exch /\ socket' = socket
      BY <1>3 DEF Outside, Types0
  <2> QED
      BY <1>1, <1>3, <2>3, <2>5, <2>6, <2>7, TrackKept
<1> QED
    BY <1>5, <1>6, <1>7 DEF CancelResult

\* An order keeps its track when what the queue tells of it stays.
LEMMA QueueTrack ==
    ASSUME NEW a, NEW o, NEW q, NEW t, NEW d, OnTrack(a, o, q, d),
           Fills(t, d) = Fills(q, d), News(q, d) => News(t, d)
    PROVE  OnTrack(a, o, t, d)
BY DEF OnTrack, Mine, Awaited

\* An event is taken from the queue: the account keeps track when the one order it
\* tells of is tracked, and the others are spared.
LEMMA HandledTrack ==
    ASSUME IInv, Stream, Tracking, NEW kind, Handle(kind), pos' \in Int,
           phase' \in {phase, "failed"},
           NEW q \in Seq(Event), NEW e \in Event, NEW t \in Seq(Event),
           q = socket.q, Takes(q, e, t),
           phase' = "running" /\ seamless /\ ~hasty =>
              /\ OnTrack(acct', exch[e.c], t, e.c)
              /\ \A d \in ClIDs \ {e.c} : Spares(acct, acct', d)
    PROVE  Tracking'
<1>1. World /\ Types0 /\ EventsTrue
    BY DEF IInv
<1>2. /\ q # <<>> /\ phase = "running" /\ socket' = [socket EXCEPT !.q = t]
      /\ UNCHANGED <<exch, future, cancels, seamless, hasty>>
    BY DEF Handle, world, count, Takes
<1>3. socket'.up = socket.up /\ socket'.q = t
    BY <1>1, <1>2 DEF Types0
<1>4. Outside
    BY <1>1, HandleOutside
<1>5. \A d \in ClIDs : Timely(d)'
    BY <1>2, <1>4, TimelyOutside
<1>6. /\ \A d : /\ Fills(q, d) = (IF e.c = d THEN e.qty ELSE 0) + Fills(t, d)
                /\ News(q, d) <=> (e.ev = "new" /\ e.c = d) \/ News(t, d)
      /\ NewsFirst(q) => NewsFirst(t) /\ ~News(t, e.c)
    BY TakenOff
<1>7. ASSUME NEW d, d # e.c PROVE Fills(t, d) = Fills(q, d) /\ (News(q, d) <=> News(t, d))
  <2>1. PICK m \in Nat, n \in Nat : m = Fills(q, d) /\ n = Fills(t, d)
      BY FillsNatural
  <2>2. m = 0 + n
      BY <1>6, <1>7, <2>1
  <2> QED
      BY <1>6, <1>7, <2>1, <2>2
<1>8. ASSUME socket.up PROVE NewsFirst(t) /\ FillsFollow(t, exch)
  <2>1. NewsFirst(q) /\ FillsFollow(q, exch)
      BY <1>8 DEF Tracking
  <2>2. ASSUME NEW d \in ClIDs, News(t, d) PROVE Fills(t, d) = exch[d].cum
    <3>1. d # e.c
        BY <1>6, <2>1, <2>2
    <3> QED
        BY <1>7, <2>1, <2>2, <3>1 DEF FillsFollow
  <2> QED
      BY <1>6, <2>1, <2>2 DEF FillsFollow
<1>9. PICK b : b = acct'
    OBVIOUS
<1>10. ASSUME phase' = "running", seamless, ~hasty, NEW d \in ClIDs
       PROVE  OnTrack(b, exch[d], t, d)
  <2>1. CASE d = e.c
      BY <1>9, <1>10, <2>1
  <2>2. CASE d # e.c
    <3>1. OnTrack(acct, exch[d], q, d)
        BY <1>2, <1>10 DEF Tracking
    <3>2. Spares(acct, b, d)
        BY <1>9, <1>10, <2>2
    <3>3. exch[d].at = "Live" => exch[d].id \in ExIDs
        BY <1>1 DEF World, ExchangeSound, Types0, ExchangeOrder
    <3>4. OnTrack(b, exch[d], q, d)
        BY <3>1, <3>2, <3>3, SparedTrack
    <3> QED
        BY <1>7, <2>2, <3>4, QueueTrack
  <2> QED
      BY <2>1, <2>2
<1>11. socket'.up => NewsFirst(socket'.q) /\ FillsFollow(socket'.q, exch')
    BY <1>2, <1>3, <1>8
<1>12. phase' = "running" /\ seamless' /\ ~hasty' =>
          \A d \in ClIDs : OnTrack(acct', exch'[d], socket'.q, d)
    BY <1>2, <1>3, <1>9, <1>10
<1> QED
    BY <1>5, <1>11, <1>12 DEF Tracking

\* An announced order is confirmed, or entered and confirmed: all it has executed
\* is queued behind the announcement.
LEMMA OnNewTrack ==
    ASSUME IInv, Stream, Tracking, OnNew PROVE Tracking'
<1>1. World /\ Types0 /\ EventsTrue /\ Linked(acct)
    BY DEF IInv
<1>2. /\ Handle("new") /\ phase = "running" /\ phase' = phase /\ pos' = pos
      /\ socket.q # <<>> /\ Head(socket.q).ev = "new"
    BY DEF OnNew, Handle
<1>3. PICK e \in Event : e = Head(socket.q) /\ EventTrue(e)
    BY <1>1, <1>2, HeadTrue
<1>4. PICK q \in Seq(Event) : q = socket.q
    BY <1>1 DEF Types0
<1>5. PICK t \in Seq(Event) : Takes(q, e, t)
    BY <1>2, <1>3, <1>4, RestTaken
<1>6. PICK c \in ClIDs, x \in ExIDs : c = e.c /\ x = e.id /\ exch[c].id = x /\ e.qty = 0
  <2>1. e.c \in ClIDs /\ e.id \in ExIDs /\ e.qty = 0 /\ exch[e.c].id = e.id
      BY <1>2, <1>3, AccountConstants DEF EventTrue, Event
  <2> QED
      BY <2>1
<1>7. PICK b : b = acct'
    OBVIOUS
<1>8. /\ c \in acct.ordersClID => b = ConfirmNewOrder(acct, c, x, 0)
      /\ c \notin acct.ordersClID =>
            b = ConfirmNewOrder(NewOrder(acct, c, exch[c].side, exch[c].type, 1,
                                         exch[c].leaves + exch[c].cum), c, x, 0)
  <2>1. Known(acct, c) <=> c \in acct.ordersClID
      BY <1>1, FindsOwn
  <2> QED
      BY <1>3, <1>6, <1>7, <2>1 DEF OnNew
<1>9. ASSUME NEW d \in ClIDs \ {c} PROVE Spares(acct, b, d)
  <2>1. c \in acct.ordersClID => Spares(acct, b, d)
      BY <1>1, <1>6, <1>8, ConfirmNewSpares
  <2>2. c \notin acct.ordersClID => Spares(acct, b, d)
      BY <1>1, <1>6, <1>8, EnterTrack
  <2> QED
      BY <2>1, <2>2
<1>10. /\ Fills(q, c) = e.qty + Fills(t, c)
       /\ News(q, c)
  <2>1. \A d : /\ Fills(q, d) = (IF e.c = d THEN e.qty ELSE 0) + Fills(t, d)
               /\ News(q, d) <=> (e.ev = "new" /\ e.c = d) \/ News(t, d)
      BY <1>5, TakenOff
  <2> QED
      BY <1>2, <1>3, <1>6, <2>1
<1>11. ASSUME seamless, ~hasty PROVE OnTrack(b, exch[c], t, c)
  <2>1. OnTrack(acct, exch[c], q, c) /\ Fills(q, c) = exch[c].cum
      BY <1>2, <1>4, <1>10, <1>11 DEF Tracking, Stream, FillsFollow
  <2>2. exch[c].at # "Sent"
      BY <1>1, <1>6, AccountConstants DEF World, ExchangeSound
  <2>3. exch[c].at = "Live" => Mine(b, exch[c], q, c)
    <3>1. c \in acct.ordersClID /\ exch[c].at = "Live" => Mine(b, exch[c], q, c)
        BY <1>1, <1>6, <1>8, <2>1, ConfirmNewMine
    <3>2. c \notin acct.ordersClID => Mine(b, exch[c], q, c)
        BY <1>1, <1>6, <1>8, <2>1, EnterTrack
    <3> QED
        BY <3>1, <3>2
  <2>4. Fills(q, c) = Fills(t, c)
    <3>1. PICK n \in Nat : n = Fills(t, c)
        BY FillsNatural
    <3> QED
        BY <1>6, <1>10, <3>1
  <2> QED
      BY <2>2, <2>3, <2>4 DEF OnTrack, Mine
<1>12. pos' \in Int
    BY <1>1, <1>2 DEF Types0
<1>13. phase' = "running" /\ seamless /\ ~hasty =>
          /\ OnTrack(acct', exch[e.c], t, e.c)
          /\ \A d \in ClIDs \ {e.c} : Spares(acct, acct', d)
    BY <1>6, <1>7, <1>9, <1>11
<1> QED
    BY <1>2, <1>3, <1>4, <1>5, <1>12, <1>13, HandledTrack

\* The event at the head of the queue, and the rest.
LEMMA HeadTaken ==
    ASSUME IInv, NEW kind, Handle(kind)
    PROVE  \E q \in Seq(Event), e \in Event, t \in Seq(Event) :
              /\ q = socket.q /\ e = Head(socket.q) /\ Takes(q, e, t)
              /\ EventTrue(e) /\ e.ev = kind /\ e.c \in ClIDs /\ e.id \in ExIDs
              /\ exch[e.c].id = e.id /\ e.qty \in 0..MaxLots
<1>1. Types0 /\ EventsTrue /\ socket.q # <<>> /\ Head(socket.q).ev = kind
    BY DEF IInv, Handle
<1>2. PICK e \in Event : e = Head(socket.q) /\ EventTrue(e)
    BY <1>1, HeadTrue
<1>3. PICK q \in Seq(Event) : q = socket.q
    BY <1>1 DEF Types0
<1>4. PICK t \in Seq(Event) : Takes(q, e, t)
    BY <1>1, <1>2, <1>3, RestTaken
<1>5. e.c \in ClIDs /\ e.id \in ExIDs /\ e.qty \in 0..MaxLots
    BY DEF Event
<1>6. exch[e.c].id = e.id
    BY <1>2 DEF EventTrue
<1> QED
    BY <1>1, <1>2, <1>3, <1>4, <1>5, <1>6

\* A fill takes from what the account has left of an order what the queue no
\* longer tells of it; an order with something left at the exchange stays open.
LEMMA OnTradeTrack ==
    ASSUME IInv, Stream, Tracking, OnTrade PROVE Tracking'
<1>1. World /\ Types0 /\ EventsTrue /\ Linked(acct) /\ AccountInv(acct)
    BY DEF IInv, Linked
<1>2. Handle("trade") /\ phase = "running" /\ phase' \in {phase, "failed"}
    BY DEF OnTrade, Handle, FailIf
<1>3. PICK q \in Seq(Event), e \in Event, t \in Seq(Event) :
        /\ q = socket.q /\ e = Head(socket.q) /\ Takes(q, e, t)
        /\ EventTrue(e) /\ e.ev = "trade" /\ e.c \in ClIDs /\ e.id \in ExIDs
        /\ exch[e.c].id = e.id /\ e.qty \in 0..MaxLots
    BY <1>2, HeadTaken
<1>4. pos' \in Int
  <2>1. acct.orders[Find(acct, e.id)].side = "Buy" \/ acct.orders[Find(acct, e.id)].side # "Buy"
      OBVIOUS
  <2>2. e.qty \in Int /\ pos \in Int
      BY <1>1, <1>3, AccountConstants DEF Types0
  <2>3. pos' = pos \/ pos' = pos + e.qty \/ pos' = pos + (-e.qty)
      BY <1>3 DEF OnTrade, Signed
  <2> QED
      BY <2>2, <2>3
<1>5. CASE phase' = "failed"
    BY <1>1, <1>2, <1>3, <1>4, <1>5, HandledTrack
<1>6. CASE phase' # "failed"
  <2>1. ~ConfirmFillError(acct, e.id, e.qty) /\ acct' = ConfirmFill(acct, e.id, e.qty)
      BY <1>3, <1>6 DEF OnTrade, FailIf
  <2>2. PICK c \in ClIDs, n \in Lots :
          /\ c = e.c /\ n = e.qty /\ Find(acct, e.id) = c
    <3>1. Known(acct, e.id)
        BY <2>1 DEF ConfirmFillError
    <3>2. Find(acct, e.id) = e.c
        BY <1>1, <1>3, <3>1, FindsOwn
    <3>3. e.qty \in Lots
        BY <1>3, AccountConstants DEF EventTrue, Lots
    <3> QED
        BY <1>3, <3>2, <3>3
  <2>3. PICK b : b = ConfirmFill(acct, e.id, n)
      OBVIOUS
  <2>4. /\ \A d \in ClIDs \ {c} : Spares(acct, b, d)
        /\ b.ordersID = acct.ordersID
        /\ b.orders[c].leaves = acct.orders[c].leaves - n
        /\ acct.orders[c].status \notin ClosedStatus /\ n # acct.orders[c].leaves =>
              b.orders[c].status \notin ClosedStatus
      BY <1>1, <2>1, <2>2, <2>3, ConfirmFillSpares
  <2>5. ASSUME seamless, ~hasty, exch[c].at = "Live" PROVE Mine(b, exch[c], t, c)
    <3>1. OnTrack(acct, exch[c], q, c) /\ NewsFirst(q)
        BY <1>2, <1>3, <2>5 DEF Tracking, Stream
    <3>2. /\ Fills(q, c) = n + Fills(t, c)
          /\ ~News(q, c)
      <4>1. /\ \A d : /\ Fills(q, d) = (IF e.c = d THEN e.qty ELSE 0) + Fills(t, d)
                      /\ News(q, d) <=> (e.ev = "new" /\ e.c = d) \/ News(t, d)
            /\ NewsFirst(q) => NewsFirst(t) /\ ~News(t, e.c)
          BY <1>3, TakenOff
      <4> QED
          BY <1>3, <2>2, <3>1, <4>1
    <3>3. PICK m \in Nat : m = Fills(t, c)
        BY FillsNatural
    <3>4. PICK l \in Nat : l = exch[c].leaves /\ l > 0
      <4>1. exch[c].leaves \in 0..MaxLots /\ exch[c].leaves > 0
          BY <1>1, <2>5 DEF Types0, ExchangeOrder, World, ExchangeSound
      <4> QED
          BY <4>1, AccountConstants
    <3>5. /\ acct.ordersID[exch[c].id] = c /\ acct.orders[c].status \notin ClosedStatus
          /\ acct.orders[c].leaves = l + (n + m)
        BY <2>5, <3>1, <3>2, <3>3, <3>4 DEF OnTrack, Mine, Awaited
    <3>6. n \in Nat
        BY AccountConstants DEF Lots
    <3>7. n # acct.orders[c].leaves /\ acct.orders[c].leaves - n = l + m
        BY <3>4, <3>5, <3>6
    <3> QED
        BY <2>4, <3>3, <3>4, <3>5, <3>7 DEF Mine
  <2>6. exch[c].at # "Sent"
      BY <1>1, <1>3, <2>2, AccountConstants DEF World, ExchangeSound
  <2>7. seamless /\ ~hasty => OnTrack(b, exch[c], t, c)
      BY <2>5, <2>6 DEF OnTrack
  <2>8. phase' = "running" /\ seamless /\ ~hasty =>
          /\ OnTrack(acct', exch[e.c], t, e.c)
          /\ \A d \in ClIDs \ {e.c} : Spares(acct, acct', d)
      BY <2>1, <2>2, <2>3, <2>4, <2>7
  <2> QED
      BY <1>2, <1>3, <1>4, <2>8, HandledTrack
<1> QED
    BY <1>5, <1>6

\* An order that is canceled or expired is done.
LEMMA OnClosedTrack ==
    ASSUME IInv, Stream, Tracking, OnCanceled \/ OnExpired PROVE Tracking'
<1>1. World /\ Types0 /\ EventsTrue /\ Linked(acct) /\ AccountInv(acct)
    BY DEF IInv, Linked
<1>2. PICK kind \in {"canceled", "expired"} :
        /\ Handle(kind) /\ phase = "running" /\ phase' \in {phase, "failed"} /\ pos' = pos
        /\ phase' # "failed" =>
              /\ Known(acct, Head(socket.q).c)
              /\ acct' \in {ConfirmCancelOrder(acct, Head(socket.q).c),
                            ConfirmExpiredOrder(acct, Head(socket.q).c)}
    BY DEF OnCanceled, OnExpired, Handle, FailIf
<1>3. PICK q \in Seq(Event), e \in Event, t \in Seq(Event) :
        /\ q = socket.q /\ e = Head(socket.q) /\ Takes(q, e, t)
        /\ EventTrue(e) /\ e.ev = kind /\ e.c \in ClIDs /\ e.id \in ExIDs
        /\ exch[e.c].id = e.id /\ e.qty \in 0..MaxLots
    BY <1>2, HeadTaken
<1>4. pos' \in Int
    BY <1>1, <1>2 DEF Types0
<1>5. OnTrack(acct', exch[e.c], t, e.c)
    BY <1>3 DEF EventTrue, OnTrack
<1>6. ASSUME phase' # "failed", NEW d \in ClIDs \ {e.c} PROVE Spares(acct, acct', d)
  <2>1. Known(acct, e.c) /\ Find(acct, e.c) = e.c
      BY <1>1, <1>2, <1>3, <1>6, FindsOwn
  <2>2. /\ Spares(acct, ConfirmCancelOrder(acct, e.c), d)
        /\ Spares(acct, ConfirmExpiredOrder(acct, e.c), d)
      BY <1>1, <2>1, ClosingSpares
  <2> QED
      BY <1>2, <1>3, <1>6, <2>2
<1> QED
    BY <1>2, <1>3, <1>4, <1>5, <1>6, HandledTrack

\* No event makes the account lose track.
LEMMA WebsocketTrack ==
    ASSUME IInv, Stream, Tracking, OnWebsocketMessage PROVE Tracking'
BY OnNewTrack, OnTradeTrack, OnClosedTrack DEF OnWebsocketMessage

\* A queue without events announces and executes nothing.
LEMMA NothingQueued ==
    /\ NewsFirst(<<>>)
    /\ \A c : ~News(<<>>, c) /\ Fills(<<>>, c) = 0
<1>1. <<>> \in Seq(Event) /\ Len(<<>>) = 0
    OBVIOUS
<1>2. PICK q \in Seq(Event) : q = <<>> /\ Len(q) = 0
    BY <1>1
<1>3. \A i \in 1..Len(q) : FALSE
    BY <1>2
<1>4. NewsFirst(q) /\ \A c : ~News(q, c)
    BY <1>3 DEF NewsFirst, News
<1>5. \A c : Fills(q, c) = 0
    BY <1>3, FillsNone
<1> QED
    BY <1>2, <1>4, <1>5

\* The ticks and the life cycle: checkAccount and time spare every order, a new
\* stream is tracked from the orders the exchange lists.
LEMMA TicksTrack ==
    ASSUME IInv, Stream, Tracking,
           CheckSocket \/ CheckAccount \/ (\E c \in ClIDs : Minute(c)) \/ Restart \/ Initialize
    PROVE  Tracking'
<1>1. World /\ Types0 /\ EventsTrue /\ AccountInv(acct)
    BY DEF IInv, Linked
<1>2. Outside /\ UNCHANGED <<exch, future, cancels, hasty>>
    BY <1>1, TicksOutside
       DEF CheckSocket, CheckAccount, Minute, Restart, Initialize, SubscribeAccount,
           FetchPositions, SyncAccount, world, actor, count
<1>3. \A d \in ClIDs : Timely(d)'
    BY <1>2, TimelyOutside
<1>4. exch' \in [ClIDs -> ExchangeOrder]
    BY <1>2 DEF Outside, Types0
<1>5. CASE CheckSocket \/ SubscribeAccount
  <2>1. socket'.q = <<>>
      BY <1>5 DEF CheckSocket, SubscribeAccount
  <2>2. ~(phase' = "running" /\ seamless')
      BY <1>5 DEF CheckSocket, SubscribeAccount, Stream, actor
  <2>3. NewsFirst(socket'.q) /\ FillsFollow(socket'.q, exch')
      BY <2>1, NothingQueued DEF FillsFollow
  <2> QED
      BY <1>3, <2>2, <2>3 DEF Tracking
<1>6. CASE CheckAccount \/ \E c \in ClIDs : Minute(c)
  <2>1. UNCHANGED <<socket, seamless>> /\ phase' \in {phase, "failed"}
      BY <1>6 DEF CheckAccount, Minute, FailIf, actor
  <2>2. ASSUME NEW d \in ClIDs PROVE Spares(acct, acct', d)
    <3>1. CASE CheckAccount
      <4>1. acct' = CleanOrders(acct)
          BY <3>1 DEF CheckAccount
      <4> QED
          BY <1>1, <4>1, CleanOrdersSpares
    <3>2. ASSUME NEW c \in ClIDs, Minute(c) PROVE Spares(acct, acct', d)
      <4>1. acct' = Age(acct, c)
          BY <3>2 DEF Minute
      <4> QED
          BY <1>1, <4>1, AgeSpares
    <3> QED
        BY <1>6, <3>1, <3>2
  <2> QED
      BY <1>2, <1>3, <2>1, <2>2, TrackSpared
<1>7. CASE Restart
  <2>1. socket'.up = FALSE /\ phase' = "subscribe"
      BY <1>7 DEF Restart, NoSocket
  <2> QED
      BY <1>3, <2>1 DEF Tracking
<1>8. CASE FetchPositions
  <2>1. socket' = socket /\ phase' = "orders"
      BY <1>8 DEF FetchPositions
  <2> QED
      BY <1>1, <1>2, <1>3, <1>4, <2>1, TrackKept
<1>9. CASE SyncAccount
  <2>1. /\ socket' = socket /\ acct' = Sync([c \in ClIDs |-> Listed(c)])
        /\ seamless' = (socket.up /\ NoTradeQueued)
      BY <1>9 DEF SyncAccount, NoTradeQueued
  <2>2. PICK q \in Seq(Event) : q = socket.q
      BY <1>1 DEF Types0
  <2>3. ASSUME seamless', NEW d \in ClIDs PROVE OnTrack(acct', exch'[d], q, d)
    <3>1. ASSUME NEW i \in 1..Len(q) PROVE q[i].qty = 0
      <4>1. EventTrue(q[i]) /\ q[i].ev # "trade"
          BY <1>1, <2>1, <2>2, <2>3 DEF EventsTrue, NoTradeQueued
      <4>2. q[i].qty \in 0..MaxLots
        <5>1. q[i] \in Event
            OBVIOUS
        <5> QED
            BY <5>1 DEF Event
      <4> QED
          BY <4>1, <4>2, AccountConstants DEF EventTrue
    <3>2. Fills(q, d) = 0
        BY <3>1, FillsNone
    <3>3. OnTrack(Sync([c \in ClIDs |-> Listed(c)]), exch[d], q, d)
        BY <1>1, <3>2, SyncTrack
    <3> QED
        BY <1>2, <2>1, <3>3
  <2> QED
      BY <1>1, <1>2, <1>3, <1>4, <2>1, <2>2, <2>3, TrackKept
<1> QED
    BY <1>5, <1>6, <1>7, <1>8, <1>9 DEF Initialize

\* No step loses track of an order.
LEMMA TrackStep ==
    ASSUME IInv, Stream, Tracking, [Next]_vars PROVE Tracking'
<1>1. ASSUME UNCHANGED vars PROVE Tracking'
  <2>1. UNCHANGED <<acct, phase, socket, exch, future, cancels, seamless, hasty>>
      BY <1>1 DEF vars, actor, world, count
  <2> QED
      BY <2>1 DEF Tracking, Timely
<1> QED
    BY <1>1, UsersTrack, ExchangeTrack, FaultsTrack, NewOrderResultTrack, CancelResultTrack,
       WebsocketTrack, TicksTrack DEF Next

\* Nothing is tracked before the first socket.
LEMMA TrackInit ==
    ASSUME Init PROVE Tracking
<1>1. /\ phase = "subscribe" /\ socket.up = FALSE /\ cancels = {}
      /\ \A c \in ClIDs : future[c].new = "none" /\ future[c].cancel = "none"
    BY DEF Init, NoSocket
<1> QED
    BY <1>1 DEF Tracking, Timely

\* When the queue is empty, what is tracked is found with what it has left.
LEMMA TrackedWhenQuiet ==
    ASSUME IInv, Tracking PROVE LiveOrdersTracked
<1> SUFFICES ASSUME phase = "running", seamless, Quiet, ~hasty, NEW c \in ClIDs, Live(c)
             PROVE  /\ acct.ordersID[exch[c].id] = c
                    /\ acct.orders[c].status \notin ClosedStatus
                    /\ acct.orders[c].leaves = exch[c].leaves
    BY DEF LiveOrdersTracked
<1>1. socket.q = <<>> /\ OnTrack(acct, exch[c], socket.q, c)
    BY DEF Quiet, Tracking
<1>2. OnTrack(acct, exch[c], <<>>, c)
    BY <1>1
<1>3. Mine(acct, exch[c], <<>>, c)
    BY <1>2, NothingQueued DEF OnTrack, Awaited, Live
<1>4. PICK n \in Nat : n = exch[c].leaves
  <2>1. exch[c].leaves \in 0..MaxLots
      BY DEF IInv, Types0, ExchangeOrder
  <2> QED
      BY <2>1, AccountConstants
<1>5. exch[c].leaves + Fills(<<>>, c) = exch[c].leaves
    BY <1>4, NothingQueued
<1> QED
    BY <1>3, <1>5 DEF Mine

\* As long as the stream had no gap and Sync no fill in flight, and no user cancels
\* an order before it is confirmed, every order that works at the exchange is found
\* by its exchange id, open, with the quantity it has left, once what was in flight
\* has arrived: no race of answers and events loses an order, or a lot of it.
THEOREM LiveOrdersFound == Spec => []LiveOrdersTracked
<1>1. Init => Stream /\ Tracking
    BY TrackInit DEF Init, Stream
<1>2. IInv /\ Stream /\ Tracking /\ [Next]_vars => Stream' /\ Tracking'
    BY StreamStep, TrackStep
<1>3. IInv /\ Tracking => LiveOrdersTracked
    BY TrackedWhenQuiet
<1> QED
    BY <1>1, <1>2, <1>3, Consistent, PTL DEF Spec
=============================================================================
