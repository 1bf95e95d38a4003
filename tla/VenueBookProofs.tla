-------------------------- MODULE VenueBookProofs --------------------------
(***************************************************************************)
(* The theorems about VenueBook!Spec: for every set of the tabulated       *)
(* venues and every bound, what a listener has read and applied is the     *)
(* exchange's book, and followers have the listener's.                     *)
(*                                                                         *)
(* The venues number every change, or every message, or nothing; each of   *)
(* the three has an argument of its own for why a listener that has read   *)
(* everything has everything (NumberedInv, CountedInv, UnnumberedInv).     *)
(***************************************************************************)
EXTENDS VenueBook, Sequences, SequencesExt, FiniteSetTheorems, SequenceTheorems, TLAPS

(***************************************************************************)
(* Facts about numbers, sequences and sets that say nothing of the program. *)
(***************************************************************************)

\* Where the elements of a concatenation come from.
LEMMA Concatenation ==
    ASSUME NEW S, NEW q \in Seq(S), NEW r \in Seq(S)
    PROVE  /\ q \o r \in Seq(S) /\ Len(q \o r) = Len(q) + Len(r)
           /\ \A i \in 1..Len(q) : (q \o r)[i] = q[i]
           /\ \A i \in 1..Len(r) : (q \o r)[Len(q) + i] = r[i]
           /\ \A i \in 1..Len(q \o r) :
                 i \in 1..Len(q) \/ \E j \in 1..Len(r) : i = Len(q) + j
<1>1. /\ q \o r \in Seq(S) /\ Len(q \o r) = Len(q) + Len(r)
      /\ \A i \in 1..Len(q) : (q \o r)[i] = q[i]
      /\ \A i \in 1..Len(r) : (q \o r)[Len(q) + i] = r[i]
    OBVIOUS
<1>2. ASSUME NEW i \in 1..Len(q \o r), i \notin 1..Len(q)
      PROVE  \E j \in 1..Len(r) : i = Len(q) + j
  <2>1. Len(q) \in Nat /\ Len(r) \in Nat
      OBVIOUS
  <2>2. i - Len(q) \in 1..Len(r) /\ i = Len(q) + (i - Len(q))
      BY <1>1, <1>2, <2>1
  <2> QED
      BY <2>2
<1> QED
    BY <1>1, <1>2

\* A sequence that loses its i-th element.
LEMMA Removal ==
    ASSUME NEW S, NEW q \in Seq(S), NEW i \in 1..Len(q)
    PROVE  /\ RemoveAt(q, i) \in Seq(S) /\ Len(RemoveAt(q, i)) = Len(q) - 1
           /\ \A j \in 1..(i - 1) : RemoveAt(q, i)[j] = q[j]
           /\ \A j \in i..(Len(q) - 1) : RemoveAt(q, i)[j] = q[j + 1]
<1>1. Len(q) \in Nat /\ \A j \in 1..Len(q) : q[j] \in S
    OBVIOUS
<1>2. (\A j \in 1..(i - 1) : q[j] \in S) /\ (\A j \in (i + 1)..Len(q) : q[j] \in S)
    BY <1>1
<1>3. PICK a \in Seq(S) :
          a = SubSeq(q, 1, i - 1) /\ Len(a) = i - 1 /\ \A j \in 1..(i - 1) : a[j] = q[j]
  <2>1. 1 \in Int /\ i - 1 \in Int
      OBVIOUS
  <2>2. SubSeq(q, 1, i - 1) \in Seq(S)
      BY <1>2, <2>1, SubSeqProperties
  <2>3. Len(SubSeq(q, 1, i - 1)) = i - 1 /\ \A j \in 1..(i - 1) : SubSeq(q, 1, i - 1)[j] = q[j]
      BY <1>1, <1>2, <2>1, SubSeqProperties
  <2> QED
      BY <2>2, <2>3
<1>4. PICK b \in Seq(S) : /\ b = SubSeq(q, i + 1, Len(q)) /\ Len(b) = Len(q) - i
                          /\ \A j \in 1..(Len(q) - i) : b[j] = q[i + j]
  <2>1. i + 1 \in Int /\ Len(q) \in Int
      OBVIOUS
  <2>2. SubSeq(q, i + 1, Len(q)) \in Seq(S)
      BY <1>2, <2>1, SubSeqProperties
  <2>3. Len(SubSeq(q, i + 1, Len(q))) = Len(q) - i
      BY <1>1, <1>2, <2>1, SubSeqProperties
  <2>4. \A j \in 1..(Len(q) - i) : SubSeq(q, i + 1, Len(q))[j] = q[i + j]
      BY <1>1, <1>2, <2>1, SubSeqProperties
  <2> QED
      BY <2>2, <2>3, <2>4
<1>5. PICK c : c = RemoveAt(q, i)
    OBVIOUS
<1>6. c = a \o b
    BY <1>3, <1>4, <1>5 DEF RemoveAt
<1>7. /\ c \in Seq(S) /\ Len(c) = Len(a) + Len(b) /\ \A j \in 1..Len(a) : c[j] = a[j]
      /\ \A j \in 1..Len(b) : c[Len(a) + j] = b[j]
    BY <1>6, Concatenation
<1>8. c \in Seq(S) /\ Len(c) = Len(q) - 1 /\ \A j \in 1..(i - 1) : c[j] = q[j]
  <2>1. PICK L \in Nat : L = Len(q) /\ Len(a) = i - 1 /\ Len(b) = L - i /\ i \in 1..L
      BY <1>1, <1>3, <1>4
  <2>2. Len(c) = L - 1
      BY <2>1, <1>7
  <2>3. \A j \in 1..(i - 1) : c[j] = q[j]
      BY <2>1, <1>3, <1>7
  <2> QED
      BY <2>1, <2>2, <2>3, <1>7
<1>9. ASSUME NEW j \in i..(Len(q) - 1) PROVE c[j] = q[j + 1]
  <2>1. PICK k \in 1..Len(b) : k = j - (i - 1)
      BY <1>1, <1>4
  <2>2. c[Len(a) + k] = b[k]
      BY <1>7
  <2>3. b[k] = q[i + k] /\ Len(a) + k = j /\ i + k = j + 1
      BY <2>1, <1>1, <1>3, <1>4
  <2> QED
      BY <2>2, <2>3
<1> QED
    BY <1>5, <1>8, <1>9

\* Two sequences read, and written, as one.
LEMMA AppendJoins ==
    ASSUME NEW S, NEW r \in Seq(S), NEW p \in Seq(S), NEW m \in S
    PROVE  r \o Append(p, m) = Append(r \o p, m)
OBVIOUS

\* The head of the second moves to the end of the first.
LEMMA HeadJoins ==
    ASSUME NEW S, NEW r \in Seq(S), NEW p \in Seq(S), p # <<>>
    PROVE  Append(r, Head(p)) \o Tail(p) = r \o p
OBVIOUS

\* The first element of the two is the first one's.
LEMMA TailJoins ==
    ASSUME NEW S, NEW r \in Seq(S), NEW p \in Seq(S), r # <<>>
    PROVE  /\ r \o p # <<>> /\ Head(r \o p) = Head(r)
           /\ Tail(r \o p) = Tail(r) \o p
OBVIOUS

----------------------------------------------------------------------------

(***************************************************************************)
(* The states of VenueBook.                                                  *)
(***************************************************************************)

Kinds  == {"book", "change", "trade", "pong"}
Phases == {"connect", "snapshot", "align", "running", "failed"}
Msg    == [kind : Kinds, k : 0..MaxChanges, n : Nat, foreign : BOOLEAN]
Deltas == [Levels -> 0..MaxChanges \cup {None}]

\* The rules a venue may have.  The last conjuncts are what the arguments below
\* need to know of the table: which ways of subscribing go with which numbers.
Subscriptions == [source : {"rest", "stream"}, clears : BOOLEAN,
                  align : {"first", "patient", "search", "buffer", "none", "next", "exact", "cover"}]
Handlings == [foreign : {"skipped", "taken"}, order : {"none", "change", "message"},
              old : {"skipped", "gap"}, gap : {"subscribe", "fail", "disconnect"},
              body : {"change", "book"}, crossed : {"subscribe", "create", "patience"}]
Table == [subscribe : Subscriptions, onMessage : Handlings,
          checkSockets : [probe : {"none", "ping", "list"}]]

Consistent(r) ==
    /\ r.onMessage.order = "change" =>
        r.onMessage.body = "change" /\ r.onMessage.crossed = "subscribe"
    /\ r.onMessage.order = "message" =>
        /\ r.onMessage.body = "change" /\ r.onMessage.foreign = "skipped" /\ r.onMessage.old = "gap"
        /\ r.subscribe.source = "stream" /\ r.subscribe.align = "first"
    /\ r.onMessage.order # "message" => r.subscribe.clears
    /\ r.subscribe.source = "stream" =>
        /\ r.subscribe.align \in {"first", "patient", "search", "buffer"}
        /\ r.subscribe.align = "buffer" => r.onMessage.order = "change"
    /\ r.subscribe.source = "rest" =>
        /\ r.subscribe.align \in {"none", "next", "exact", "cover"}
        /\ r.subscribe.align = "none" => r.onMessage.order = "none" /\ r.onMessage.crossed # "subscribe"
        /\ r.subscribe.align # "none" => r.onMessage.order = "change"

SocketType   == [up : BOOLEAN, booked : BOOLEAN, sent : Nat, q : Seq(Msg)]
ListenerType == [phase : Phases, book : Books, last : Nat, held : Deltas,
                 crossings : 0..Patience, missed : BOOLEAN]

\* A message names a book the exchange has had; unless every message is numbered
\* its number is that of the book.
Tells(m) ==
    /\ m.k <= Market
    /\ m.kind = "change" => m.k >= 1
    /\ ~InMessages => m.n = m.k

Types ==
    /\ rules \in Table /\ Consistent(rules)
    /\ history \in Seq(Books) /\ Len(history) \in 1..(MaxChanges + 1)
    /\ socket \in SocketType
    /\ mail \in Seq(Msg)
    /\ listener \in ListenerType
    /\ follower \in [follows : BOOLEAN, book : Books]
    /\ faults \in 0..MaxFaults

Stream ==
    /\ ~socket.up => socket = NoSocket
    /\ \A i \in 1..Len(socket.q) : Tells(socket.q[i]) /\ ~socket.q[i].foreign
    /\ \A i \in 1..Len(mail) : Tells(mail[i])
    /\ rules.subscribe.source = "rest" /\ socket.up => socket.booked

FromRequest == rules.subscribe.source = "rest"

\* A follower agrees with the listener; deltas are held back only where, and only
\* while, the book is crossed.
FollowerInv ==
    /\ ~HoldsBack => /\ \A i \in 1..Len(history) : ~Crossed(history[i])
                     /\ Running => ~Crossed(listener.book)
    /\ rules.subscribe.clears =>
        /\ Running /\ listener.held # NoLevels => HoldsBack /\ Crossed(listener.book)
        /\ Running /\ follower.follows => listener.book = Update(follower.book, listener.held)
        /\ follower.follows => ~Crossed(follower.book)

\* Changes, and the last change of the exchange's book, on the socket that is open.
Has(q, k)     == \E i \in 1..Len(q) : q[i].kind = "change" /\ q[i].k = k
LastChange(m) == m.kind = "change" /\ m.k = MaxChanges /\ ~m.foreign
Brings(q)     == \E i \in 1..Len(q) : LastChange(q[i])
Awaited       == Brings(mail) \/ Brings(socket.q)

\* What all the changes follow: a book, or a change of a socket on which every
\* change is sent.
Precedes(m) == m.k < MaxChanges /\ (m.kind = "book" \/ (m.kind = "change" /\ FromRequest))
Follows(q)  == \A i \in 1..Len(q) : Precedes(q[i]) => \E j \in (i + 1)..Len(q) : LastChange(q[j])
Ascends(q)  == \A i, j \in 1..Len(q) :
                  i < j /\ q[i].kind = "change" /\ q[j].kind = "change" => q[i].k < q[j].k

\* The book is the first to be sent; all changes are sent after it.
SendsInv ==
    /\ ~socket.booked => \A i \in 1..Len(socket.q) : socket.q[i].kind # "book"
    /\ Running /\ socket.up => socket.booked
    /\ Market = MaxChanges => Follows(socket.q)

\* Where changes are numbered: a change that has not been read is noticed, the
\* last one is still to come, and the one that follows the book is in the stream.
NumberedInv ==
    rules.onMessage.order = "change" =>
        /\ Running => listener.last <= Market /\ listener.book = Book(listener.last)
        /\ listener.phase = "align" /\ FromRequest =>
              listener.last <= Market /\ listener.book = Book(listener.last)
        /\ listener.phase = "align" /\ rules.subscribe.align = "next" /\ socket.up =>
              \A k \in (listener.last + 1)..Market : Has(socket.q, k)
        /\ rules.subscribe.align = "next" => Ascends(socket.q)
        /\ Running /\ socket.up /\ Market = MaxChanges /\ listener.last < MaxChanges => Awaited

\* What was in the mailbox when the listener connected is of an earlier socket; it
\* takes up messages of the new one when it runs, or into a buffer.
MailInv ==
    /\ listener.phase \in {"snapshot", "align"} /\ rules.subscribe.align # "buffer" =>
          \A i \in 1..Len(mail) : mail[i].foreign
    /\ FromRequest /\ rules.onMessage.order = "none" => listener.phase # "align"

\* Where every message is numbered: g[n] is the number of changes the exchange has
\* had with the n-th message, from the book that is message number base.
Counts(base, g, m) ==
    m.n > base =>
        /\ m.n <= socket.sent
        /\ m.kind # "book"
        /\ IF m.kind = "change" THEN g[m.n] = m.k /\ g[m.n - 1] = m.k - 1 ELSE g[m.n] = g[m.n - 1]

CountedSent(base, g) ==
    /\ ~socket.booked => base = socket.sent
    /\ socket.booked => g[socket.sent] = Market
    /\ \A i \in 1..Len(socket.q) :
        /\ Counts(base, g, socket.q[i])
        /\ socket.q[i].kind = "book" => socket.q[i].n = base /\ g[base] = socket.q[i].k

CountedRead(base, g) ==
    Running =>
        /\ \A i \in 1..Len(mail) : ~mail[i].foreign => Counts(base, g, mail[i])
        /\ ~listener.missed =>
            /\ base <= listener.last /\ listener.last <= socket.sent
            /\ g[listener.last] <= Market /\ listener.book = Book(g[listener.last])
            /\ Market = MaxChanges /\ g[listener.last] < MaxChanges => Awaited

Numberings == [Nat -> Nat]

CountedInv ==
    InMessages /\ socket.up => \E g \in Numberings, base \in 0..socket.sent : CountedSent(base, g) /\ CountedRead(base, g)

\* Where nothing is numbered nothing is lost, so that the messages under way lead
\* from a book to the exchange's: a level has its value there, or the last
\* message that sets the level does.
Effective(m)  == m.kind = "change" \/ (m.kind = "book" /\ rules.onMessage.body = "book")
Touches(m, s) == Effective(m) /\ ~m.foreign /\ Content(m.k)[s] # None
Sets(m, s)    == Touches(m, s) /\ Content(m.k)[s] = Book(Market)[s]

Leads(book, q, from) ==
    \A s \in Levels :
        \/ /\ book[s] = Book(Market)[s]
           /\ \A j \in (from + 1)..Len(q) : ~Touches(q[j], s)
        \/ \E j \in (from + 1)..Len(q) :
              Sets(q[j], s) /\ \A l \in (j + 1)..Len(q) : ~Touches(q[l], s)

\* Unless a message of an earlier socket passes for one of this socket.
Misleads == rules.onMessage.foreign = "taken" /\ \E i \in 1..Len(mail) : mail[i].foreign /\ Effective(mail[i])

UnnumberedInv ==
    rules.onMessage.order = "none" /\ socket.up =>
        /\ \A i \in 1..Len(socket.q) :
              socket.q[i].kind = "book" => Leads(Book(socket.q[i].k), socket.q, i)
        /\ FromRequest => Leads(Book(Market), socket.q, 0)
        /\ Running /\ rules.onMessage.body = "book" => Leads(Book(Market), mail \o socket.q, 0)
        /\ Running /\ ~listener.missed /\ ~Misleads => Leads(listener.book, mail \o socket.q, 0)

BookInv == SendsInv /\ NumberedInv /\ MailInv /\ CountedInv /\ UnnumberedInv

----------------------------------------------------------------------------
(***************************************************************************)
(* The table, and the messages.                                            *)
(***************************************************************************)

\* Every row of the table is a rule, and a consistent one.
LEMMA TableSound ==
    \A v \in DOMAIN Venue : Venue[v] \in Table /\ Consistent(Venue[v])
<1> DEFINE Sound(v) == Venue[v] \in Table /\ Consistent(Venue[v])
<1>0. ASSUME NEW f, NEW o, NEW g
      PROVE  Numbered(f, o, g) =
                [foreign |-> f, order |-> "change", old |-> o, gap |-> g,
                 body |-> "change", crossed |-> "subscribe"]
  <2>1. [Unnumbered(f) EXCEPT !.order = "change"] =
           [foreign |-> f, order |-> "change", old |-> "skipped", gap |-> "subscribe",
            body |-> "change", crossed |-> "subscribe"]
      BY DEF Unnumbered
  <2>2. PICK a : a = [Unnumbered(f) EXCEPT !.order = "change"]
      OBVIOUS
  <2>3. PICK b : b = [a EXCEPT !.old = o]
      OBVIOUS
  <2>4. b = [foreign |-> f, order |-> "change", old |-> o, gap |-> "subscribe",
             body |-> "change", crossed |-> "subscribe"]
      BY <2>1, <2>2, <2>3
  <2>5. Numbered(f, o, g) = [b EXCEPT !.gap = g]
      BY <2>2, <2>3 DEF Numbered
  <2> QED
      BY <2>4, <2>5
<1> USE <1>0 DEF Table, Subscriptions, Handlings, Consistent, Rules, Checks, FromStream, FromRest,
                 Unnumbered
<1>1. Sound("binance")
  <2>1. Venue["binance"] = Rules(BinanceSubscribe, BinanceOnMessage, BinanceCheckSockets)
      BY DEF Venue
  <2> QED
      BY <2>1 DEF BinanceSubscribe, BinanceOnMessage, BinanceCheckSockets
<1>2. Sound("bitfinex")
  <2>1. Venue["bitfinex"] = Rules(BitfinexSubscribe, BitfinexOnMessage, BitfinexCheckSockets)
      BY DEF Venue
  <2> QED
      BY <2>1 DEF BitfinexSubscribe, BitfinexOnMessage, BitfinexCheckSockets
<1>3. Sound("bithumb")
  <2>1. Venue["bithumb"] = Rules(BithumbSubscribe, BithumbOnMessage, BithumbCheckSockets)
      BY DEF Venue
  <2> QED
      BY <2>1 DEF BithumbSubscribe, BithumbOnMessage, BithumbCheckSockets
<1>4. Sound("bithumbg")
  <2>1. Venue["bithumbg"] = Rules(BithumbgSubscribe, BithumbgOnMessage, BithumbgCheckSockets)
      BY DEF Venue
  <2> QED
      BY <2>1 DEF BithumbgSubscribe, BithumbgOnMessage, BithumbgCheckSockets
<1>5. Sound("bitmex")
  <2>1. Venue["bitmex"] = Rules(BitmexSubscribe, BitmexOnMessage, BitmexCheckSockets)
      BY DEF Venue
  <2> QED
      BY <2>1 DEF BitmexSubscribe, BitmexOnMessage, BitmexCheckSockets
<1>6. Sound("bitstampL2")
  <2>1. Venue["bitstampL2"] = Rules(BitstampL2Subscribe, BitstampL2OnMessage, BitstampL2CheckSockets)
      BY DEF Venue
  <2> QED
      BY <2>1 DEF BitstampL2Subscribe, BitstampL2OnMessage, BitstampL2CheckSockets
<1>7. Sound("bitstamp")
  <2>1. Venue["bitstamp"] = Rules(BitstampSubscribe, BitstampOnMessage, BitstampCheckSockets)
      BY DEF Venue
  <2> QED
      BY <2>1 DEF BitstampSubscribe, BitstampOnMessage, BitstampCheckSockets
<1>8. Sound("bitz")
  <2>1. Venue["bitz"] = Rules(BitzSubscribe, BitzOnMessage, BitzCheckSockets)
      BY DEF Venue
  <2> QED
      BY <2>1 DEF BitzSubscribe, BitzOnMessage, BitzCheckSockets
<1>9. Sound("bybiti")
  <2>1. Venue["bybiti"] = Rules(BybitiSubscribe, BybitiOnMessage, BybitiCheckSockets)
      BY DEF Venue
  <2> QED
      BY <2>1 DEF BybitiSubscribe, BybitiOnMessage, BybitiCheckSockets
<1>10. Sound("bybitl")
  <2>1. Venue["bybitl"] = Rules(BybitlSubscribe, BybitlOnMessage, BybitlCheckSockets)
      BY DEF Venue
  <2> QED
      BY <2>1 DEF BybitlSubscribe, BybitlOnMessage, BybitlCheckSockets
<1>11. Sound("bybits")
  <2>1. Venue["bybits"] = Rules(BybitsSubscribe, BybitsOnMessage, BybitsCheckSockets)
      BY DEF Venue
  <2> QED
      BY <2>1 DEF BybitsSubscribe, BybitsOnMessage, BybitsCheckSockets
<1>12. Sound("coinbasepro")
  <2>1. Venue["coinbasepro"] = Rules(CoinbaseproSubscribe, CoinbaseproOnMessage, CoinbaseproCheckSockets)
      BY DEF Venue
  <2> QED
      BY <2>1 DEF CoinbaseproSubscribe, CoinbaseproOnMessage, CoinbaseproCheckSockets
<1>13. Sound("deribit")
  <2>1. Venue["deribit"] = Rules(DeribitSubscribe, DeribitOnMessage, DeribitCheckSockets)
      BY DEF Venue
  <2> QED
      BY <2>1 DEF DeribitSubscribe, DeribitOnMessage, DeribitCheckSockets
<1>14. Sound("dydx")
  <2>1. Venue["dydx"] = Rules(DydxSubscribe, DydxOnMessage, DydxCheckSockets)
      BY DEF Venue
  <2>2. PICK a : a = Numbered("skipped", "gap", "subscribe")
      OBVIOUS
  <2>3. PICK b : b = [a EXCEPT !.order = "message"]
      OBVIOUS
  <2>4. b = [foreign |-> "skipped", order |-> "message", old |-> "gap", gap |-> "subscribe",
             body |-> "change", crossed |-> "subscribe"]
      BY <2>2, <2>3
  <2>5. DydxOnMessage = [b EXCEPT !.crossed = "patience"]
      BY <2>2, <2>3 DEF DydxOnMessage
  <2>6. DydxOnMessage = [foreign |-> "skipped", order |-> "message", old |-> "gap",
                         gap |-> "subscribe", body |-> "change", crossed |-> "patience"]
      BY <2>4, <2>5
  <2>7. PICK c : c = FromStream("first")
      OBVIOUS
  <2>8. DydxSubscribe = [c EXCEPT !.clears = FALSE]
      BY <2>7 DEF DydxSubscribe
  <2>9. DydxSubscribe = [source |-> "stream", align |-> "first", clears |-> FALSE]
      BY <2>7, <2>8
  <2> QED
      BY <2>1, <2>6, <2>9 DEF DydxCheckSockets
<1>15. Sound("gate")
  <2>1. Venue["gate"] = Rules(GateSubscribe, GateOnMessage, GateCheckSockets)
      BY DEF Venue
  <2> QED
      BY <2>1 DEF GateSubscribe, GateOnMessage, GateCheckSockets
<1>16. Sound("gatef")
  <2>1. Venue["gatef"] = Rules(GatefSubscribe, GatefOnMessage, GatefCheckSockets)
      BY DEF Venue
  <2> QED
      BY <2>1 DEF GatefSubscribe, GatefOnMessage, GatefCheckSockets
<1>17. Sound("gemini")
  <2>1. Venue["gemini"] = Rules(GeminiSubscribe, GeminiOnMessage, GeminiCheckSockets)
      BY DEF Venue
  <2> QED
      BY <2>1 DEF GeminiSubscribe, GeminiOnMessage, GeminiCheckSockets
<1>18. Sound("hitbtc")
  <2>1. Venue["hitbtc"] = Rules(HitbtcSubscribe, HitbtcOnMessage, HitbtcCheckSockets)
      BY DEF Venue
  <2> QED
      BY <2>1 DEF HitbtcSubscribe, HitbtcOnMessage, HitbtcCheckSockets
<1>19. Sound("huobi")
  <2>1. Venue["huobi"] = Rules(HuobiSubscribe, HuobiOnMessage, HuobiCheckSockets)
      BY DEF Venue
  <2> QED
      BY <2>1 DEF HuobiSubscribe, HuobiOnMessage, HuobiCheckSockets
<1>20. Sound("huobif")
  <2>1. Venue["huobif"] = Rules(HuobifSubscribe, HuobifOnMessage, HuobifCheckSockets)
      BY DEF Venue
  <2> QED
      BY <2>1 DEF HuobifSubscribe, HuobifOnMessage, HuobifCheckSockets
<1>21. Sound("huobil")
  <2>1. Venue["huobil"] = Rules(HuobilSubscribe, HuobilOnMessage, HuobilCheckSockets)
      BY DEF Venue
  <2> QED
      BY <2>1 DEF HuobilSubscribe, HuobilOnMessage, HuobilCheckSockets
<1>22. Sound("huobip")
  <2>1. Venue["huobip"] = Rules(HuobipSubscribe, HuobipOnMessage, HuobipCheckSockets)
      BY DEF Venue
  <2> QED
      BY <2>1 DEF HuobipSubscribe, HuobipOnMessage, HuobipCheckSockets
<1>23. Sound("kraken")
  <2>1. Venue["kraken"] = Rules(KrakenSubscribe, KrakenOnMessage, KrakenCheckSockets)
      BY DEF Venue
  <2> QED
      BY <2>1 DEF KrakenSubscribe, KrakenOnMessage, KrakenCheckSockets
<1>24. Sound("krakenf")
  <2>1. Venue["krakenf"] = Rules(KrakenfSubscribe, KrakenfOnMessage, KrakenfCheckSockets)
      BY DEF Venue
  <2> QED
      BY <2>1 DEF KrakenfSubscribe, KrakenfOnMessage, KrakenfCheckSockets
<1>25. Sound("okcoin")
  <2>1. Venue["okcoin"] = Rules(OkcoinSubscribe, OkcoinOnMessage, OkcoinCheckSockets)
      BY DEF Venue
  <2> QED
      BY <2>1 DEF OkcoinSubscribe, OkcoinOnMessage, OkcoinCheckSockets
<1>26. Sound("okex")
  <2>1. Venue["okex"] = Rules(OkexSubscribe, OkexOnMessage, OkexCheckSockets)
      BY DEF Venue
  <2> QED
      BY <2>1 DEF OkexSubscribe, OkexOnMessage, OkexCheckSockets
<1>27. Sound("okexp")
  <2>1. Venue["okexp"] = Rules(OkexpSubscribe, OkexpOnMessage, OkexpCheckSockets)
      BY DEF Venue
  <2> QED
      BY <2>1 DEF OkexpSubscribe, OkexpOnMessage, OkexpCheckSockets
<1>28. Sound("upbit")
  <2>1. Venue["upbit"] = Rules(UpbitSubscribe, UpbitOnMessage, UpbitCheckSockets)
      BY DEF Venue
  <2> QED
      BY <2>1 DEF UpbitSubscribe, UpbitOnMessage, UpbitCheckSockets
<1>29. DOMAIN Venue =
         {"binance", "bitfinex", "bithumb", "bithumbg", "bitmex", "bitstampL2", "bitstamp",
          "bitz", "bybiti", "bybitl", "bybits", "coinbasepro", "deribit", "dydx", "gate",
          "gatef", "gemini", "hitbtc", "huobi", "huobif", "huobil", "huobip", "kraken",
          "krakenf", "okcoin", "okex", "okexp", "upbit"}
    BY DEF Venue
<1>30. \A v \in DOMAIN Venue : Sound(v)
  <2> HIDE DEF Sound
  <2> QED
      BY <1>1, <1>2, <1>3, <1>4, <1>5, <1>6, <1>7, <1>8, <1>9, <1>10, <1>11, <1>12, <1>13,
         <1>14, <1>15, <1>16, <1>17, <1>18, <1>19, <1>20, <1>21, <1>22, <1>23, <1>24, <1>25,
         <1>26, <1>27, <1>28, <1>29
<1> HIDE DEF Table, Consistent
<1> QED
    BY <1>30

\* Books and deltas, and what an update makes of them.
LEMMA Updates ==
    /\ None \notin 0..MaxChanges /\ Books \subseteq Deltas /\ NoLevels \in Deltas /\ Empty \in Books
    /\ \A b \in Books, d \in Deltas : Update(b, d) \in Books
    /\ \A b, d \in Deltas : Update(b, d) \in Deltas
    /\ \A b \in Books : Update(b, NoLevels) = b
    /\ \A b, d \in Books : Update(b, d) = d
    /\ \A b \in Books, d, e \in Deltas : Update(Update(b, d), e) = Update(b, Update(d, e))
<1>0. None \notin 0..MaxChanges /\ 0 \in 0..MaxChanges
    BY VenueBounds DEF None
<1>1. Books \subseteq Deltas /\ NoLevels \in Deltas /\ Empty \in Books
    BY <1>0 DEF Books, Deltas, NoLevels, Empty
<1>2. ASSUME NEW b \in Books, NEW d \in Deltas PROVE Update(b, d) \in Books
    BY <1>0 DEF Update, Books, Deltas
<1>3. ASSUME NEW b \in Deltas, NEW d \in Deltas PROVE Update(b, d) \in Deltas
    BY DEF Update, Deltas
<1>4. ASSUME NEW b \in Books PROVE Update(b, NoLevels) = b
    BY DEF Update, Books, NoLevels
<1>5. ASSUME NEW b \in Books, NEW d \in Books PROVE Update(b, d) = d
    BY <1>0 DEF Update, Books
<1>6. ASSUME NEW b \in Books, NEW d \in Deltas, NEW e \in Deltas
      PROVE  Update(Update(b, d), e) = Update(b, Update(d, e))
  <2>1. /\ \A s \in Levels : Update(b, d)[s] = IF d[s] = None THEN b[s] ELSE d[s]
        /\ \A s \in Levels : Update(d, e)[s] = IF e[s] = None THEN d[s] ELSE e[s]
      BY DEF Update
  <2>2. PICK u, v : u = Update(b, d) /\ v = Update(d, e)
      OBVIOUS
  <2>3. \A s \in Levels : (IF e[s] = None THEN u[s] ELSE e[s]) = IF v[s] = None THEN b[s] ELSE v[s]
      BY <2>1, <2>2
  <2> QED
      BY <2>2, <2>3 DEF Update
<1> QED
    BY <1>0, <1>1, <1>2, <1>3, <1>4, <1>5, <1>6

\* The books of the exchange, and what a message brings of them.
LEMMA BooksOf ==
    ASSUME Types
    PROVE  /\ Market \in 0..MaxChanges
           /\ \A k \in 0..Market : Book(k) \in Books
           /\ \A k \in 1..Market : Content(k) \in Deltas
           /\ rules.onMessage.body = "book" => \A k \in 0..Market : Content(k) = Book(k)
           /\ rules.onMessage.body = "change" =>
                 \A k \in 1..Market : Update(Book(k - 1), Content(k)) = Book(k)
<1>1. Len(history) \in 1..(MaxChanges + 1) /\ history \in Seq(Books) /\ MaxChanges \in Nat
    BY VenueBounds DEF Types
<1>2. Market \in 0..MaxChanges
    BY <1>1 DEF Market
<1>3. ASSUME NEW k \in 0..Market PROVE Book(k) \in Books
    BY <1>1, <1>2 DEF Market, Book
<1>4. rules.onMessage.body = "book" => \A k \in 0..Market : Content(k) = Book(k)
    BY DEF Content
<1>5. ASSUME NEW k \in 1..Market
      PROVE  /\ Content(k) \in Deltas
             /\ rules.onMessage.body = "change" => Update(Book(k - 1), Content(k)) = Book(k)
  <2>1. k \in 0..Market /\ k - 1 \in 0..Market
      BY <1>2
  <2>2. PICK b \in Books, d \in Books : b = Book(k) /\ d = Book(k - 1)
      BY <2>1, <1>3
  <2>3. Content(k) = IF rules.onMessage.body = "book" THEN b
                     ELSE [s \in Levels |-> IF b[s] = d[s] THEN None ELSE b[s]]
      BY <2>2 DEF Content
  <2>4. [s \in Levels |-> IF b[s] = d[s] THEN None ELSE b[s]] \in Deltas
      BY DEF Books, Deltas
  <2>5. Update(d, [s \in Levels |-> IF b[s] = d[s] THEN None ELSE b[s]]) = b
      BY Updates DEF Update, Books
  <2> QED
      BY <2>2, <2>3, <2>4, <2>5, Updates
<1> QED
    BY <1>2, <1>3, <1>4, <1>5

\* The books the exchange has had stay what they are.
LEMMA HistoryGrows ==
    ASSUME Types, NEW b \in Books, Market < MaxChanges, history' = Append(history, b), rules' = rules
    PROVE  /\ history' \in Seq(Books) /\ Len(history') \in 1..(MaxChanges + 1)
           /\ Market' = Market + 1 /\ Market' \in 1..MaxChanges
           /\ history'[Market + 2] = b
           /\ \A k \in 0..Market : history'[k + 1] = Book(k)
           /\ \A i \in 1..Len(history') : history'[i] = b \/ \E j \in 1..Len(history) : history'[i] = history[j]
<1>1. Len(history) \in 1..(MaxChanges + 1) /\ history \in Seq(Books) /\ MaxChanges \in Nat
    BY VenueBounds DEF Types
<1>2. PICK L \in Nat : L = Len(history) /\ L >= 1
    BY <1>1
<1>3. /\ history' \in Seq(Books) /\ Len(history') = L + 1 /\ history'[L + 1] = b
      /\ \A i \in 1..L : history'[i] = history[i]
    BY <1>1, <1>2
<1>4. Market = L - 1 /\ Market' = L
    BY <1>2, <1>3 DEF Market
<1>5. ASSUME NEW k \in 0..Market PROVE history'[k + 1] = Book(k)
    BY <1>2, <1>3, <1>4 DEF Book
<1>6. ASSUME NEW i \in 1..Len(history')
      PROVE  history'[i] = b \/ \E j \in 1..Len(history) : history'[i] = history[j]
  <2>1. CASE i = L + 1
      BY <2>1, <1>3
  <2>2. CASE i # L + 1
      BY <2>2, <1>2, <1>3
  <2> QED
      BY <2>1, <2>2
<1>7. Market < MaxChanges
    OBVIOUS
<1> QED
    BY <1>1, <1>2, <1>3, <1>4, <1>5, <1>6, <1>7

\* With them the contents of the messages under way.
LEMMA ContentsStay ==
    ASSUME Types, rules' = rules, NEW M \in Nat, M = Market,
           \A k \in 0..M : history'[k + 1] = Book(k)
    PROVE  /\ \A k \in 0..M : Book(k)' = Book(k)
           /\ \A k \in 1..M : Content(k)' = Content(k)
           /\ rules.onMessage.body = "book" => \A k \in 0..M : Content(k)' = Content(k)
<1>1. \A k \in 0..M : Book(k)' = Book(k)
    BY DEF Book
<1>2. ASSUME NEW k \in 1..M PROVE Content(k)' = Content(k)
  <2>1. k \in 0..M /\ k - 1 \in 0..M
      OBVIOUS
  <2>2. Book(k)' = Book(k) /\ Book(k - 1)' = Book(k - 1)
      BY <1>1, <2>1
  <2> QED
      BY <2>2 DEF Content
<1>3. rules.onMessage.body = "book" => \A k \in 0..M : Content(k)' = Content(k)
    BY <1>1 DEF Content
<1> QED
    BY <1>1, <1>2, <1>3

\* A message sent is the last of the stream.
Sends(m) ==
    /\ m \in Msg /\ ~m.foreign
    /\ socket' \in SocketType /\ socket'.up = socket.up
    /\ socket'.booked = (socket.booked \/ m.kind = "book") /\ socket'.sent = socket.sent + 1
    /\ socket'.q = Append(socket.q, m) /\ socket'.q \in Seq(Msg)
    /\ m.n = IF InMessages THEN socket.sent + 1 ELSE m.k

\* A message that is sent.
LEMMA SentShape ==
    ASSUME Types, NEW kind \in Kinds, NEW k \in 0..MaxChanges, Sent(kind, k)
    PROVE  \E m \in Msg : m.kind = kind /\ m.k = k /\ Sends(m)
<1>1. socket \in SocketType /\ socket.sent + 1 \in Nat
    BY DEF Types, SocketType
<1>2. PICK n \in Nat : n = IF InMessages THEN socket.sent + 1 ELSE k
    BY <1>1
<1>3. PICK m : m = Message(kind, k, n)
    OBVIOUS
<1>4. m \in Msg /\ m.kind = kind /\ m.k = k /\ m.n = n /\ m.foreign = FALSE
    BY <1>3 DEF Message, Msg
<1>5. socket' = [socket EXCEPT !.sent = socket.sent + 1, !.booked = socket.booked \/ kind = "book",
                               !.q = Append(socket.q, m)]
    BY <1>2, <1>3 DEF Sent
<1>6. Append(socket.q, m) \in Seq(Msg)
    BY <1>1, <1>4 DEF SocketType
<1>7. PICK t \in Nat, b \in BOOLEAN, q \in Seq(Msg) :
        t = socket.sent + 1 /\ b = (socket.booked \/ kind = "book") /\ q = Append(socket.q, m)
    BY <1>1, <1>6
<1>8. socket' = [socket EXCEPT !.sent = t, !.booked = b, !.q = q]
    BY <1>5, <1>7
<1>9. /\ socket' \in SocketType /\ socket'.up = socket.up /\ socket'.booked = b
      /\ socket'.sent = t /\ socket'.q = q
    BY <1>1, <1>8 DEF SocketType
<1> QED
    BY <1>2, <1>4, <1>7, <1>9 DEF Sends

\* The listener that starts on a book.
LEMMA StartsShape ==
    ASSUME Types, NEW k \in 0..Market, NEW n \in Nat
    PROVE  LET l == Starts(listener, k, n) IN
           /\ l \in ListenerType /\ l.phase = "running" /\ l.book = Book(k) /\ l.last = n
           /\ l.missed = FALSE
           /\ rules.subscribe.clears => l.held = NoLevels
<1>1. Book(k) \in Books /\ NoLevels \in Deltas /\ listener \in ListenerType
    BY BooksOf, Updates DEF Types
<1>2. PICK h \in Deltas : h = IF rules.subscribe.clears THEN NoLevels ELSE listener.held
    BY <1>1 DEF ListenerType
<1>3. Starts(listener, k, n) =
        [listener EXCEPT !.phase = "running", !.book = Book(k), !.last = n, !.missed = FALSE, !.held = h]
    BY <1>2 DEF Starts
<1> QED
    BY <1>1, <1>2, <1>3 DEF ListenerType, Phases

\* The listener that has read message m into its book.
Reads(l, m) ==
    /\ l \in ListenerType /\ l.phase = listener.phase
    /\ l.book = Update(listener.book, Content(m.k)) /\ l.held = Update(listener.held, Content(m.k))
    /\ l.last = m.n /\ l.crossings = listener.crossings
    /\ l.missed = IF rules.onMessage.order = "none" /\ m.foreign /\ rules.onMessage.foreign = "taken" THEN TRUE
                  ELSE listener.missed /\ rules.onMessage.body = "change"

\* A message that is applied.
LEMMA ReadsShape ==
    ASSUME Types, NEW m \in Msg, Tells(m), Effective(m)
    PROVE  Reads(Applied(m), m) /\ Content(m.k) \in Deltas /\ m.k \in 0..Market
<1>1. listener \in ListenerType /\ Market \in 0..MaxChanges /\ m.k \in 0..MaxChanges /\ rules \in Table
    BY BooksOf DEF Types, Msg
<1>2. Content(m.k) \in Deltas /\ m.k \in 0..Market
  <2>1. m.k \in 0..Market
      BY <1>1 DEF Tells
  <2>2. CASE rules.onMessage.body = "book"
      BY <2>1, <2>2, BooksOf, Updates
  <2>3. CASE rules.onMessage.body # "book"
    <3>1. m.k \in 1..Market
        BY <2>1, <2>3, <1>1 DEF Tells, Effective
    <3> QED
        BY <2>1, <3>1, BooksOf
  <2> QED
      BY <2>2, <2>3
<1>3. PICK b \in Books, h \in Deltas :
        b = Update(listener.book, Content(m.k)) /\ h = Update(listener.held, Content(m.k))
    BY <1>1, <1>2, Updates DEF ListenerType
<1>4. PICK x \in BOOLEAN :
        x = IF rules.onMessage.order = "none" /\ m.foreign /\ rules.onMessage.foreign = "taken" THEN TRUE
            ELSE listener.missed /\ rules.onMessage.body = "change"
    BY <1>1 DEF ListenerType
<1>5. Applied(m) = [listener EXCEPT !.book = b, !.held = h, !.last = m.n, !.missed = x]
    BY <1>3, <1>4 DEF Applied
<1>6. PICK l : l = Applied(m)
    OBVIOUS
<1>7. m.n \in Nat
    BY DEF Msg
<1>8. /\ l \in ListenerType /\ l.phase = listener.phase /\ l.book = b /\ l.held = h /\ l.last = m.n
      /\ l.crossings = listener.crossings /\ l.missed = x
    BY <1>1, <1>5, <1>6, <1>7 DEF ListenerType
<1> QED
    BY <1>2, <1>3, <1>4, <1>6, <1>8 DEF Reads

\* The listener gives up its socket, by subscribing again or by failing.
GivesUp ==
    /\ listener' \in ListenerType /\ listener'.phase \in {"connect", "failed"}
    /\ UNCHANGED <<socket, follower>>

\* It posts what it has read, or holds it back.
Goes(m) ==
    /\ Effective(m)
    /\ listener' \in ListenerType /\ listener'.phase = "running"
    /\ listener'.book = Update(listener.book, Content(m.k)) /\ listener'.last = m.n
    /\ listener'.missed = IF rules.onMessage.order = "none" /\ m.foreign /\ rules.onMessage.foreign = "taken"
                          THEN TRUE ELSE listener.missed /\ rules.onMessage.body = "change"
    /\ \/ /\ ~Crossed(listener'.book) /\ listener'.held = NoLevels
          /\ Post(Update(listener.held, Content(m.k)))
       \/ /\ Crossed(listener'.book) /\ HoldsBack
          /\ listener'.held = Update(listener.held, Content(m.k)) /\ follower' = follower
    /\ socket' = socket

\* Apply: the listener subscribes anew, or goes on with the message in its book.
LEMMA ApplyShape ==
    ASSUME Types, Running, NEW m \in Msg, Tells(m), Effective(m), Apply(m)
    PROVE  GivesUp \/ Goes(m)
<1>1. PICK l : l = Applied(m)
    OBVIOUS
<1>2. Reads(l, m)
    BY <1>1, ReadsShape
<1>3. listener \in ListenerType /\ l \in ListenerType /\ l.phase = "running" /\ rules \in Table /\ Patience \in Nat
    BY <1>2, VenueBounds DEF Types, Reads, Running
<1>4. CASE Subscribe
  <2>1. listener' = [listener EXCEPT !.phase = "connect"] /\ UNCHANGED <<socket, follower>>
      BY <1>4 DEF Subscribe
  <2> QED
      BY <2>1, <1>3 DEF GivesUp, ListenerType, Phases
<1>5. CASE /\ ~Crossed(l.book)
           /\ listener' = [l EXCEPT !.held = NoLevels, !.crossings = 0]
           /\ Post(l.held) /\ UNCHANGED socket
  <2>1. NoLevels \in Deltas /\ 0 \in 0..Patience
      BY Updates, <1>3
  <2>2. /\ listener' \in ListenerType /\ listener'.phase = l.phase /\ listener'.book = l.book
        /\ listener'.last = l.last /\ listener'.missed = l.missed /\ listener'.held = NoLevels
      BY <2>1, <1>3, <1>5 DEF ListenerType
  <2>3. Post(Update(listener.held, Content(m.k)))
      BY <1>5, <1>2 DEF Reads
  <2> QED
      BY <2>2, <2>3, <1>2, <1>3, <1>5 DEF Goes, Reads
<1>6. CASE listener' = [l EXCEPT !.phase = "connect"] /\ UNCHANGED <<socket, follower>>
    BY <1>6, <1>3 DEF GivesUp, ListenerType, Phases
<1>7. CASE /\ Crossed(l.book) /\ HoldsBack
           /\ ~(rules.onMessage.crossed = "patience" /\ l.crossings = Patience)
           /\ listener' = [l EXCEPT !.crossings =
                              IF rules.onMessage.crossed = "patience" THEN l.crossings + 1 ELSE l.crossings]
           /\ UNCHANGED <<socket, follower>>
  <2>1. PICK c \in 0..Patience :
          c = IF rules.onMessage.crossed = "patience" THEN l.crossings + 1 ELSE l.crossings
      BY <1>3, <1>7 DEF ListenerType
  <2>2. listener' = [l EXCEPT !.crossings = c]
      BY <2>1, <1>7
  <2>3. /\ listener' \in ListenerType /\ listener'.phase = l.phase /\ listener'.book = l.book
        /\ listener'.last = l.last /\ listener'.missed = l.missed /\ listener'.held = l.held
      BY <2>2, <1>3 DEF ListenerType
  <2> QED
      BY <2>3, <1>2, <1>3, <1>7 DEF Goes, Reads
<1> QED
    BY <1>1, <1>4, <1>5, <1>6, <1>7 DEF Apply, HoldsBack

\* Nothing to be done.
Skips(m) ==
    /\ UNCHANGED <<listener, socket, follower>>
    /\ \/ m.foreign /\ rules.onMessage.foreign = "skipped"
       \/ ~Effective(m) /\ ~InMessages
       \/ ~Effective(m) /\ m.kind = "book"
       \/ rules.onMessage.order # "none" /\ rules.onMessage.old = "skipped" /\ m.n <= listener.last

\* A trade, or the answer to a ping, where they are numbered.
Numbers(m) ==
    /\ InMessages /\ m.kind \in {"trade", "pong"} /\ ~(m.foreign /\ rules.onMessage.foreign = "skipped")
    /\ listener' \in ListenerType /\ listener'.phase = "running" /\ listener'.book = listener.book
    /\ listener'.held = listener.held /\ listener'.last = m.n
    /\ listener'.missed = (listener.missed \/ m.n # listener.last + 1)
    /\ UNCHANGED <<socket, follower>>

\* A message with levels is passed over, applied, or a gap.
LEMMA OnChangeShape ==
    ASSUME Types, Running, NEW m \in Msg, Tells(m), Effective(m), OnChange(m)
    PROVE  \/ Skips(m) \/ GivesUp
           \/ socket' = NoSocket /\ UNCHANGED <<listener, follower>>
           \/ Goes(m) /\ (rules.onMessage.order # "none" => m.n = listener.last + 1)
<1>1. listener \in ListenerType /\ rules \in Table
    BY DEF Types
<1>2. CASE rules.onMessage.order = "none" /\ Apply(m)
    BY <1>2, ApplyShape
<1>3. CASE /\ m.n <= listener.last /\ Ignore
           /\ rules.onMessage.order # "none" /\ rules.onMessage.old = "skipped"
    BY <1>3 DEF Ignore, Skips
<1>4. CASE OnGap
  <2>1. CASE Subscribe
      BY <2>1, <1>1 DEF Subscribe, GivesUp, ListenerType, Phases
  <2>2. CASE listener' = [listener EXCEPT !.phase = "failed"] /\ UNCHANGED <<socket, follower>>
      BY <2>2, <1>1 DEF GivesUp, ListenerType, Phases
  <2> QED
      BY <1>4, <2>1, <2>2 DEF OnGap
<1>5. CASE m.n = listener.last + 1 /\ Apply(m)
    BY <1>5, ApplyShape
<1> QED
    BY <1>2, <1>3, <1>4, <1>5 DEF OnChange

\* A trade or a pong counts only where it is numbered.
LEMMA OnOtherShape ==
    ASSUME Types, Running, NEW m \in Msg, m.kind \in {"trade", "pong"}, OnOther(m),
           ~(m.foreign /\ rules.onMessage.foreign = "skipped")
    PROVE  \/ Skips(m) \/ GivesUp
           \/ socket' = NoSocket /\ UNCHANGED <<listener, follower>>
           \/ Numbers(m)
<1>1. listener \in ListenerType /\ rules \in Table /\ m.n \in Nat
    BY DEF Types, Msg
<1>2. CASE ~InMessages /\ Ignore
    BY <1>2 DEF Ignore, Skips, Effective
<1>3. CASE OnGap
  <2>1. CASE Subscribe
      BY <2>1, <1>1 DEF Subscribe, GivesUp, ListenerType, Phases
  <2>2. CASE listener' = [listener EXCEPT !.phase = "failed"] /\ UNCHANGED <<socket, follower>>
      BY <2>2, <1>1 DEF GivesUp, ListenerType, Phases
  <2> QED
      BY <1>3, <2>1, <2>2 DEF OnGap
<1>4. CASE /\ InMessages
           /\ listener' = [listener EXCEPT !.last = m.n,
                              !.missed = listener.missed \/ m.n # listener.last + 1]
           /\ UNCHANGED <<socket, follower>>
  <2>1. PICK x \in BOOLEAN : x = (listener.missed \/ m.n # listener.last + 1)
      BY <1>1 DEF ListenerType
  <2>2. listener' = [listener EXCEPT !.last = m.n, !.missed = x]
      BY <2>1, <1>4
  <2>3. /\ listener' \in ListenerType /\ listener'.phase = listener.phase
        /\ listener'.book = listener.book /\ listener'.held = listener.held
        /\ listener'.last = m.n /\ listener'.missed = x
      BY <2>2, <1>1 DEF ListenerType
  <2> QED
      BY <2>1, <2>3, <1>4 DEF Numbers, Running
<1> QED
    BY <1>2, <1>3, <1>4 DEF OnOther

\* What OnWebsocketMessage does, in the terms of the lemmas above.
LEMMA WebsocketShape ==
    ASSUME Types, Stream, OnWebsocketMessage
    PROVE  /\ Running /\ mail # <<>> /\ mail' = Tail(mail) /\ UNCHANGED <<rules, history, faults>>
           /\ Head(mail) \in Msg /\ Tells(Head(mail)) /\ Tail(mail) \in Seq(Msg)
           /\ \/ Skips(Head(mail)) \/ GivesUp
              \/ socket' = NoSocket /\ UNCHANGED <<listener, follower>>
              \/ /\ Goes(Head(mail)) /\ ~(Head(mail).foreign /\ rules.onMessage.foreign = "skipped")
                 /\ rules.onMessage.order # "none" => Head(mail).n = listener.last + 1
              \/ Numbers(Head(mail))
<1>1. /\ Running /\ mail # <<>> /\ mail' = Tail(mail) /\ UNCHANGED <<rules, history, faults>>
      /\ mail \in Seq(Msg) /\ \A i \in 1..Len(mail) : Tells(mail[i])
    BY DEF OnWebsocketMessage, Running, NoFault, Types, Stream
<1>2. PICK m \in Msg : m = Head(mail) /\ m = mail[1] /\ 1 \in 1..Len(mail) /\ Tail(mail) \in Seq(Msg)
    BY <1>1
<1>3. Tells(m)
    BY <1>1, <1>2
<1>4. \/ m.foreign /\ rules.onMessage.foreign = "skipped" /\ Ignore
      \/ /\ ~(m.foreign /\ rules.onMessage.foreign = "skipped")
         /\ \/ Effective(m) /\ OnChange(m)
            \/ ~Effective(m) /\ m.kind = "book" /\ Ignore
            \/ m.kind \in {"trade", "pong"} /\ OnOther(m)
    BY <1>2 DEF OnWebsocketMessage, Effective, Msg, Kinds
<1>5. CASE m.foreign /\ rules.onMessage.foreign = "skipped" /\ Ignore
    BY <1>1, <1>2, <1>3, <1>5 DEF Skips, Ignore
<1>6. CASE ~Effective(m) /\ m.kind = "book" /\ Ignore
    BY <1>1, <1>2, <1>3, <1>6 DEF Skips, Ignore
<1>7. CASE ~(m.foreign /\ rules.onMessage.foreign = "skipped") /\ Effective(m) /\ OnChange(m)
    BY <1>1, <1>2, <1>3, <1>7, OnChangeShape
<1>8. CASE ~(m.foreign /\ rules.onMessage.foreign = "skipped") /\ m.kind \in {"trade", "pong"} /\ OnOther(m)
    BY <1>1, <1>2, <1>3, <1>8, OnOtherShape
<1> QED
    BY <1>4, <1>5, <1>6, <1>7, <1>8

----------------------------------------------------------------------------
(***************************************************************************)
(* Subscribing.                                                            *)
(***************************************************************************)

\* The listener runs, with book k, numbered n; its followers have to ask again.
Begins(k, n) ==
    /\ k \in 0..Market /\ n \in Nat
    /\ listener' \in ListenerType /\ listener'.phase = "running" /\ listener'.book = Book(k)
    /\ listener'.last = n /\ listener'.missed = FALSE
    /\ rules.subscribe.clears => listener'.held = NoLevels
    /\ follower' = [follower EXCEPT !.follows = FALSE]

\* It goes on with another phase of subscribing, or fails.
Turns(phase) ==
    /\ listener' \in ListenerType /\ listener'.phase = phase /\ phase # "running"
    /\ follower' = follower

ReadsOne ==
    /\ socket.q # <<>> /\ Head(socket.q) \in Msg /\ ~Head(socket.q).foreign /\ Tells(Head(socket.q))
    /\ socket' \in SocketType /\ socket'.up = socket.up /\ socket'.booked = socket.booked
    /\ socket'.sent = socket.sent /\ socket'.q = Tail(socket.q)

\* Read takes the first message of the stream.
LEMMA ReadShape ==
    ASSUME Types, Stream, socket.q # <<>>, Read PROVE ReadsOne
<1>1. socket \in SocketType /\ socket.q \in Seq(Msg)
    BY DEF Types, SocketType
<1>2. PICK q \in Seq(Msg) : q = Tail(socket.q)
  <2>1. PICK r \in Seq(Msg) : r = socket.q
      BY <1>1
  <2>2. Tail(r) \in Seq(Msg)
      BY <2>1
  <2> QED
      BY <2>1, <2>2
<1>3. socket' = [socket EXCEPT !.q = q]
    BY <1>2 DEF Read
<1>4. Head(socket.q) = socket.q[1] /\ 1 \in 1..Len(socket.q) /\ socket.q[1] \in Msg
    BY <1>1
<1>5. Tells(socket.q[1]) /\ ~socket.q[1].foreign
    BY <1>4 DEF Stream
<1> QED
    BY <1>1, <1>2, <1>3, <1>4, <1>5 DEF ReadsOne, SocketType

\* The listener starts to run.
LEMMA BeginsShape ==
    ASSUME Types, NEW k \in 0..Market, NEW n \in Nat, Leaves,
           listener' = Starts(listener, k, n)
    PROVE  Begins(k, n)
<1>1. follower' = [follower EXCEPT !.follows = FALSE]
    BY DEF Leaves
<1>2. /\ listener' \in ListenerType /\ listener'.phase = "running" /\ listener'.book = Book(k)
      /\ listener'.last = n /\ listener'.missed = FALSE
      /\ rules.subscribe.clears => listener'.held = NoLevels
    BY StartsShape
<1> QED
    BY <1>1, <1>2 DEF Begins

\* The listener turns to another phase.
LEMMA TurnsShape ==
    ASSUME Types, NEW p \in Phases \ {"running"}, listener' = [listener EXCEPT !.phase = p],
           follower' = follower
    PROVE  Turns(p)
BY DEF Types, ListenerType, Turns

\* What TakeSnapshot does.
LEMMA SnapshotShape ==
    ASSUME Types, TakeSnapshot
    PROVE  /\ listener.phase = "snapshot" /\ UNCHANGED <<rules, history, socket, mail>>
           /\ faults' \in 0..MaxFaults
           /\ \/ rules.subscribe.align = "none" /\ Begins(Market, Market)
              \/ /\ rules.subscribe.align # "none" /\ Turns("align")
                 /\ \E k \in 0..Market :
                       /\ listener'.book = Book(k) /\ listener'.last = k
                       /\ k = Market \/ rules.subscribe.align \in {"exact", "cover"}
<1>1. PICK k \in 0..Market :
        /\ \/ k = Market /\ NoFault
           \/ k = Market - 1 /\ rules.subscribe.align \in {"exact", "cover"} /\ Fault
        /\ IF rules.subscribe.align = "none"
           THEN listener' = Starts(listener, k, k) /\ Leaves
           ELSE /\ listener' = [listener EXCEPT !.phase = "align", !.book = Book(k), !.last = k]
                /\ UNCHANGED follower
    BY DEF TakeSnapshot
<1>2. faults' \in 0..MaxFaults
    BY <1>1, VenueBounds DEF Types, Fault, NoFault
<1>3. k \in Nat /\ k \in 0..Market /\ Book(k) \in Books /\ listener \in ListenerType
    BY BooksOf DEF Types
<1>4. CASE rules.subscribe.align = "none"
  <2>1. k = Market /\ listener' = Starts(listener, k, k) /\ Leaves
      BY <1>1, <1>4
  <2>2. Begins(k, k)
      BY <2>1, <1>3, BeginsShape
  <2> QED
      BY <2>1, <2>2, <1>2, <1>4 DEF TakeSnapshot
<1>5. CASE rules.subscribe.align # "none"
  <2>1. listener' = [listener EXCEPT !.phase = "align", !.book = Book(k), !.last = k]
      BY <1>1, <1>5
  <2>2. /\ listener' \in ListenerType /\ listener'.phase = "align"
        /\ listener'.book = Book(k) /\ listener'.last = k
      BY <2>1, <1>3 DEF ListenerType, Phases
  <2> QED
      BY <2>2, <1>1, <1>2, <1>5 DEF TakeSnapshot, Turns
<1> QED
    BY <1>4, <1>5

\* What AlignStream does.
LEMMA AlignStreamShape ==
    ASSUME Types, Stream, AlignStream
    PROVE  /\ listener.phase = "align" /\ rules.subscribe.source = "stream"
           /\ UNCHANGED <<rules, history, faults>> /\ ReadsOne
           /\ \/ Head(socket.q).kind = "book" /\ Begins(Head(socket.q).k, Head(socket.q).n) /\ mail' = mail
              \/ Head(socket.q).kind # "book" /\ Turns("failed") /\ mail' = mail
              \/ /\ Head(socket.q).kind # "book" /\ UNCHANGED <<listener, follower>>
                 /\ mail' = IF rules.subscribe.align = "buffer" THEN Append(mail, Head(socket.q)) ELSE mail
<1>1. /\ listener.phase = "align" /\ rules.subscribe.source = "stream" /\ socket.q # <<>>
      /\ UNCHANGED <<rules, history, faults>> /\ Read
    BY DEF AlignStream, NoFault
<1>2. PICK m : m = Head(socket.q)
    OBVIOUS
<1>3. ReadsOne /\ m \in Msg /\ m.k \in 0..Market /\ m.n \in Nat
  <2>1. ReadsOne
      BY <1>1, ReadShape
  <2>2. m \in Msg /\ Tells(m)
      BY <2>1, <1>2 DEF ReadsOne
  <2> QED
      BY <2>1, <2>2, BooksOf DEF Msg, Tells
<1>4. \/ m.kind = "book" /\ listener' = Starts(listener, m.k, m.n) /\ Leaves /\ UNCHANGED mail
      \/ m.kind # "book" /\ listener' = [listener EXCEPT !.phase = "failed"] /\ UNCHANGED <<mail, follower>>
      \/ /\ m.kind # "book" /\ UNCHANGED <<listener, follower>>
         /\ mail' = IF rules.subscribe.align = "buffer" THEN Append(mail, m) ELSE mail
    BY <1>2 DEF AlignStream
<1>5. CASE m.kind = "book" /\ listener' = Starts(listener, m.k, m.n) /\ Leaves /\ UNCHANGED mail
    BY <1>1, <1>2, <1>3, <1>5, BeginsShape
<1>6. CASE m.kind # "book" /\ listener' = [listener EXCEPT !.phase = "failed"] /\ UNCHANGED <<mail, follower>>
    BY <1>1, <1>2, <1>3, <1>6, TurnsShape DEF Phases
<1>7. CASE /\ m.kind # "book" /\ UNCHANGED <<listener, follower>>
           /\ mail' = IF rules.subscribe.align = "buffer" THEN Append(mail, m) ELSE mail
    BY <1>1, <1>2, <1>3, <1>7
<1> QED
    BY <1>4, <1>5, <1>6, <1>7

\* The first change after the book, where the listener looks for the next one.
LEMMA NextIsNext ==
    ASSUME Types, Stream, NumberedInv, listener.phase = "align", FromRequest, socket.q # <<>>,
           rules.subscribe.align = "next",
           Head(socket.q).kind = "change", Head(socket.q).k > listener.last
    PROVE  Head(socket.q).k = listener.last + 1
<1>1. /\ socket \in SocketType /\ socket.q \in Seq(Msg) /\ listener \in ListenerType
      /\ Market \in 0..MaxChanges /\ rules \in Table
    BY BooksOf DEF Types, SocketType
<1>2. socket.up
    BY <1>1 DEF Stream, NoSocket, SocketType
<1>3. rules.onMessage.order = "change"
    BY DEF Types, Consistent, FromRequest
<1>4. PICK q \in Seq(Msg) : q = socket.q
    BY <1>1
<1>5. Head(q) = q[1] /\ 1 \in 1..Len(q) /\ q[1] \in Msg
    BY <1>4
<1>6. q[1].k <= Market /\ q[1].k \in Nat /\ listener.last \in Nat /\ Market \in Nat
    BY <1>1, <1>4, <1>5 DEF Stream, Tells, Msg, ListenerType
<1>7. listener.last + 1 \in (listener.last + 1)..Market
    BY <1>4, <1>5, <1>6
<1>8. PICK i \in 1..Len(q) : q[i].kind = "change" /\ q[i].k = listener.last + 1
    BY <1>2, <1>3, <1>4, <1>7 DEF NumberedInv, Has, Ascends
<1>9. \A j \in 1..Len(q) : 1 < j /\ q[j].kind = "change" => q[1].k < q[j].k
    BY <1>3, <1>4, <1>5 DEF NumberedInv, Has, Ascends
<1>10. CASE i = 1
    BY <1>4, <1>5, <1>8, <1>10
<1>11. CASE 1 < i
  <2>1. q[1].k < listener.last + 1
      BY <1>8, <1>9, <1>11
  <2> QED
      BY <2>1, <1>4, <1>5, <1>6
<1> QED
    BY <1>8, <1>10, <1>11

\* What AlignRest does: where it starts, the change at the head follows the book.
LEMMA AlignRestShape ==
    ASSUME Types, Stream, NumberedInv, AlignRest
    PROVE  /\ listener.phase = "align" /\ FromRequest /\ socket.q # <<>>
           /\ UNCHANGED <<rules, history, mail, faults>>
           /\ \/ /\ ReadsOne /\ UNCHANGED <<listener, follower>>
                 /\ Head(socket.q).kind # "change" \/ Head(socket.q).k <= listener.last
              \/ /\ ReadsOne /\ Begins(Head(socket.q).k, Head(socket.q).k)
                 /\ Head(socket.q).kind = "change" /\ Head(socket.q).k >= listener.last
              \/ ReadsOne /\ Turns("failed")
              \/ UNCHANGED socket /\ Turns("snapshot")
<1>1. /\ listener.phase = "align" /\ FromRequest /\ socket.q # <<>>
      /\ UNCHANGED <<rules, history, mail, faults>>
    BY DEF AlignRest, NoFault, FromRequest
<1>2. PICK m : m = Head(socket.q)
    OBVIOUS
<1>3. m \in Msg /\ m.k \in 0..Market /\ m.k \in Nat /\ (m.kind = "change" => m.k \in 1..Market)
  <2>1. PICK r \in Seq(Msg) : r = socket.q /\ r # <<>>
      BY <1>1 DEF Types, SocketType
  <2>2. Head(r) = r[1] /\ 1 \in 1..Len(r) /\ r[1] \in Msg
      BY <2>1
  <2>3. Tells(m) /\ m \in Msg
      BY <2>1, <2>2, <1>2 DEF Stream
  <2> QED
      BY <2>3, BooksOf DEF Msg, Tells
<1>4. /\ listener \in ListenerType /\ rules \in Table /\ listener.last \in Nat
      /\ rules.subscribe.align # "none" =>
            /\ rules.onMessage.order = "change" /\ rules.onMessage.body = "change"
            /\ listener.last <= Market /\ listener.book = Book(listener.last)
    BY <1>1 DEF Types, Consistent, FromRequest, NumberedInv, ListenerType
<1>5. Read => ReadsOne
    BY <1>1, ReadShape
<1>6. \/ /\ m.kind # "change" \/ m.k <= listener.last
         /\ Read /\ UNCHANGED <<listener, follower>>
      \/ /\ m.kind = "change" /\ m.k = listener.last
         /\ listener' = Starts(listener, m.k, m.k) /\ Leaves /\ Read
      \/ listener' = [listener EXCEPT !.phase = "failed"] /\ Read /\ UNCHANGED follower
      \/ listener' = [listener EXCEPT !.phase = "snapshot"] /\ UNCHANGED <<socket, follower>>
      \/ /\ m.kind = "change" /\ m.k > listener.last /\ rules.subscribe.align # "none"
         /\ rules.subscribe.align = "next" \/ m.k = listener.last + 1
         /\ listener' = [Starts(listener, m.k, m.k) EXCEPT !.book = Update(listener.book, Content(m.k))]
         /\ Leaves /\ Read
  <2>1. m.kind = "change" /\ ~(m.k < listener.last) /\ ~(m.k > listener.last) => m.k = listener.last
      BY <1>3, <1>4
  <2> QED
      BY <2>1, <1>2, <1>3, <1>4 DEF AlignRest, Later
<1>7. CASE /\ m.kind = "change" /\ m.k = listener.last
           /\ listener' = Starts(listener, m.k, m.k) /\ Leaves /\ Read
  <2>1. Begins(m.k, m.k)
      BY <1>3, <1>7, BeginsShape
  <2> QED
      BY <2>1, <1>1, <1>2, <1>3, <1>4, <1>5, <1>7
<1>8. CASE listener' = [listener EXCEPT !.phase = "failed"] /\ Read /\ UNCHANGED follower
  <2>1. Turns("failed")
      BY <1>8, TurnsShape DEF Phases
  <2> QED
      BY <2>1, <1>1, <1>5, <1>8
<1>9. CASE listener' = [listener EXCEPT !.phase = "snapshot"] /\ UNCHANGED <<socket, follower>>
  <2>1. Turns("snapshot")
      BY <1>9, TurnsShape DEF Phases
  <2> QED
      BY <2>1, <1>1, <1>9
<1>10. CASE /\ m.kind = "change" /\ m.k > listener.last /\ rules.subscribe.align # "none"
            /\ rules.subscribe.align = "next" \/ m.k = listener.last + 1
            /\ listener' = [Starts(listener, m.k, m.k) EXCEPT !.book = Update(listener.book, Content(m.k))]
            /\ Leaves /\ Read
  <2>1. m.k = listener.last + 1
      BY <1>1, <1>2, <1>10, NextIsNext
  <2>2. Update(Book(m.k - 1), Content(m.k)) = Book(m.k)
      BY <1>3, <1>4, <1>10, BooksOf
  <2>3. listener.last = m.k - 1
      BY <2>1, <1>3, <1>4
  <2>4. Update(listener.book, Content(m.k)) = Book(m.k)
      BY <2>2, <2>3, <1>4, <1>10
  <2>5. PICK l : l = Starts(listener, m.k, m.k)
      OBVIOUS
  <2>6. l \in ListenerType /\ l.book = Book(m.k)
      BY <2>5, <1>3, StartsShape
  <2>7. [l EXCEPT !.book = Book(m.k)] = l
      BY <2>6 DEF ListenerType
  <2>8. listener' = Starts(listener, m.k, m.k)
      BY <2>4, <2>5, <2>7, <1>10
  <2>9. Begins(m.k, m.k)
      BY <2>8, <1>3, <1>10, BeginsShape
  <2> QED
      BY <2>9, <1>1, <1>2, <1>3, <1>4, <1>5, <1>10
<1>11. CASE /\ m.kind # "change" \/ m.k <= listener.last
            /\ Read /\ UNCHANGED <<listener, follower>>
    BY <1>1, <1>2, <1>5, <1>11
<1> QED
    BY <1>6, <1>7, <1>8, <1>9, <1>10, <1>11

\* What AlignAtBound does.
LEMMA AtBoundShape ==
    ASSUME Types, AlignAtBound
    PROVE  /\ listener.phase = "align" /\ FromRequest
           /\ UNCHANGED <<rules, history, socket, mail, faults>>
           /\ \/ Begins(Market, Market)
              \/ \E p \in {"snapshot", "failed"} : Turns(p)
<1>1. /\ listener.phase = "align" /\ FromRequest /\ UNCHANGED <<rules, history, socket, mail, faults>>
    BY DEF AlignAtBound, NoFault, FromRequest
<1>2. CASE listener' = Starts(listener, Market, Market) /\ Leaves
  <2>1. Market \in 0..Market /\ Market \in Nat
      BY BooksOf
  <2> QED
      BY <2>1, <1>1, <1>2, BeginsShape
<1>3. CASE /\ listener' = [listener EXCEPT !.phase =
                 IF rules.subscribe.align = "cover" THEN "snapshot" ELSE "failed"]
           /\ UNCHANGED follower
  <2>1. PICK p \in {"snapshot", "failed"} :
            p = IF rules.subscribe.align = "cover" THEN "snapshot" ELSE "failed"
      OBVIOUS
  <2>2. listener' = [listener EXCEPT !.phase = p] /\ follower' = follower
      BY <2>1, <1>3
  <2>3. Turns(p)
      BY <2>2, TurnsShape DEF Phases
  <2> QED
      BY <2>3, <1>1
<1> QED
    BY <1>2, <1>3 DEF AlignAtBound, Later

----------------------------------------------------------------------------
(***************************************************************************)
(* The exchange and its stream.                                            *)
(***************************************************************************)

\* A change: it is sent, or it is not because there is no stream to send it on, or
\* because the book, which shows it, has not been sent.
LEMMA ChangeShape ==
    ASSUME Types, NEW s \in Levels, Change(s)
    PROVE  /\ Market < MaxChanges /\ faults' \in 0..MaxFaults /\ UNCHANGED <<rules, mail, listener, follower>>
           /\ \E b \in Books : history' = Append(history, b) /\ MayBecome(b)
           /\ \/ /\ socket.up
                 /\ \E m \in Msg : m.kind = "change" /\ m.k = Market + 1 /\ Sends(m)
              \/ /\ socket' = socket /\ ~(socket.up /\ socket.booked)
                 /\ socket.up => rules.subscribe.align \notin {"search", "buffer"}
<1>1. /\ Market \in 0..MaxChanges /\ Market < MaxChanges /\ Market + 1 \in 0..MaxChanges
      /\ UNCHANGED <<rules, mail, listener, follower>> /\ socket \in SocketType
    BY BooksOf, VenueBounds DEF Change, Types
<1>2. faults' \in 0..MaxFaults
    BY VenueBounds DEF Types, Change, Fault, NoFault
<1>3. \E b \in Books : history' = Append(history, b) /\ MayBecome(b)
  <2>1. PICK v \in {0, Market + 1} :
          LET book == [Book(Market) EXCEPT ![s] = v] IN
          MayBecome(book) /\ history' = Append(history, book)
      BY DEF Change
  <2>2. Book(Market) \in Books /\ v \in 0..MaxChanges
      BY <1>1, BooksOf, VenueBounds
  <2>3. [Book(Market) EXCEPT ![s] = v] \in Books
      BY <2>2 DEF Books
  <2> QED
      BY <2>1, <2>3
<1>4. CASE socket.up /\ Sent("change", Market + 1)
  <2>1. \E m \in Msg : m.kind = "change" /\ m.k = Market + 1 /\ Sends(m)
      BY <1>1, <1>4, SentShape DEF Kinds
  <2> QED
      BY <2>1, <1>1, <1>2, <1>3, <1>4
<1>5. CASE /\ socket' = socket /\ ~(socket.up /\ socket.booked)
           /\ socket.up => rules.subscribe.align \notin {"search", "buffer"}
    BY <1>1, <1>2, <1>3, <1>5
<1> QED
    BY <1>4, <1>5 DEF Change

\* The book, a trade, the answer to a ping.
LEMMA SendShape ==
    ASSUME Types, SendBook \/ SendOther
    PROVE  /\ socket.up /\ UNCHANGED <<rules, history, mail, listener, follower>>
           /\ faults' \in 0..MaxFaults
           /\ \E m \in Msg : /\ Sends(m)
                             /\ \/ m.kind = "book" /\ m.k = Market /\ ~socket.booked
                                \/ m.kind \in {"trade", "pong"} /\ m.k = 0
<1>1. Market \in 0..MaxChanges /\ 0 \in 0..MaxChanges
    BY BooksOf, VenueBounds
<1>2. /\ socket.up /\ UNCHANGED <<rules, history, mail, listener, follower>>
      /\ faults' \in 0..MaxFaults
    BY VenueBounds DEF SendBook, SendOther, Fault, NoFault, Types
<1>3. CASE Sent("book", Market) /\ ~socket.booked
  <2>1. PICK m \in Msg : m.kind = "book" /\ m.k = Market /\ Sends(m)
      BY <1>1, <1>3, SentShape DEF Kinds
  <2> QED
      BY <2>1, <1>2, <1>3
<1>4. CASE Sent("trade", 0)
  <2>1. PICK m \in Msg : m.kind = "trade" /\ m.k = 0 /\ Sends(m)
      BY <1>1, <1>4, SentShape DEF Kinds
  <2> QED
      BY <2>1, <1>2
<1>5. CASE Sent("pong", 0)
  <2>1. PICK m \in Msg : m.kind = "pong" /\ m.k = 0 /\ Sends(m)
      BY <1>1, <1>5, SentShape DEF Kinds
  <2> QED
      BY <2>1, <1>2
<1> QED
    BY <1>3, <1>4, <1>5 DEF SendBook, SendOther

\* A change that is lost: never the last one, nor where nothing is numbered.
Loses(i) ==
    /\ socket.q[i].kind = "change" /\ socket.q[i].k # MaxChanges
    /\ socket' \in SocketType /\ socket'.up = socket.up /\ socket'.booked = socket.booked
    /\ socket'.sent = socket.sent /\ socket'.q \in Seq(Msg)
    /\ Len(socket'.q) = Len(socket.q) - 1
    /\ \A j \in 1..(i - 1) : socket'.q[j] = socket.q[j]
    /\ \A j \in i..(Len(socket.q) - 1) : socket'.q[j] = socket.q[j + 1]

\* What ChangeLost does.
LEMMA LostShape ==
    ASSUME Types, ChangeLost
    PROVE  /\ UNCHANGED <<rules, history, mail, listener, follower>> /\ faults' \in 0..MaxFaults
           /\ rules.onMessage.order # "none"
           /\ ~(listener.phase = "align" /\ rules.subscribe.align = "next")
           /\ socket.q \in Seq(Msg) /\ \E i \in 1..Len(socket.q) : Loses(i)
<1>1. socket \in SocketType /\ socket.q \in Seq(Msg)
    BY DEF Types, SocketType
<1>2. /\ UNCHANGED <<rules, history, mail, listener, follower>> /\ faults' \in 0..MaxFaults
      /\ rules.onMessage.order # "none"
      /\ ~(listener.phase = "align" /\ rules.subscribe.align = "next")
    BY VenueBounds DEF ChangeLost, Fault, Types
<1>3. PICK i \in 1..Len(socket.q) :
        /\ socket.q[i].kind = "change" /\ socket.q[i].k # MaxChanges
        /\ socket' = [socket EXCEPT !.q = RemoveAt(socket.q, i)]
    BY DEF ChangeLost
<1>4. PICK q \in Seq(Msg) :
        /\ q = RemoveAt(socket.q, i) /\ Len(q) = Len(socket.q) - 1
        /\ \A j \in 1..(i - 1) : q[j] = socket.q[j]
        /\ \A j \in i..(Len(socket.q) - 1) : q[j] = socket.q[j + 1]
  <2>1. PICK p \in Seq(Msg) : p = socket.q
      BY <1>1
  <2>2. i \in 1..Len(p)
      BY <2>1
  <2>3. /\ RemoveAt(p, i) \in Seq(Msg) /\ Len(RemoveAt(p, i)) = Len(p) - 1
        /\ \A j \in 1..(i - 1) : RemoveAt(p, i)[j] = p[j]
        /\ \A j \in i..(Len(p) - 1) : RemoveAt(p, i)[j] = p[j + 1]
      BY <2>2, Removal
  <2> QED
      BY <2>1, <2>3
<1>5. /\ socket' \in SocketType /\ socket'.up = socket.up /\ socket'.booked = socket.booked
      /\ socket'.sent = socket.sent /\ socket'.q = q
    BY <1>1, <1>3, <1>4 DEF SocketType
<1>6. Loses(i)
    BY <1>3, <1>4, <1>5 DEF Loses
<1> QED
    BY <1>1, <1>2, <1>6

\* Connecting makes foreign what is in the mailbox.
LEMMA ConnectShape ==
    ASSUME Types, Connect
    PROVE  /\ listener.phase = "connect" /\ UNCHANGED <<rules, history, follower, faults>>
           /\ socket' \in SocketType /\ socket'.up /\ socket'.booked = FromRequest
           /\ socket'.sent = 0 /\ socket'.q = <<>>
           /\ mail' \in Seq(Msg) /\ Len(mail') = Len(mail)
           /\ \A i \in 1..Len(mail) : /\ mail'[i].foreign /\ mail'[i].kind = mail[i].kind
                                      /\ mail'[i].k = mail[i].k /\ mail'[i].n = mail[i].n
           /\ Turns(IF FromRequest THEN "snapshot" ELSE "align")
<1>1. listener.phase = "connect" /\ UNCHANGED <<rules, history, follower, faults>>
    BY DEF Connect, NoFault
<1>2. PICK b \in BOOLEAN : b = FromRequest
    BY DEF FromRequest
<1>3. socket' = [NoSocket EXCEPT !.up = TRUE, !.booked = b]
    BY <1>2 DEF Connect, FromRequest
<1>4. socket' = [up |-> TRUE, booked |-> b, sent |-> 0, q |-> <<>>]
    BY <1>3 DEF NoSocket
<1>5. <<>> \in Seq(Msg)
    OBVIOUS
<1>6. mail \in Seq(Msg) /\ mail' = [i \in DOMAIN mail |-> [mail[i] EXCEPT !.foreign = TRUE]]
    BY DEF Types, Connect
<1>7. PICK L \in Nat : L = Len(mail) /\ DOMAIN mail = 1..L /\ \A i \in 1..L : mail[i] \in Msg
    BY <1>6
<1>8. ASSUME NEW i \in 1..L
      PROVE  /\ mail'[i] \in Msg /\ mail'[i].foreign /\ mail'[i].kind = mail[i].kind
             /\ mail'[i].k = mail[i].k /\ mail'[i].n = mail[i].n
  <2>1. PICK m \in Msg : m = mail[i]
      BY <1>7
  <2>2. mail'[i] = [m EXCEPT !.foreign = TRUE]
      BY <2>1, <1>6, <1>7
  <2> QED
      BY <2>1, <2>2 DEF Msg
<1>9. mail' \in [1..L -> Msg]
    BY <1>6, <1>7, <1>8
<1>10. mail' \in Seq(Msg) /\ Len(mail') = L
    BY <1>9
<1>11. PICK p \in {"snapshot", "align"} : p = IF FromRequest THEN "snapshot" ELSE "align"
    OBVIOUS
<1>12. listener' = [listener EXCEPT !.phase = p]
    BY <1>11 DEF Connect, FromRequest
<1>13. Turns(p)
    BY <1>1, <1>12, TurnsShape DEF Phases
<1> QED
    BY <1>1, <1>2, <1>4, <1>5, <1>7, <1>8, <1>10, <1>11, <1>13 DEF SocketType

\* The listener stops what it does; its mailbox stays.
Quits ==
    /\ UNCHANGED <<rules, history, mail>> /\ faults' \in 0..MaxFaults
    /\ Turns("failed") \/ Turns("connect")
    /\ socket' \in {socket, NoSocket}

\* A closed socket.
LEMMA NoSocketShape ==
    /\ NoSocket \in SocketType /\ NoSocket.up = FALSE /\ NoSocket.booked = FALSE /\ NoSocket.q = <<>>
    /\ NoSocket.sent = 0
<1>1. <<>> \in Seq(Msg)
    OBVIOUS
<1> QED
    BY <1>1 DEF NoSocket, SocketType

\* A listener that fails, is restarted or gives up its socket.
LEMMA QuitShape ==
    ASSUME Types, SubscribeFails \/ Restart \/ CheckSockets PROVE Quits
<1>1. UNCHANGED <<rules, history, mail>> /\ faults' \in 0..MaxFaults /\ listener \in ListenerType
    BY VenueBounds DEF Types, SubscribeFails, Restart, CheckSockets, Fault, NoFault
<1>2. CASE listener' = [listener EXCEPT !.phase = "failed"] /\ UNCHANGED <<socket, follower>>
  <2>1. Turns("failed")
      BY <1>2, TurnsShape DEF Phases
  <2> QED
      BY <2>1, <1>1, <1>2 DEF Quits
<1>3. CASE listener' = [listener EXCEPT !.phase = "connect"] /\ UNCHANGED <<socket, follower>>
  <2>1. Turns("connect")
      BY <1>3, TurnsShape DEF Phases
  <2> QED
      BY <2>1, <1>1, <1>3 DEF Quits
<1>4. CASE /\ listener' = [listener EXCEPT !.phase = "connect", !.held = NoLevels, !.crossings = 0]
           /\ socket' = NoSocket /\ follower' = follower
  <2>1. NoLevels \in Deltas /\ 0 \in 0..Patience
      BY Updates, VenueBounds
  <2>2. Turns("connect")
      BY <2>1, <1>1, <1>4 DEF Turns, ListenerType, Phases
  <2> QED
      BY <2>2, <1>1, <1>4 DEF Quits
<1> QED
    BY <1>2, <1>3, <1>4 DEF SubscribeFails, Restart, CheckSockets, Subscribe

\* The socket fails, or is closed with the message that is read.
Disconnects ==
    /\ socket' = NoSocket /\ UNCHANGED <<rules, history, listener, follower>> /\ faults' \in 0..MaxFaults
    /\ mail' = mail \/ (mail # <<>> /\ mail' = Tail(mail))

\* What SocketFails does.
LEMMA SocketFailsShape ==
    ASSUME Types, SocketFails PROVE Disconnects
BY VenueBounds DEF Types, SocketFails, Disconnects, Fault

\* What ReadMessage does.
LEMMA ReadMessageShape ==
    ASSUME Types, Stream, ReadMessage
    PROVE  /\ Running /\ ReadsOne /\ mail' = Append(mail, Head(socket.q))
           /\ UNCHANGED <<rules, history, listener, follower, faults>>
<1>1. Running /\ socket.q # <<>> /\ Read /\ mail' = Append(mail, Head(socket.q))
      /\ UNCHANGED <<rules, history, listener, follower, faults>>
    BY DEF ReadMessage, Running, NoFault
<1> QED
    BY <1>1, ReadShape

\* What OnMarketDataRequest does.
LEMMA RequestShape ==
    ASSUME Types, OnMarketDataRequest
    PROVE  /\ Running /\ ~(HoldsBack /\ Crossed(listener.book))
           /\ UNCHANGED <<rules, history, socket, mail, listener, faults>>
           /\ follower' = [follows |-> TRUE, book |-> listener.book]
BY DEF OnMarketDataRequest, Running, NoFault
----------------------------------------------------------------------------
(***************************************************************************)
(* The types, and what the messages name.                                  *)
(***************************************************************************)
Sound == Types /\ Stream

\* What a step that leaves the exchange alone has to keep.
LEMMA SoundFromParts ==
    ASSUME Sound, UNCHANGED <<rules, history>>,
           faults' \in 0..MaxFaults, listener' \in ListenerType,
           follower' \in [follows : BOOLEAN, book : Books],
           mail' \in Seq(Msg), \A i \in 1..Len(mail') : Tells(mail'[i]),
           \/ socket' = socket
           \/ socket' = NoSocket
           \/ ReadsOne
    PROVE  Sound'
<1>1. rules' \in Table /\ Consistent(rules') /\ history' \in Seq(Books) /\ Len(history') \in 1..(MaxChanges + 1)
    BY DEF Sound, Types
<1>2. socket' \in SocketType
    BY NoSocketShape DEF Sound, Types, ReadsOne
<1>3. Types'
    BY <1>1, <1>2 DEF Types
<1>4. (\A i \in 1..Len(mail) : Tells(mail[i]))'
    BY DEF Tells, Market, InMessages
<1>5. /\ ~socket'.up => socket' = NoSocket
      /\ rules'.subscribe.source = "rest" /\ socket'.up => socket'.booked
      /\ \A i \in 1..Len(socket'.q) : Tells(socket'.q[i]) /\ ~socket'.q[i].foreign
  <2>1. CASE socket' = socket
      BY <2>1 DEF Sound, Stream
  <2>2. CASE socket' = NoSocket
    <3>1. Len(socket'.q) = 0 /\ socket'.up = FALSE
        BY <2>2, NoSocketShape
    <3> QED
        BY <2>2, <3>1
  <2>3. CASE ReadsOne
    <3>1. PICK q \in Seq(Msg) : q = socket.q /\ q # <<>>
        BY <2>3 DEF Sound, Types, SocketType, ReadsOne
    <3>2. socket'.q = Tail(q) /\ Len(Tail(q)) = Len(q) - 1 /\ Len(q) \in Nat
          /\ \A i \in 1..Len(Tail(q)) : Tail(q)[i] = q[i + 1] /\ i + 1 \in 1..Len(q)
        BY <2>3, <3>1 DEF ReadsOne
    <3>3. socket.up
        BY <3>1, NoSocketShape DEF Sound, Stream
    <3>4. \A i \in 1..Len(q) : Tells(q[i]) /\ ~q[i].foreign
        BY <3>1 DEF Sound, Stream
    <3> QED
        BY <2>3, <3>2, <3>3, <3>4 DEF Sound, Stream, ReadsOne
  <2> QED
      BY <2>1, <2>2, <2>3
<1>6. (\A i \in 1..Len(socket.q) : Tells(socket.q[i]) /\ ~socket.q[i].foreign)'
    BY <1>5 DEF Tells, Market, InMessages
<1>7. Stream'
    BY <1>4, <1>5, <1>6 DEF Stream
<1> QED
    BY <1>3, <1>7 DEF Sound

\* What a step of the exchange has to keep.
LEMMA SoundFromExchange ==
    ASSUME Sound, UNCHANGED <<rules, mail, listener, follower>>, faults' \in 0..MaxFaults,
           history' \in Seq(Books), Len(history') \in 1..(MaxChanges + 1), Market' >= Market,
           \/ socket' = socket
           \/ /\ socket.up
              /\ \E m \in Msg : Sends(m) /\ m.k <= Market' /\ (m.kind = "change" => m.k >= 1)
           \/ \E i \in 1..Len(socket.q) : Loses(i)
    PROVE  Sound'
<1>0. /\ socket \in SocketType /\ mail \in Seq(Msg) /\ socket.q \in Seq(Msg)
      /\ Market \in Nat /\ Market' \in Int
  <2>1. Len(history') \in Int /\ Market' = Len(history') - 1
      BY DEF Market
  <2> QED
      BY <2>1, BooksOf DEF Sound, Types, SocketType
<1>1. socket' \in SocketType
    BY <1>0 DEF Sends, Loses
<1>2. Types'
    BY <1>1 DEF Sound, Types
<1>3. (\A i \in 1..Len(mail) : Tells(mail[i]))'
  <2>1. ASSUME NEW i \in 1..Len(mail)
        PROVE  /\ mail[i].k <= Market' /\ (mail[i].kind = "change" => mail[i].k >= 1)
               /\ ~InMessages => mail[i].n = mail[i].k
    <3>1. Tells(mail[i]) /\ mail[i] \in Msg
        BY <1>0 DEF Sound, Stream
    <3> QED
        BY <3>1, <1>0 DEF Tells, Msg
  <2> QED
      BY <2>1 DEF Tells, InMessages
<1>4. \A i \in 1..Len(socket'.q) :
        /\ socket'.q[i].k <= Market' /\ (socket'.q[i].kind = "change" => socket'.q[i].k >= 1)
        /\ ~InMessages => socket'.q[i].n = socket'.q[i].k
        /\ ~socket'.q[i].foreign
  <2>1. ASSUME NEW i \in 1..Len(socket.q)
        PROVE  /\ socket.q[i].k <= Market' /\ (socket.q[i].kind = "change" => socket.q[i].k >= 1)
               /\ ~InMessages => socket.q[i].n = socket.q[i].k
               /\ ~socket.q[i].foreign
    <3>1. Tells(socket.q[i]) /\ socket.q[i] \in Msg /\ ~socket.q[i].foreign
        BY <1>0 DEF Sound, Stream
    <3> QED
        BY <3>1, <1>0, SMTT(30) DEF Tells, Msg
  <2>2. CASE socket' = socket
      BY <2>1, <2>2
  <2>3. ASSUME NEW m \in Msg, Sends(m), m.k <= Market', m.kind = "change" => m.k >= 1
        PROVE  <1>4!:
    <3>1. PICK q \in Seq(Msg) : q = socket.q
        BY <1>0
    <3>2. ~InMessages => m.n = m.k
        BY <2>3 DEF Sends
    <3>3. ~m.foreign /\ socket'.q = Append(q, m)
        BY <2>3, <3>1 DEF Sends
    <3>4. /\ Len(Append(q, m)) = Len(q) + 1 /\ Append(q, m)[Len(q) + 1] = m /\ Len(q) \in Nat
          /\ \A i \in 1..Len(q) : Append(q, m)[i] = q[i]
        BY <3>1
    <3>5. ASSUME NEW i \in 1..Len(socket'.q), i # Len(q) + 1 PROVE i \in 1..Len(q) /\ socket'.q[i] = q[i]
        BY <3>3, <3>4, <3>5
    <3>6. socket'.q[Len(q) + 1] = m
        BY <3>3, <3>4
    <3> QED
        BY <2>1, <2>3, <3>1, <3>2, <3>3, <3>5, <3>6
  <2>4. ASSUME NEW i \in 1..Len(socket.q), Loses(i)
        PROVE  <1>4!:
    <3>1. Len(socket.q) \in Nat /\ Len(socket'.q) = Len(socket.q) - 1
        BY <1>0, <2>4 DEF Loses
    <3>2. ASSUME NEW j \in 1..Len(socket'.q) PROVE \E l \in 1..Len(socket.q) : socket'.q[j] = socket.q[l]
      <4>1. CASE j < i
          BY <4>1, <3>1, <2>4 DEF Loses
      <4>2. CASE j >= i
        <5>1. j \in i..(Len(socket.q) - 1) /\ j + 1 \in 1..Len(socket.q)
            BY <4>2, <3>1
        <5> QED
            BY <5>1, <2>4 DEF Loses
      <4> QED
          BY <4>1, <4>2
    <3> QED
        BY <2>1, <3>2
  <2> QED
      BY <2>2, <2>3, <2>4
<1>5. /\ ~socket'.up => socket' = NoSocket
      /\ rules'.subscribe.source = "rest" /\ socket'.up => socket'.booked
  <2>1. ~socket.up => \A i : i \notin 1..Len(socket.q)
    <3>1. ~socket.up => Len(socket.q) = 0
        BY NoSocketShape DEF Sound, Stream
    <3> QED
        BY <3>1
  <2> QED
      BY <2>1 DEF Sound, Stream, Sends, Loses
<1>6. (\A i \in 1..Len(socket.q) : Tells(socket.q[i]) /\ ~socket.q[i].foreign)'
    BY <1>4 DEF Tells, InMessages
<1>7. Stream'
    BY <1>3, <1>5, <1>6 DEF Stream
<1> QED
    BY <1>2, <1>7 DEF Sound

\* What is left of the mailbox, or what is added to it, names what it named.
LEMMA MailKeeps ==
    ASSUME Sound
    PROVE  /\ mail # <<>> => Tail(mail) \in Seq(Msg) /\ \A i \in 1..Len(Tail(mail)) : Tells(Tail(mail)[i])
           /\ \A m \in Msg : Tells(m) =>
                 Append(mail, m) \in Seq(Msg) /\ \A i \in 1..Len(Append(mail, m)) : Tells(Append(mail, m)[i])
<1>1. PICK p \in Seq(Msg) : p = mail
    BY DEF Sound, Types
<1>2. \A i \in 1..Len(p) : Tells(p[i])
    BY <1>1 DEF Sound, Stream
<1>3. ASSUME p # <<>> PROVE Tail(p) \in Seq(Msg) /\ \A i \in 1..Len(Tail(p)) : Tells(Tail(p)[i])
  <2>1. Tail(p) \in Seq(Msg) /\ \A i \in 1..Len(Tail(p)) : Tail(p)[i] = p[i + 1] /\ i + 1 \in 1..Len(p)
      BY <1>3
  <2> QED
      BY <2>1, <1>2
<1>4. ASSUME NEW m \in Msg, Tells(m)
      PROVE  Append(p, m) \in Seq(Msg) /\ \A i \in 1..Len(Append(p, m)) : Tells(Append(p, m)[i])
  <2>1. /\ Append(p, m) \in Seq(Msg) /\ Len(Append(p, m)) = Len(p) + 1 /\ Len(p) \in Nat
        /\ Append(p, m)[Len(p) + 1] = m /\ \A i \in 1..Len(p) : Append(p, m)[i] = p[i]
      OBVIOUS
  <2>2. ASSUME NEW i \in 1..Len(Append(p, m)) PROVE i \in 1..Len(p) \/ i = Len(p) + 1
      BY <2>1
  <2> QED
      BY <2>1, <2>2, <1>2, <1>4
<1> QED
    BY <1>1, <1>3, <1>4

\* The steps of the exchange keep the types.
LEMMA SoundExchange ==
    ASSUME Sound, (\E s \in Levels : Change(s)) \/ SendBook \/ SendOther \/ ChangeLost \/ SocketFails
    PROVE  Sound'
<1>1. Types /\ Stream /\ Market \in 0..MaxChanges /\ history \in Seq(Books) /\ Len(history) \in 1..(MaxChanges + 1)
    BY BooksOf DEF Sound, Types
<1>2. ASSUME NEW s \in Levels, Change(s) PROVE Sound'
  <2>1. PICK b \in Books : history' = Append(history, b)
      BY <1>1, <1>2, ChangeShape
  <2>2. /\ Market < MaxChanges /\ faults' \in 0..MaxFaults /\ UNCHANGED <<rules, mail, listener, follower>>
        /\ \/ socket.up /\ \E m \in Msg : m.kind = "change" /\ m.k = Market + 1 /\ Sends(m)
           \/ socket' = socket
      BY <1>1, <1>2, ChangeShape
  <2>3. history' \in Seq(Books) /\ Len(history') \in 1..(MaxChanges + 1) /\ Market' = Market + 1
      BY <1>1, <2>1, <2>2, HistoryGrows
  <2>4. Market' >= Market /\ Market + 1 <= Market' /\ Market + 1 >= 1
      BY <2>3, <1>1
  <2>5. CASE socket' = socket
      BY <2>2, <2>3, <2>4, <2>5, SoundFromExchange
  <2>6. CASE socket.up /\ \E m \in Msg : m.kind = "change" /\ m.k = Market + 1 /\ Sends(m)
    <3>1. \E m \in Msg : Sends(m) /\ m.k <= Market' /\ (m.kind = "change" => m.k >= 1)
        BY <2>4, <2>6
    <3> QED
        BY <3>1, <2>2, <2>3, <2>4, <2>6, SoundFromExchange
  <2> QED
      BY <2>2, <2>5, <2>6
<1>3. history' = history => Market' = Market /\ Market' >= Market
    BY <1>1 DEF Market
<1>4. CASE SendBook \/ SendOther
  <2>1. /\ socket.up /\ UNCHANGED <<rules, history, mail, listener, follower>>
        /\ faults' \in 0..MaxFaults
      BY <1>1, <1>4, SendShape
  <2>2. PICK m \in Msg : /\ Sends(m)
                         /\ \/ m.kind = "book" /\ m.k = Market
                            \/ m.kind \in {"trade", "pong"} /\ m.k = 0
      BY <1>1, <1>4, SendShape
  <2>3. m.k <= Market' /\ (m.kind = "change" => m.k >= 1)
      BY <1>1, <1>3, <2>1, <2>2
  <2> QED
      BY <1>1, <1>3, <2>1, <2>2, <2>3, SoundFromExchange
<1>5. CASE ChangeLost
  <2>1. /\ UNCHANGED <<rules, history, mail, listener, follower>> /\ faults' \in 0..MaxFaults
        /\ \E i \in 1..Len(socket.q) : Loses(i)
      BY <1>1, <1>5, LostShape
  <2> QED
      BY <1>1, <1>3, <2>1, SoundFromExchange
<1>6. CASE SocketFails
  <2>1. socket' = NoSocket /\ UNCHANGED <<rules, history, listener, follower>> /\ faults' \in 0..MaxFaults
      BY <1>1, <1>6, SocketFailsShape DEF Disconnects
  <2>2. mail' = mail
      BY <1>6 DEF SocketFails
  <2> QED
      BY <2>1, <2>2, SoundFromParts DEF Sound, Types, Stream
<1> QED
    BY <1>2, <1>4, <1>5, <1>6

\* The steps of subscribeInstrument keep the types.
LEMMA SoundSubscribing ==
    ASSUME Sound, NumberedInv,
           Connect \/ TakeSnapshot \/ AlignStream \/ AlignRest \/ AlignAtBound \/ SubscribeFails \/ Restart
    PROVE  Sound'
<1>1. /\ Types /\ Stream /\ listener \in ListenerType /\ faults \in 0..MaxFaults /\ mail \in Seq(Msg)
      /\ \A i \in 1..Len(mail) : Tells(mail[i])
      /\ follower \in [follows : BOOLEAN, book : Books]
    BY DEF Sound, Types, Stream
<1>2. [follower EXCEPT !.follows = FALSE] \in [follows : BOOLEAN, book : Books]
    BY <1>1
<1>3. \A k, n : Begins(k, n) => listener' \in ListenerType /\ follower' \in [follows : BOOLEAN, book : Books]
    BY <1>2 DEF Begins
<1>4. \A p : Turns(p) => listener' \in ListenerType /\ follower' \in [follows : BOOLEAN, book : Books]
    BY <1>1 DEF Turns
<1>5. CASE Connect
  <2>1. /\ UNCHANGED <<rules, history, faults>>
        /\ socket' \in SocketType /\ socket'.up /\ socket'.booked = FromRequest
        /\ socket'.q = <<>> /\ mail' \in Seq(Msg)
        /\ listener' \in ListenerType /\ follower' \in [follows : BOOLEAN, book : Books]
      BY <1>1, <1>4, <1>5, ConnectShape
  <2>2. Types'
      BY <1>1, <2>1 DEF Types
  <2>3. (\A i \in 1..Len(mail) : Tells(mail[i]))'
    <3>1. Len(mail') = Len(mail) /\ \A i \in 1..Len(mail) : /\ mail'[i].kind = mail[i].kind
                                      /\ mail'[i].k = mail[i].k /\ mail'[i].n = mail[i].n
        BY <1>1, <1>5, ConnectShape
    <3>2. Market' = Market /\ rules' = rules
        BY <2>1 DEF Market
    <3> QED
        BY <1>1, <3>1, <3>2 DEF Tells, InMessages
  <2>4. Stream'
    <3>1. \A i : i \notin 1..Len(<<>>)
        OBVIOUS
    <3> QED
        BY <3>1, <2>1, <2>3 DEF Stream, FromRequest
  <2> QED
      BY <2>2, <2>4 DEF Sound
<1>6. CASE TakeSnapshot
  <2>1. /\ UNCHANGED <<rules, history, socket, mail>> /\ faults' \in 0..MaxFaults
        /\ listener' \in ListenerType /\ follower' \in [follows : BOOLEAN, book : Books]
      BY <1>1, <1>3, <1>4, <1>6, SnapshotShape
  <2> QED
      BY <1>1, <2>1, SoundFromParts
<1>7. CASE AlignStream
  <2>1. /\ UNCHANGED <<rules, history, faults>> /\ ReadsOne
        /\ listener' \in ListenerType /\ follower' \in [follows : BOOLEAN, book : Books]
        /\ mail' = mail \/ mail' = Append(mail, Head(socket.q))
      BY <1>1, <1>3, <1>4, <1>7, AlignStreamShape
  <2>2. Head(socket.q) \in Msg /\ Tells(Head(socket.q))
      BY <2>1 DEF ReadsOne
  <2>3. mail' \in Seq(Msg) /\ \A i \in 1..Len(mail') : Tells(mail'[i])
      BY <1>1, <2>1, <2>2, MailKeeps
  <2> QED
      BY <1>1, <2>1, <2>3, SoundFromParts
<1>8. CASE AlignRest
  <2>1. /\ UNCHANGED <<rules, history, mail, faults>> /\ (socket' = socket \/ ReadsOne)
        /\ listener' \in ListenerType /\ follower' \in [follows : BOOLEAN, book : Books]
      BY <1>1, <1>3, <1>4, <1>8, AlignRestShape
  <2> QED
      BY <1>1, <2>1, SoundFromParts
<1>9. CASE AlignAtBound
  <2>1. /\ UNCHANGED <<rules, history, socket, mail, faults>>
        /\ listener' \in ListenerType /\ follower' \in [follows : BOOLEAN, book : Books]
      BY <1>1, <1>3, <1>4, <1>9, AtBoundShape
  <2> QED
      BY <1>1, <2>1, SoundFromParts
<1>10. CASE SubscribeFails \/ Restart
  <2>1. Quits
      BY <1>1, <1>10, QuitShape
  <2>2. /\ UNCHANGED <<rules, history, mail>> /\ faults' \in 0..MaxFaults
        /\ listener' \in ListenerType /\ follower' \in [follows : BOOLEAN, book : Books]
        /\ socket' = socket \/ socket' = NoSocket
      BY <2>1, <1>4 DEF Quits
  <2> QED
      BY <1>1, <2>2, SoundFromParts
<1> QED
    BY <1>5, <1>6, <1>7, <1>8, <1>9, <1>10

\* The steps of a listener that runs keep the types.
LEMMA SoundRunning ==
    ASSUME Sound, ReadMessage \/ OnWebsocketMessage \/ CheckSockets \/ OnMarketDataRequest
    PROVE  Sound'
<1>1. /\ Types /\ Stream /\ listener \in ListenerType /\ faults \in 0..MaxFaults /\ mail \in Seq(Msg)
      /\ \A i \in 1..Len(mail) : Tells(mail[i])
      /\ follower \in [follows : BOOLEAN, book : Books] /\ listener.book \in Books /\ listener.held \in Deltas
    BY DEF Sound, Types, Stream, ListenerType
<1>2. CASE ReadMessage
  <2>1. /\ ReadsOne /\ mail' = Append(mail, Head(socket.q))
        /\ UNCHANGED <<rules, history, listener, follower, faults>>
      BY <1>1, <1>2, ReadMessageShape
  <2>2. Head(socket.q) \in Msg /\ Tells(Head(socket.q))
      BY <2>1 DEF ReadsOne
  <2>3. mail' \in Seq(Msg) /\ \A i \in 1..Len(mail') : Tells(mail'[i])
      BY <2>1, <2>2, MailKeeps
  <2> QED
      BY <1>1, <2>1, <2>3, SoundFromParts
<1>3. CASE OnWebsocketMessage
  <2>1. /\ Running /\ mail # <<>> /\ mail' = Tail(mail) /\ UNCHANGED <<rules, history, faults>>
        /\ Head(mail) \in Msg /\ Tells(Head(mail))
        /\ \/ Skips(Head(mail)) \/ GivesUp
           \/ socket' = NoSocket /\ UNCHANGED <<listener, follower>>
           \/ Goes(Head(mail))
           \/ Numbers(Head(mail))
      BY <1>1, <1>3, WebsocketShape
  <2>2. mail' \in Seq(Msg) /\ \A i \in 1..Len(mail') : Tells(mail'[i])
      BY <2>1, MailKeeps
  <2>3. listener' \in ListenerType /\ (socket' = socket \/ socket' = NoSocket)
      BY <1>1, <2>1 DEF Skips, GivesUp, Goes, Numbers
  <2>4. follower' \in [follows : BOOLEAN, book : Books]
    <3>1. CASE Goes(Head(mail)) /\ Post(Update(listener.held, Content(Head(mail).k)))
      <4>1. Content(Head(mail).k) \in Deltas
          BY <1>1, <2>1, <3>1, ReadsShape DEF Goes
      <4>2. PICK d \in Deltas : d = Update(listener.held, Content(Head(mail).k))
          BY <4>1, <1>1, Updates
      <4>3. PICK b \in Books : b = Update(follower.book, d)
          BY <4>2, <1>1, Updates
      <4>4. follower' = IF follower.follows THEN [follower EXCEPT !.book = b] ELSE follower
          BY <3>1, <4>2, <4>3 DEF Post
      <4> QED
          BY <4>4, <1>1
    <3>2. CASE follower' = follower
        BY <1>1, <3>2
    <3> QED
        BY <2>1, <3>1, <3>2 DEF Skips, GivesUp, Goes, Numbers
  <2> QED
      BY <1>1, <2>1, <2>2, <2>3, <2>4, SoundFromParts
<1>4. CASE CheckSockets
  <2>1. Quits
      BY <1>1, <1>4, QuitShape
  <2>2. /\ UNCHANGED <<rules, history, mail>> /\ faults' \in 0..MaxFaults
        /\ listener' \in ListenerType /\ follower' \in [follows : BOOLEAN, book : Books]
        /\ socket' = socket \/ socket' = NoSocket
      BY <2>1, <1>1 DEF Quits, Turns
  <2> QED
      BY <1>1, <2>2, SoundFromParts
<1>5. CASE OnMarketDataRequest
  <2>1. /\ UNCHANGED <<rules, history, socket, mail, listener, faults>>
        /\ follower' = [follows |-> TRUE, book |-> listener.book]
      BY <1>1, <1>5, RequestShape
  <2>2. follower' \in [follows : BOOLEAN, book : Books]
      BY <2>1, <1>1
  <2> QED
      BY <1>1, <2>1, <2>2, SoundFromParts
<1> QED
    BY <1>2, <1>3, <1>4, <1>5

\* Every step keeps the types.
LEMMA SoundStep ==
    ASSUME Sound, NumberedInv, [Next]_vars PROVE Sound'
<1>1. CASE UNCHANGED vars
  <2>1. Types'
      BY <1>1 DEF Sound, Types, vars
  <2>2. Stream'
      BY <1>1 DEF Sound, Stream, Tells, Market, InMessages, vars
  <2> QED
      BY <2>1, <2>2 DEF Sound
<1>2. CASE (\E s \in Levels : Change(s)) \/ SendBook \/ SendOther \/ ChangeLost \/ SocketFails
    BY <1>2, SoundExchange
<1>3. CASE Connect \/ TakeSnapshot \/ AlignStream \/ AlignRest \/ AlignAtBound \/ SubscribeFails \/ Restart
    BY <1>3, SoundSubscribing
<1>4. CASE ReadMessage \/ OnWebsocketMessage \/ CheckSockets \/ OnMarketDataRequest
    BY <1>4, SoundRunning
<1> QED
    BY <1>1, <1>2, <1>3, <1>4 DEF Next

\* The types at the start.
LEMMA SoundInit ==
    ASSUME Init PROVE Sound
<1>1. PICK v \in Names : rules = Venue[v]
    BY DEF Init
<1>2. rules \in Table /\ Consistent(rules)
    BY <1>1, TableSound, VenueBounds
<1>3. Empty \in Books /\ NoLevels \in Deltas /\ 0 \in 0..Patience /\ 0 \in 0..MaxFaults /\ MaxChanges \in Nat
    BY Updates, VenueBounds
<1>4. history \in Seq(Books) /\ Len(history) \in 1..(MaxChanges + 1)
  <2>1. <<Empty>> \in Seq(Books) /\ Len(<<Empty>>) = 1
      BY <1>3
  <2> QED
      BY <2>1, <1>3 DEF Init
<1>5. listener \in ListenerType /\ follower \in [follows : BOOLEAN, book : Books] /\ faults \in 0..MaxFaults
    BY <1>3 DEF Init, ListenerType, Phases
<1>6. mail = <<>> /\ mail \in Seq(Msg) /\ socket = NoSocket /\ socket \in SocketType
  <2>1. <<>> \in Seq(Msg)
      OBVIOUS
  <2> QED
      BY <2>1, NoSocketShape DEF Init
<1>7. Types
    BY <1>2, <1>4, <1>5, <1>6 DEF Types
<1>8. Stream
  <2>1. (\A i : i \notin 1..Len(<<>>)) /\ socket.q = <<>> /\ socket.up = FALSE
      BY <1>6, NoSocketShape
  <2> QED
      BY <2>1, <1>6 DEF Stream
<1> QED
    BY <1>7, <1>8 DEF Sound

----------------------------------------------------------------------------
(***************************************************************************)
(* The follower.                                                           *)
(***************************************************************************)

\* Nothing is said of a listener that does not run.
LEMMA FollowerKeeps ==
    ASSUME FollowerInv, UNCHANGED <<rules, history, follower>>,
           listener' = listener \/ listener'.phase # "running"
    PROVE  FollowerInv'
<1>1. CASE listener' = listener
    BY <1>1 DEF FollowerInv, Running, HoldsBack, Crossed, Update
<1>2. CASE listener'.phase # "running"
    BY <1>2 DEF FollowerInv, Running, HoldsBack, Crossed, Update
<1> QED
    BY <1>1, <1>2

\* A listener that starts has one of the exchange's books, and nobody follows it yet.
LEMMA FollowerBegins ==
    ASSUME Sound, FollowerInv, UNCHANGED <<rules, history>>, NEW k, NEW n, Begins(k, n)
    PROVE  FollowerInv'
<1>1. PICK b \in Books : b = Book(k) /\ k \in 0..Market
    BY BooksOf DEF Begins, Sound
<1>2. ~HoldsBack => ~Crossed(b)
  <2>1. PICK L \in Nat : L = Len(history) /\ Market = L - 1
      BY DEF Sound, Types, Market
  <2>2. k + 1 \in 1..Len(history)
      BY <2>1, <1>1
  <2> QED
      BY <2>2, <1>1 DEF FollowerInv, Book
<1>3. /\ listener'.phase = "running" /\ listener'.book = b
      /\ rules.subscribe.clears => listener'.held = NoLevels
      /\ follower'.follows = FALSE
    BY <1>1 DEF Begins, Sound, Types
<1>4. ~HoldsBack' => \A i \in 1..Len(history') : ~Crossed(history'[i])
    BY DEF FollowerInv, HoldsBack
<1>5. ~HoldsBack' => ~Crossed(listener'.book)
    BY <1>2, <1>3 DEF HoldsBack
<1>6. rules' = rules
    OBVIOUS
<1> QED
    BY <1>3, <1>4, <1>5, <1>6 DEF FollowerInv, Running, Crossed

\* What the listener posts brings a follower from the listener's old book to the new one.
LEMMA FollowerGoes ==
    ASSUME Sound, FollowerInv, Running, UNCHANGED <<rules, history>>, NEW m \in Msg, Tells(m), Goes(m)
    PROVE  FollowerInv'
<1>1. /\ Types /\ listener.book \in Books /\ listener.held \in Deltas /\ follower.book \in Books
      /\ follower \in [follows : BOOLEAN, book : Books]
    BY DEF Sound, Types, ListenerType
<1>2. PICK c \in Deltas, d \in Deltas : c = Content(m.k) /\ d = Update(listener.held, c)
  <2>1. Content(m.k) \in Deltas
      BY <1>1, ReadsShape DEF Goes
  <2> QED
      BY <2>1, <1>1, Updates
<1>3. PICK b \in Books : b = Update(listener.book, c)
    BY <1>1, <1>2, Updates
<1>4. listener'.phase = "running" /\ listener'.book = b
    BY <1>2, <1>3 DEF Goes
<1>5. \/ ~Crossed(b) /\ listener'.held = NoLevels /\ Post(d)
      \/ Crossed(b) /\ HoldsBack /\ listener'.held = d /\ follower' = follower
    BY <1>2, <1>4 DEF Goes
<1>6. rules.subscribe.clears /\ follower.follows => b = Update(follower.book, d)
  <2>1. rules.subscribe.clears /\ follower.follows => listener.book = Update(follower.book, listener.held)
      BY DEF FollowerInv
  <2>2. PICK f \in Books, h \in Deltas : f = follower.book /\ h = listener.held
      BY <1>1
  <2>3. Update(Update(f, h), c) = Update(f, Update(h, c))
      BY Updates
  <2> QED
      BY <2>1, <2>2, <2>3, <1>2, <1>3
<1>7. CASE ~Crossed(b) /\ listener'.held = NoLevels /\ Post(d)
  <2>1. rules.subscribe.clears /\ follower'.follows => follower'.book = b
    <3>1. CASE follower.follows
      <4>1. PICK u : u = Update(follower.book, d)
          OBVIOUS
      <4>2. follower' = [follower EXCEPT !.book = u]
          BY <3>1, <4>1, <1>7 DEF Post
      <4>3. follower'.book = u
          BY <4>2, <1>1
      <4> QED
          BY <4>1, <4>3, <3>1, <1>6
    <3>2. CASE ~follower.follows
        BY <3>2, <1>7 DEF Post
    <3> QED
        BY <3>1, <3>2
  <2>2. Update(b, NoLevels) = b
      BY Updates
  <2>3. rules.subscribe.clears /\ follower'.follows =>
            follower'.book = b /\ b = Update(follower'.book, listener'.held)
      BY <2>1, <2>2, <1>7
  <2>4. PICK f, h : f = follower' /\ h = listener'.held
      OBVIOUS
  <2>5. /\ rules.subscribe.clears /\ f.follows => b = Update(f.book, h) /\ ~Crossed(f.book)
        /\ h = NoLevels
      BY <2>3, <2>4, <1>7
  <2>6. ~HoldsBack' => \A i \in 1..Len(history') : ~Crossed(history'[i])
      BY DEF FollowerInv, HoldsBack
  <2> QED
      BY <2>4, <2>5, <2>6, <1>4, <1>7 DEF FollowerInv, Crossed, Update, NoLevels
<1>8. CASE Crossed(b) /\ HoldsBack /\ listener'.held = d /\ follower' = follower
  <2>1. HoldsBack'
      BY <1>8 DEF HoldsBack
  <2>2. rules.subscribe.clears /\ follower.follows => ~Crossed(follower.book)
      BY DEF FollowerInv
  <2>3. PICK h : h = listener'.held
      OBVIOUS
  <2> QED
      BY <2>1, <2>2, <2>3, <1>4, <1>6, <1>8 DEF FollowerInv, Crossed, Update
<1> QED
    BY <1>5, <1>7, <1>8

\* A follower that is given the book agrees with it.
LEMMA FollowerAsks ==
    ASSUME Sound, FollowerInv, OnMarketDataRequest PROVE FollowerInv'
<1>1. /\ Running /\ ~(HoldsBack /\ Crossed(listener.book))
      /\ UNCHANGED <<rules, history, socket, mail, listener, faults>>
      /\ follower' = [follows |-> TRUE, book |-> listener.book]
    BY RequestShape DEF Sound
<1>2. ~Crossed(listener.book)
    BY <1>1 DEF FollowerInv
<1>3. rules.subscribe.clears => listener.held = NoLevels
    BY <1>1, <1>2 DEF FollowerInv
<1>4. Update(listener.book, NoLevels) = listener.book
    BY Updates DEF Sound, Types, ListenerType
<1>5. follower'.book = listener.book
    BY <1>1
<1>6. rules.subscribe.clears => listener.book = Update(follower'.book, listener.held)
    BY <1>3, <1>4, <1>5
<1> QED
    BY <1>1, <1>2, <1>3, <1>5, <1>6 DEF FollowerInv, Running, HoldsBack, Crossed, Update

\* Every step keeps followers in agreement.
LEMMA FollowerStep ==
    ASSUME Sound, NumberedInv, FollowerInv, [Next]_vars PROVE FollowerInv'
<1>0. Types /\ Stream
    BY DEF Sound
<1>1. CASE UNCHANGED vars
    BY <1>1, FollowerKeeps DEF vars
<1>2. ASSUME NEW s \in Levels, Change(s) PROVE FollowerInv'
  <2>1. PICK b \in Books : history' = Append(history, b) /\ MayBecome(b)
      BY <1>0, <1>2, ChangeShape
  <2>2. Market < MaxChanges /\ UNCHANGED <<rules, mail, listener, follower>>
      BY <1>0, <1>2, ChangeShape
  <2>3. \A i \in 1..Len(history') : history'[i] = b \/ \E j \in 1..Len(history) : history'[i] = history[j]
      BY <1>0, <2>1, <2>2, HistoryGrows
  <2>4. ~HoldsBack => \A i \in 1..Len(history') : ~Crossed(history'[i])
      BY <2>1, <2>3 DEF FollowerInv, MayBecome
  <2>5. HoldsBack' = HoldsBack
      BY <2>2 DEF HoldsBack
  <2> QED
      BY <2>2, <2>4, <2>5 DEF FollowerInv, Running, Crossed, Update
<1>3. CASE SendBook \/ SendOther
    BY <1>0, <1>3, SendShape, FollowerKeeps
<1>4. CASE ChangeLost
    BY <1>0, <1>4, LostShape, FollowerKeeps
<1>5. CASE SocketFails
    BY <1>0, <1>5, SocketFailsShape, FollowerKeeps DEF Disconnects
<1>6. CASE Connect
  <2>1. UNCHANGED <<rules, history, follower>> /\ Turns(IF FromRequest THEN "snapshot" ELSE "align")
      BY <1>0, <1>6, ConnectShape
  <2> QED
      BY <2>1, FollowerKeeps DEF Turns
<1>7. CASE TakeSnapshot
  <2>1. UNCHANGED <<rules, history>> /\ (Begins(Market, Market) \/ Turns("align"))
      BY <1>0, <1>7, SnapshotShape
  <2> QED
      BY <2>1, FollowerKeeps, FollowerBegins DEF Turns
<1>8. CASE AlignStream
  <2>1. /\ UNCHANGED <<rules, history>>
        /\ \/ Begins(Head(socket.q).k, Head(socket.q).n) \/ Turns("failed") \/ UNCHANGED <<listener, follower>>
      BY <1>0, <1>8, AlignStreamShape
  <2> QED
      BY <2>1, FollowerKeeps, FollowerBegins DEF Turns
<1>9. CASE AlignRest
  <2>1. /\ UNCHANGED <<rules, history>>
        /\ \/ Begins(Head(socket.q).k, Head(socket.q).k) \/ Turns("failed") \/ Turns("snapshot")
           \/ UNCHANGED <<listener, follower>>
      BY <1>0, <1>9, AlignRestShape
  <2> QED
      BY <2>1, FollowerKeeps, FollowerBegins DEF Turns
<1>10. CASE AlignAtBound
  <2>1. UNCHANGED <<rules, history>> /\ (Begins(Market, Market) \/ \E p \in {"snapshot", "failed"} : Turns(p))
      BY <1>0, <1>10, AtBoundShape
  <2> QED
      BY <2>1, FollowerKeeps, FollowerBegins DEF Turns
<1>11. CASE SubscribeFails \/ Restart \/ CheckSockets
    BY <1>0, <1>11, QuitShape, FollowerKeeps DEF Quits, Turns
<1>12. CASE ReadMessage
    BY <1>0, <1>12, ReadMessageShape, FollowerKeeps
<1>13. CASE OnWebsocketMessage
  <2>1. PICK m : m = Head(mail)
      OBVIOUS
  <2>2. /\ Running /\ UNCHANGED <<rules, history>> /\ m \in Msg /\ Tells(m)
        /\ \/ Skips(m) \/ GivesUp \/ UNCHANGED <<listener, follower>> \/ Goes(m) \/ Numbers(m)
      BY <1>0, <1>13, <2>1, WebsocketShape
  <2>3. CASE Skips(m) \/ GivesUp \/ UNCHANGED <<listener, follower>>
      BY <2>2, <2>3, FollowerKeeps DEF Skips, GivesUp
  <2>4. CASE Goes(m)
      BY <2>2, <2>4, FollowerGoes
  <2>5. CASE Numbers(m)
    <3>1. listener'.book = listener.book /\ listener'.held = listener.held /\ follower' = follower
        BY <2>5 DEF Numbers
    <3>2. HoldsBack' = HoldsBack
        BY <2>2 DEF HoldsBack
    <3> QED
        BY <3>1, <3>2, <2>2 DEF FollowerInv, Running, Crossed, Update
  <2> QED
      BY <2>2, <2>3, <2>4, <2>5
<1>14. CASE OnMarketDataRequest
    BY <1>14, FollowerAsks
<1> QED
    BY <1>1, <1>2, <1>3, <1>4, <1>5, <1>6, <1>7, <1>8, <1>9, <1>10, <1>11, <1>12, <1>13, <1>14 DEF Next

\* At the start nobody follows.
LEMMA FollowerInit ==
    ASSUME Init PROVE FollowerInv
<1>1. ~Crossed(Empty)
    BY VenueBounds DEF Crossed, Empty, Levels
<1>2. history = <<Empty>> /\ listener.phase = "connect" /\ follower.follows = FALSE
    BY DEF Init
<1>3. \A i \in 1..Len(<<Empty>>) : <<Empty>>[i] = Empty
    OBVIOUS
<1>4. \A i \in 1..Len(history) : ~Crossed(history[i])
    BY <1>1, <1>2, <1>3
<1> QED
    BY <1>2, <1>4 DEF FollowerInv, Running

----------------------------------------------------------------------------
(***************************************************************************)
(* What is under way, and the books by which it is numbered.               *)
(***************************************************************************)

\* A message more at the end.
LEMMA QueueGrows ==
    ASSUME NEW p \in Seq(Msg), NEW m \in Msg
    PROVE  LET q == Append(p, m) IN
           /\ Brings(p) \/ LastChange(m) => Brings(q)
           /\ Follows(p) /\ ~Precedes(m) => Follows(q)
           /\ LastChange(m) => Follows(q)
           /\ Ascends(p) /\ (m.kind = "change" =>
                 \A i \in 1..Len(p) : p[i].kind = "change" => p[i].k < m.k) => Ascends(q)
           /\ \A k : Has(p, k) \/ (m.kind = "change" /\ m.k = k) => Has(q, k)
<1>1. PICK q \in Seq(Msg) : q = Append(p, m)
  <2>1. Append(p, m) \in Seq(Msg)
      OBVIOUS
  <2> QED
      BY <2>1
<1>2. PICK n \in Nat : n = Len(p)
    OBVIOUS
<1>3. /\ Len(q) = n + 1 /\ q[n + 1] = m /\ n + 1 \in 1..Len(q)
      /\ \A i \in 1..n : q[i] = p[i] /\ i \in 1..Len(q)
      /\ \A i \in 1..Len(q) : i = n + 1 \/ (i \in 1..n /\ n + 1 \in (i + 1)..Len(q))
    BY <1>1, <1>2
<1>4. Brings(p) \/ LastChange(m) => Brings(q)
    BY <1>2, <1>3 DEF Brings
<1>5. ASSUME Follows(p), ~Precedes(m) PROVE Follows(q)
  <2>1. ASSUME NEW i \in 1..Len(q), Precedes(q[i])
        PROVE  \E j \in (i + 1)..Len(q) : LastChange(q[j])
    <3>1. i \in 1..n /\ Precedes(p[i])
        BY <1>3, <1>5, <2>1
    <3>2. PICK j \in (i + 1)..n : LastChange(p[j])
        BY <3>1, <1>2, <1>5 DEF Follows
    <3>3. j \in 1..n /\ j \in (i + 1)..Len(q)
        BY <3>1, <1>3
    <3> QED
        BY <3>2, <3>3, <1>3
  <2> QED
      BY <2>1 DEF Follows
<1>6. ASSUME LastChange(m) PROVE Follows(q)
  <2>1. ~Precedes(m)
      BY <1>6, VenueBounds DEF LastChange, Precedes
  <2>2. ASSUME NEW i \in 1..Len(q), Precedes(q[i])
        PROVE  \E j \in (i + 1)..Len(q) : LastChange(q[j])
      BY <1>3, <1>6, <2>1, <2>2
  <2> QED
      BY <2>2 DEF Follows
<1>7. ASSUME Ascends(p), m.kind = "change" => \A i \in 1..n : p[i].kind = "change" => p[i].k < m.k
      PROVE  Ascends(q)
  <2>1. ASSUME NEW i \in 1..Len(q), NEW j \in 1..Len(q), i < j, q[i].kind = "change", q[j].kind = "change"
        PROVE  q[i].k < q[j].k
    <3>1. i \in 1..n /\ q[i] = p[i]
        BY <2>1, <1>3
    <3>2. CASE j = n + 1
        BY <3>1, <3>2, <2>1, <1>3, <1>7
    <3>3. CASE j \in 1..n
        BY <3>1, <3>3, <2>1, <1>2, <1>3, <1>7 DEF Ascends
    <3> QED
        BY <3>2, <3>3, <1>3
  <2> QED
      BY <2>1 DEF Ascends
<1>8. ASSUME NEW k, Has(p, k) \/ (m.kind = "change" /\ m.k = k) PROVE Has(q, k)
    BY <1>2, <1>3, <1>8 DEF Has
<1> QED
    BY <1>1, <1>2, <1>4, <1>5, <1>6, <1>7, <1>8

\* The first message taken.
LEMMA QueueIsRead ==
    ASSUME NEW p \in Seq(Msg), p # <<>>
    PROVE  LET m == Head(p)  q == Tail(p) IN
           /\ Brings(p) => LastChange(m) \/ Brings(q)
           /\ Follows(p) => Follows(q) /\ (Precedes(m) => Brings(q))
           /\ Ascends(p) => Ascends(q)
           /\ \A k : Has(p, k) => Has(q, k) \/ (m.kind = "change" /\ m.k = k)
           /\ m \in Msg /\ q \in Seq(Msg) /\ Len(q) \in Nat /\ Len(p) = Len(q) + 1 /\ p[1] = m
           /\ \A i \in 1..Len(q) : q[i] = p[i + 1]
<1>1. PICK m \in Msg, q \in Seq(Msg) : m = Head(p) /\ q = Tail(p)
  <2>1. Head(p) \in Msg /\ Tail(p) \in Seq(Msg)
      OBVIOUS
  <2> QED
      BY <2>1
<1>2. PICK n \in Nat : n = Len(q)
    OBVIOUS
<1>3. /\ Len(p) = n + 1 /\ p[1] = m /\ 1 \in 1..Len(p)
      /\ \A i \in 1..n : q[i] = p[i + 1] /\ i + 1 \in 1..Len(p)
      /\ \A i \in 1..Len(p) : i = 1 \/ i - 1 \in 1..n
    BY <1>1, <1>2
<1>4. \A i \in 1..Len(p) : (p[i] = m /\ i = 1) \/ (i - 1 \in 1..n /\ p[i] = q[i - 1])
    BY <1>3
<1>5. Brings(p) => LastChange(m) \/ Brings(q)
    BY <1>2, <1>4 DEF Brings
<1>6. ASSUME Follows(p) PROVE Follows(q) /\ (Precedes(m) => Brings(q))
  <2>1. ASSUME NEW i \in 1..n, Precedes(q[i])
        PROVE  \E j \in (i + 1)..n : LastChange(q[j])
    <3>1. PICK j \in (i + 2)..Len(p) : LastChange(p[j])
        BY <1>3, <1>6, <2>1 DEF Follows
    <3>2. j - 1 \in (i + 1)..n /\ j \in 1..Len(p) /\ j # 1
        BY <1>3, <3>1
    <3> QED
        BY <3>1, <3>2, <1>4
  <2>2. ASSUME Precedes(m) PROVE Brings(q)
    <3>1. PICK j \in 2..Len(p) : LastChange(p[j])
        BY <1>3, <1>6, <2>2 DEF Follows
    <3>2. j - 1 \in 1..n /\ j \in 1..Len(p) /\ j # 1
        BY <1>3, <3>1
    <3> QED
        BY <3>1, <3>2, <1>2, <1>4 DEF Brings
  <2> QED
      BY <2>1, <2>2, <1>2 DEF Follows
<1>7. ASSUME Ascends(p) PROVE Ascends(q)
  <2>1. ASSUME NEW i \in 1..n, NEW j \in 1..n, i < j, q[i].kind = "change", q[j].kind = "change"
        PROVE  q[i].k < q[j].k
    <3>1. i + 1 \in 1..Len(p) /\ j + 1 \in 1..Len(p) /\ i + 1 < j + 1
        BY <1>3, <2>1
    <3> QED
        BY <3>1, <2>1, <1>3, <1>7 DEF Ascends
  <2> QED
      BY <2>1, <1>2 DEF Ascends
<1>8. ASSUME NEW k, Has(p, k) PROVE Has(q, k) \/ (m.kind = "change" /\ m.k = k)
    BY <1>2, <1>4, <1>8 DEF Has
<1> QED
    BY <1>1, <1>2, <1>3, <1>5, <1>6, <1>7, <1>8

\* A message lost.
LEMMA QueueLoses ==
    ASSUME NEW p \in Seq(Msg), NEW q \in Seq(Msg), NEW i \in 1..Len(p), p[i].k # MaxChanges,
           Len(q) = Len(p) - 1,
           \A j \in 1..(i - 1) : q[j] = p[j], \A j \in i..(Len(p) - 1) : q[j] = p[j + 1]
    PROVE  /\ Brings(p) => Brings(q)
           /\ Follows(p) => Follows(q)
           /\ Ascends(p) => Ascends(q)
           /\ \A j \in 1..Len(q) : \E l \in 1..Len(p) : q[j] = p[l]
<1> DEFINE Old(j) == IF j < i THEN j ELSE j + 1
           New(j) == IF j < i THEN j ELSE j - 1
<1>1. PICK n \in Nat : n = Len(q) /\ Len(p) = n + 1
    OBVIOUS
<1>2. /\ \A j \in 1..n : Old(j) \in 1..Len(p) /\ Old(j) \in Int /\ q[j] = p[Old(j)]
      /\ \A j, l \in 1..n : j < l => Old(j) < Old(l)
    BY <1>1
<1>3. /\ \A j \in 1..Len(p) : j # i => New(j) \in 1..n /\ New(j) \in Int /\ q[New(j)] = p[j]
      /\ \A j \in 1..n, l \in 1..Len(p) : l # i /\ Old(j) < l => j < New(l)
    BY <1>1
<1> HIDE DEF Old, New
<1>4. ~LastChange(p[i])
    BY DEF LastChange
<1>5. ASSUME Brings(p) PROVE Brings(q)
  <2>1. PICK j \in 1..Len(p) : LastChange(p[j])
      BY <1>5 DEF Brings
  <2> QED
      BY <2>1, <1>1, <1>3, <1>4 DEF Brings
<1>6. ASSUME Follows(p) PROVE Follows(q)
  <2>1. ASSUME NEW j \in 1..n, Precedes(q[j])
        PROVE  \E l \in (j + 1)..n : LastChange(q[l])
    <3>1. PICK l \in (Old(j) + 1)..Len(p) : LastChange(p[l])
        BY <1>2, <1>6, <2>1 DEF Follows
    <3>2. l \in 1..Len(p) /\ l # i /\ Old(j) < l
        BY <1>2, <1>4, <3>1
    <3>3. New(l) \in 1..n /\ j < New(l) /\ q[New(l)] = p[l]
        BY <3>2, <1>3
    <3>4. New(l) \in (j + 1)..n
        BY <3>3
    <3> QED
        BY <3>1, <3>3, <3>4
  <2> QED
      BY <2>1, <1>1 DEF Follows
<1>7. ASSUME Ascends(p) PROVE Ascends(q)
    BY <1>1, <1>2, <1>7 DEF Ascends
<1> QED
    BY <1>1, <1>2, <1>5, <1>6, <1>7

\* What a step that sends nothing leaves of what is under way.
LEMMA SendsKeeps ==
    ASSUME Sound, SendsInv, UNCHANGED <<rules, history>>,
           \/ socket' = socket
           \/ socket' = NoSocket
           \/ ReadsOne,
           listener'.phase = "running" => Running \/ socket.booked
    PROVE  SendsInv'
<1>1. Market' = Market /\ (Running' => Running \/ socket.booked)
    BY DEF Market, Running
<1>2. \A q : Follows(q)' <=> Follows(q)
    BY DEF Follows, Precedes, LastChange, FromRequest
<1>3. CASE socket' = socket
  <2>1. (Market = MaxChanges => Follows(socket.q))'
      BY <1>1, <1>2, <1>3 DEF SendsInv
  <2> QED
      BY <1>1, <1>3, <2>1 DEF SendsInv
<1>4. CASE socket' = NoSocket
  <2>1. socket'.up = FALSE /\ socket'.q = <<>>
      BY <1>4, NoSocketShape
  <2>2. PICK q : q = socket'.q
      OBVIOUS
  <2>3. \A i : i \notin 1..Len(q)
      BY <2>1, <2>2
  <2>4. Follows(q)
      BY <2>3 DEF Follows
  <2> QED
      BY <1>2, <2>1, <2>2, <2>3, <2>4 DEF SendsInv
<1>5. CASE ReadsOne
  <2>1. PICK p \in Seq(Msg) : p = socket.q
      BY DEF Sound, Types, SocketType
  <2>2. p # <<>> /\ socket'.q = Tail(p) /\ socket'.up = socket.up /\ socket'.booked = socket.booked
      BY <1>5, <2>1 DEF ReadsOne
  <2>3. PICK q \in Seq(Msg) : q = Tail(p)
      BY <2>2
  <2>4. /\ Follows(p) => Follows(q)
        /\ Len(q) \in Nat /\ Len(p) = Len(q) + 1 /\ \A i \in 1..Len(q) : q[i] = p[i + 1]
      BY <2>1, <2>2, <2>3, QueueIsRead
  <2>5. ~socket.booked => \A i \in 1..Len(q) : q[i].kind # "book"
    <3>1. \A i \in 1..Len(q) : i + 1 \in 1..Len(p)
        BY <2>4
    <3> QED
        BY <3>1, <2>1, <2>4 DEF SendsInv
  <2>6. socket'.q = q
      BY <2>2, <2>3
  <2>7. (Market = MaxChanges => Follows(socket.q))'
      BY <1>1, <1>2, <2>1, <2>4, <2>6 DEF SendsInv
  <2> QED
      BY <1>1, <2>2, <2>5, <2>6, <2>7 DEF SendsInv
<1> QED
    BY <1>3, <1>4, <1>5

\* What is sent.
LEMMA SendsSends ==
    ASSUME Sound, SendsInv, UNCHANGED <<rules, listener>>, Market' >= Market, Market' \in 0..MaxChanges,
           NEW m \in Msg, Sends(m), m.kind = "change" => m.k = Market' /\ Market' = Market + 1,
           m.kind = "book" => m.k = Market /\ ~socket.booked, m.kind # "change" => Market' = Market
    PROVE  SendsInv'
<1>1. \A q : Follows(q)' <=> Follows(q)
    BY DEF Follows, Precedes, LastChange, FromRequest
<1>2. PICK p \in Seq(Msg) : p = socket.q
    BY DEF Sound, Types, SocketType
<1>3. PICK q \in Seq(Msg) : q = Append(p, m) /\ socket'.q = q
    BY <1>2 DEF Sends
<1>4. /\ Follows(p) /\ ~Precedes(m) => Follows(q)
      /\ LastChange(m) => Follows(q)
      /\ Len(q) = Len(p) + 1 /\ Len(p) \in Nat /\ q[Len(p) + 1] = m /\ \A i \in 1..Len(p) : q[i] = p[i]
    BY <1>2, <1>3, QueueGrows
<1>5. Market' = MaxChanges => Follows(q)
  <2>1. CASE m.kind = "change"
      BY <2>1, <1>4 DEF LastChange, Sends
  <2>2. CASE m.kind # "change"
    <3>1. Market' = MaxChanges => ~Precedes(m)
        BY <2>2, VenueBounds DEF Precedes
    <3> QED
        BY <2>2, <3>1, <1>2, <1>4 DEF SendsInv
  <2> QED
      BY <2>1, <2>2
<1>6. ~socket'.booked => \A i \in 1..Len(q) : q[i].kind # "book"
  <2>1. socket'.booked = (socket.booked \/ m.kind = "book")
      BY DEF Sends
  <2>2. \A i \in 1..Len(q) : i \in 1..Len(p) \/ q[i] = m
      BY <1>4
  <2> QED
      BY <2>1, <2>2, <1>2, <1>4 DEF SendsInv
<1>7. Running' /\ socket'.up => socket'.booked
  <2>1. Running' = Running
      BY DEF Running
  <2> QED
      BY <2>1 DEF SendsInv, Sends
<1>8. (Market = MaxChanges => Follows(socket.q))'
    BY <1>1, <1>3, <1>5
<1> QED
    BY <1>3, <1>6, <1>7, <1>8 DEF SendsInv

\* Every step keeps SendsInv: the book precedes its changes, and the last change is behind them.
LEMMA SendsStep ==
    ASSUME Sound, NumberedInv, SendsInv, [Next]_vars PROVE SendsInv'
<1>0. Types /\ Stream /\ Market \in 0..MaxChanges
    BY BooksOf DEF Sound
<1>1. CASE UNCHANGED vars
    BY <1>1, SendsKeeps DEF vars, Running
<1>2. ASSUME NEW s \in Levels, Change(s) PROVE SendsInv'
  <2>1. PICK b \in Books : history' = Append(history, b)
      BY <1>0, <1>2, ChangeShape
  <2>2. /\ Market < MaxChanges /\ UNCHANGED <<rules, mail, listener, follower>>
        /\ \/ socket.up /\ \E m \in Msg : m.kind = "change" /\ m.k = Market + 1 /\ Sends(m)
           \/ socket' = socket /\ ~(socket.up /\ socket.booked)
      BY <1>0, <1>2, ChangeShape
  <2>3. Market' = Market + 1 /\ Market' \in 0..MaxChanges
      BY <1>0, <2>1, <2>2, HistoryGrows
  <2>4. CASE \E m \in Msg : m.kind = "change" /\ m.k = Market + 1 /\ Sends(m)
    <3>1. PICK m \in Msg : m.kind = "change" /\ m.k = Market + 1 /\ Sends(m)
        BY <2>4
    <3>2. Market' >= Market /\ m.k = Market'
        BY <1>0, <2>3, <3>1
    <3> QED
        BY <2>2, <2>3, <3>1, <3>2, SendsSends
  <2>5. CASE socket' = socket /\ ~(socket.up /\ socket.booked)
    <3>1. PICK q \in Seq(Msg) : q = socket.q
        BY <1>0 DEF Types, SocketType
    <3>2. \A i \in 1..Len(q) : q[i].kind # "book"
      <4>1. CASE ~socket.up
        <5>1. q = <<>>
            BY <4>1, <3>1, <1>0, NoSocketShape DEF Stream
        <5> QED
            BY <5>1
      <4>2. CASE ~socket.booked
          BY <4>2, <3>1 DEF SendsInv
      <4> QED
          BY <2>5, <4>1, <4>2
    <3>3. FromRequest => q = <<>>
        BY <2>5, <3>1, <1>0, NoSocketShape DEF Stream, FromRequest
    <3>4. Follows(q)'
        BY <2>2, <3>2, <3>3 DEF Follows, Precedes, FromRequest
    <3>5. Running' = Running
        BY <2>2 DEF Running
    <3>6. (Market = MaxChanges => Follows(socket.q))'
        BY <2>5, <3>1, <3>4
    <3> QED
        BY <2>5, <3>1, <3>2, <3>5, <3>6 DEF SendsInv
  <2> QED
      BY <2>2, <2>4, <2>5
<1>3. CASE SendBook \/ SendOther
  <2>1. UNCHANGED <<rules, history, mail, listener, follower>>
      BY <1>0, <1>3, SendShape
  <2>2. PICK m \in Msg : /\ Sends(m)
                         /\ \/ m.kind = "book" /\ m.k = Market /\ ~socket.booked
                            \/ m.kind \in {"trade", "pong"} /\ m.k = 0
      BY <1>0, <1>3, SendShape
  <2>3. Market' = Market /\ Market' >= Market /\ Market' \in 0..MaxChanges
      BY <1>0, <2>1 DEF Market
  <2>4. m.kind # "change"
      BY <2>2
  <2>5. m.kind = "book" => m.k = Market /\ ~socket.booked
      BY <2>2
  <2> QED
      BY <2>1, <2>2, <2>3, <2>4, <2>5, SendsSends
<1>4. CASE ChangeLost
  <2>1. UNCHANGED <<rules, history, mail, listener, follower>> /\ \E i \in 1..Len(socket.q) : Loses(i)
      BY <1>0, <1>4, LostShape
  <2>2. PICK p \in Seq(Msg) : p = socket.q
      BY <1>0 DEF Types, SocketType
  <2>3. PICK i \in 1..Len(p) : Loses(i)
      BY <2>1, <2>2
  <2>4. PICK q \in Seq(Msg) : q = socket'.q
      BY <2>3 DEF Loses
  <2>5. /\ p[i].k # MaxChanges /\ Len(q) = Len(p) - 1
        /\ \A j \in 1..(i - 1) : q[j] = p[j]
        /\ \A j \in i..(Len(p) - 1) : q[j] = p[j + 1]
        /\ socket'.up = socket.up /\ socket'.booked = socket.booked
      BY <2>2, <2>3, <2>4 DEF Loses
  <2>6. /\ Follows(p) => Follows(q)
        /\ \A j \in 1..Len(q) : \E l \in 1..Len(p) : q[j] = p[l]
      BY <2>5, QueueLoses
  <2>7. \A r : Follows(r)' <=> Follows(r)
      BY <2>1 DEF Follows, Precedes, LastChange, FromRequest
  <2>8. Market' = Market /\ Running' = Running
      BY <2>1 DEF Market, Running
  <2>9. (Market = MaxChanges => Follows(socket.q))'
      BY <2>2, <2>4, <2>6, <2>7, <2>8 DEF SendsInv
  <2>10. ~socket'.booked => \A j \in 1..Len(q) : q[j].kind # "book"
      BY <2>2, <2>5, <2>6 DEF SendsInv
  <2> QED
      BY <2>4, <2>5, <2>8, <2>9, <2>10 DEF SendsInv
<1>5. CASE SocketFails
    BY <1>0, <1>5, SocketFailsShape, SendsKeeps DEF Disconnects, Running
<1>6. CASE Connect
  <2>1. UNCHANGED <<rules, history>> /\ socket'.q = <<>> /\ Turns(IF FromRequest THEN "snapshot" ELSE "align")
      BY <1>0, <1>6, ConnectShape
  <2>2. \A i : i \notin 1..Len(<<>>)
      OBVIOUS
  <2>3. Follows(<<>>)'
      BY <2>2 DEF Follows
  <2>4. (Market = MaxChanges => Follows(socket.q))'
      BY <2>1, <2>3
  <2>5. ~Running'
      BY <2>1 DEF Turns, Running
  <2> QED
      BY <2>1, <2>2, <2>4, <2>5 DEF SendsInv
<1>7. CASE TakeSnapshot
  <2>1. UNCHANGED <<rules, history, socket>> /\ listener.phase = "snapshot"
      BY <1>0, <1>7, SnapshotShape
  <2>2. Begins(Market, Market) => FromRequest
    <3>1. Begins(Market, Market) => rules.subscribe.align = "none"
        BY <1>0, <1>7, SnapshotShape DEF Begins, Turns
    <3>2. rules.subscribe.align = "none" => rules.subscribe.source # "stream"
        BY <1>0 DEF Types, Consistent
    <3>3. rules.subscribe.source \in {"rest", "stream"}
        BY <1>0 DEF Types, Table, Subscriptions
    <3> QED
        BY <3>1, <3>2, <3>3 DEF FromRequest
  <2>3. CASE Begins(Market, Market)
    <3>1. socket.up => socket.booked
        BY <2>2, <2>3, <1>0 DEF Stream, FromRequest
    <3>2. \A q : Follows(q)' <=> Follows(q)
        BY <2>1 DEF Follows, Precedes, LastChange, FromRequest
    <3>3. (Market = MaxChanges => Follows(socket.q))'
        BY <2>1, <3>2 DEF SendsInv, Market
    <3> QED
        BY <2>1, <3>1, <3>3 DEF SendsInv
  <2>4. CASE Turns("align")
      BY <2>1, <2>4, SendsKeeps DEF Turns
  <2> QED
      BY <1>0, <1>7, <2>3, <2>4, SnapshotShape
<1>8. CASE AlignStream
  <2>1. /\ UNCHANGED <<rules, history, faults>> /\ ReadsOne /\ listener.phase = "align"
        /\ \/ Head(socket.q).kind = "book"
           \/ Turns("failed")
           \/ UNCHANGED <<listener, follower>>
      BY <1>0, <1>8, AlignStreamShape
  <2>2. Head(socket.q).kind = "book" => socket.booked
    <3>1. PICK p \in Seq(Msg) : p = socket.q
        BY <1>0 DEF Types, SocketType
    <3>2. Head(p) = p[1] /\ 1 \in 1..Len(p)
        BY <2>1, <3>1 DEF ReadsOne
    <3> QED
        BY <3>1, <3>2 DEF SendsInv
  <2>3. listener'.phase = "running" => Running \/ socket.booked
      BY <2>1, <2>2 DEF Turns, Running
  <2> QED
      BY <2>1, <2>3, SendsKeeps
<1>9. CASE AlignRest
  <2>1. FromRequest /\ UNCHANGED <<rules, history>> /\ (socket' = socket \/ ReadsOne) /\ socket.q # <<>>
      BY <1>0, <1>9, AlignRestShape
  <2>2. socket.up
      BY <2>1, <1>0, NoSocketShape DEF Stream
  <2>3. socket.booked
      BY <2>1, <2>2, <1>0 DEF Stream, FromRequest
  <2> QED
      BY <2>1, <2>3, SendsKeeps
<1>10. CASE AlignAtBound
  <2>1. FromRequest /\ UNCHANGED <<rules, history, socket>> /\ socket.up
      BY <1>0, <1>10, AtBoundShape DEF AlignAtBound
  <2>2. socket.booked
      BY <2>1, <1>0 DEF Stream, FromRequest
  <2> QED
      BY <2>1, <2>2, SendsKeeps
<1>11. CASE SubscribeFails \/ Restart \/ CheckSockets
  <2>1. Quits
      BY <1>0, <1>11, QuitShape
  <2> QED
      BY <2>1, SendsKeeps DEF Quits, Turns
<1>12. CASE ReadMessage
  <2>1. UNCHANGED <<rules, history>> /\ ReadsOne /\ Running
      BY <1>0, <1>12, ReadMessageShape
  <2> QED
      BY <2>1, SendsKeeps
<1>13. CASE OnWebsocketMessage
  <2>1. PICK m : m = Head(mail)
      OBVIOUS
  <2>2. /\ Running /\ UNCHANGED <<rules, history>>
        /\ \/ Skips(m) \/ GivesUp \/ socket' = NoSocket \/ Goes(m) \/ Numbers(m)
      BY <1>0, <1>13, <2>1, WebsocketShape
  <2>3. socket' = socket \/ socket' = NoSocket
      BY <2>2 DEF Skips, GivesUp, Goes, Numbers
  <2> QED
      BY <2>2, <2>3, SendsKeeps
<1>14. CASE OnMarketDataRequest
  <2>1. UNCHANGED <<rules, history, socket, listener>>
      BY <1>0, <1>14, RequestShape
  <2> QED
      BY <2>1, SendsKeeps DEF Running
<1> QED
    BY <1>1, <1>2, <1>3, <1>4, <1>5, <1>6, <1>7, <1>8, <1>9, <1>10, <1>11, <1>12, <1>13, <1>14 DEF Next

\* The changes in the stream stay in order while it is only read.
LEMMA AscendsKeeps ==
    ASSUME Sound, NumberedInv, UNCHANGED rules,
           \/ socket' = socket
           \/ socket' = NoSocket
           \/ ReadsOne
    PROVE  (rules.onMessage.order = "change" /\ rules.subscribe.align = "next" => Ascends(socket.q))'
<1>1. PICK p \in Seq(Msg) : p = socket.q
    BY DEF Sound, Types, SocketType
<1>2. PICK q : q = socket'.q
    OBVIOUS
<1>3. Ascends(p) => Ascends(q)
  <2>1. CASE socket' = socket
      BY <2>1, <1>1, <1>2
  <2>2. CASE socket' = NoSocket
    <3>1. \A i : i \notin 1..Len(q)
        BY <2>2, <1>2, NoSocketShape
    <3> QED
        BY <3>1 DEF Ascends
  <2>3. CASE ReadsOne
    <3>1. p # <<>> /\ q = Tail(p)
        BY <2>3, <1>1, <1>2 DEF ReadsOne
    <3> QED
        BY <3>1, QueueIsRead
  <2> QED
      BY <2>1, <2>2, <2>3
<1>4. rules.onMessage.order = "change" /\ rules.subscribe.align = "next" => Ascends(q)
    BY <1>1, <1>3 DEF NumberedInv
<1> QED
    BY <1>2, <1>4

\* Nothing is asked of the book of a listener that neither runs nor looks for changes.
LEMMA NumberedTurns ==
    ASSUME Sound, NumberedInv, UNCHANGED rules,
           \/ socket' = socket
           \/ socket' = NoSocket
           \/ ReadsOne,
           listener'.phase \notin {"running", "align"}
    PROVE  NumberedInv'
BY AscendsKeeps DEF NumberedInv, Running

\* A listener that starts on a numbered book can expect the last change.
LEMMA NumberedBegins ==
    ASSUME Sound, NumberedInv, UNCHANGED <<rules, history>>,
           \/ socket' = socket
           \/ ReadsOne,
           NEW k, NEW n, Begins(k, n), rules.onMessage.order = "change" => n = k,
           rules.onMessage.order = "change" /\ Market = MaxChanges /\ k < MaxChanges => Brings(socket'.q)
    PROVE  NumberedInv'
<1>1. /\ k \in 0..Market /\ listener'.phase = "running" /\ listener'.book = Book(k) /\ listener'.last = n
      /\ Market \in 0..MaxChanges
    BY BooksOf DEF Begins, Sound
<1>2. Market' = Market /\ Book(k)' = Book(k) /\ Running'
    BY <1>1 DEF Market, Book, Running
<1>3. rules.onMessage.order = "change" => (listener.last <= Market /\ listener.book = Book(listener.last))'
  <2>1. rules.onMessage.order = "change" => listener'.last = k /\ k <= Market' /\ listener'.book = Book(k)'
      BY <1>1, <1>2
  <2> QED
      BY <2>1 DEF Book
<1>4. rules.onMessage.order = "change" =>
        (socket.up /\ Market = MaxChanges /\ listener.last < MaxChanges => Brings(socket.q))'
    BY <1>1, <1>2
<1>5. (rules.onMessage.order = "change" /\ rules.subscribe.align = "next" => Ascends(socket.q))'
    BY AscendsKeeps
<1> QED
    BY <1>1, <1>2, <1>3, <1>4, <1>5 DEF NumberedInv, Awaited

\* The listener stays, the exchange as well, and the socket stays or goes down.
LEMMA NumberedStays ==
    ASSUME Sound, NumberedInv, UNCHANGED <<rules, history>>,
           listener' = listener,
           \/ socket' = socket
           \/ socket' = NoSocket,
           rules.onMessage.order = "change" /\ Running /\ socket.up /\ Market = MaxChanges /\ listener.last < MaxChanges
              /\ Awaited => socket' = NoSocket \/ Awaited'
    PROVE  NumberedInv'
<1>1. Market' = Market /\ Running' = Running /\ FromRequest' = FromRequest
    BY DEF Market, Running, FromRequest
<1>2. \A k : Book(k)' = Book(k)
    BY DEF Book
<1>3. (rules.onMessage.order = "change" /\ rules.subscribe.align = "next" => Ascends(socket.q))'
    BY AscendsKeeps
<1>4. CASE socket' = socket
  <2>1. rules.onMessage.order = "change" /\ Running /\ socket.up /\ Market = MaxChanges /\ listener.last < MaxChanges
        => Awaited
      BY DEF NumberedInv
  <2>2. socket' = NoSocket => ~socket.up
      BY <1>4, NoSocketShape
  <2>3. (rules.onMessage.order = "change" /\ Running /\ socket.up /\ Market = MaxChanges
          /\ listener.last < MaxChanges => Awaited)'
      BY <1>1, <1>4, <2>1, <2>2
  <2> QED
      BY <1>1, <1>2, <1>3, <1>4, <2>3 DEF NumberedInv
<1>5. CASE socket' = NoSocket
  <2>1. ~socket'.up
      BY <1>5, NoSocketShape
  <2> QED
      BY <1>1, <1>2, <1>3, <2>1 DEF NumberedInv
<1> QED
    BY <1>4, <1>5

\* What numbered changes are like.
LEMMA WhereNumbered ==
    ASSUME Types, rules.onMessage.order = "change"
    PROVE  /\ rules.onMessage.body = "change" /\ ~InMessages /\ rules.subscribe.align # "none"
           /\ \A m : Effective(m) <=> m.kind = "change"
           /\ rules.subscribe.align = "next" => FromRequest
           /\ ~FromRequest => rules.subscribe.source = "stream"
<1>1. /\ Consistent(rules) /\ rules.subscribe.source \in {"rest", "stream"}
    BY DEF Types, Table, Subscriptions
<1>2. rules.onMessage.body = "change" /\ rules.onMessage.order # "message"
    BY <1>1 DEF Consistent
<1>3. rules.subscribe.source = "stream" => rules.subscribe.align \in {"first", "patient", "search", "buffer"}
    BY <1>1 DEF Consistent
<1>4. rules.subscribe.source = "rest" /\ rules.subscribe.align = "none" => rules.onMessage.order = "none"
    BY <1>1 DEF Consistent
<1> QED
    BY <1>1, <1>2, <1>3, <1>4 DEF InMessages, Effective, FromRequest

\* A change of the exchange's book.
LEMMA NumberedChange ==
    ASSUME Sound, SendsInv, NumberedInv, NEW s \in Levels, Change(s)
    PROVE  NumberedInv'
<1>0. Types /\ Stream /\ Market \in 0..MaxChanges
    BY BooksOf DEF Sound
<1>1. PICK b \in Books : history' = Append(history, b)
    BY <1>0, ChangeShape
<1>2. /\ Market < MaxChanges /\ UNCHANGED <<rules, mail, listener, follower>>
      /\ \/ socket.up /\ \E m \in Msg : m.kind = "change" /\ m.k = Market + 1 /\ Sends(m)
         \/ socket' = socket /\ ~(socket.up /\ socket.booked)
    BY <1>0, ChangeShape
<1>3. /\ Market' = Market + 1 /\ Market' \in 0..MaxChanges
      /\ \A k \in 0..Market : history'[k + 1] = Book(k)
  <2>1. /\ Market' = Market + 1 /\ Market' \in 1..MaxChanges
        /\ \A k \in 0..Market : history'[k + 1] = Book(k)
      BY <1>0, <1>1, <1>2, HistoryGrows
  <2> QED
      BY <2>1
<1>4. \A k \in 0..Market : Book(k)' = Book(k)
    BY <1>3 DEF Book
<1>5. Running' = Running /\ FromRequest' = FromRequest /\ listener' = listener /\ rules' = rules
    BY <1>2 DEF Running, FromRequest
<1>6. SUFFICES ASSUME rules.onMessage.order = "change" PROVE NumberedInv'
    BY <1>5 DEF NumberedInv
<1>7. listener.last \in Nat
    BY <1>0 DEF Types, ListenerType
<1>8. Running \/ (listener.phase = "align" /\ FromRequest) =>
          (listener.last <= Market /\ listener.book = Book(listener.last))'
  <2>1. Running \/ (listener.phase = "align" /\ FromRequest) =>
          listener.last <= Market /\ listener.book = Book(listener.last) /\ listener.last \in 0..Market
      BY <1>0, <1>6, <1>7 DEF NumberedInv
  <2>2. PICK k : k = listener.last
      OBVIOUS
  <2>3. Running \/ (listener.phase = "align" /\ FromRequest) => k <= Market' /\ listener'.book = Book(k)'
      BY <2>1, <2>2, <1>0, <1>3, <1>4, <1>5
  <2> QED
      BY <2>2, <2>3, <1>5 DEF Book
<1>9. PICK p \in Seq(Msg) : p = socket.q
    BY <1>0 DEF Types, SocketType
<1>10. PICK q : q = socket'.q
    OBVIOUS
<1>11. CASE \E m \in Msg : m.kind = "change" /\ m.k = Market + 1 /\ Sends(m)
  <2>1. PICK m \in Msg : m.kind = "change" /\ m.k = Market + 1 /\ Sends(m)
      BY <1>11
  <2>2. q = Append(p, m) /\ ~m.foreign /\ socket'.up = socket.up
      BY <2>1, <1>9, <1>10 DEF Sends
  <2>3. \A i \in 1..Len(p) : p[i].kind = "change" => p[i].k < m.k
    <3>1. \A i \in 1..Len(p) : p[i].k <= Market /\ p[i].k \in Nat
      <4>1. \A i \in 1..Len(p) : p[i].k <= Market
          BY <1>0, <1>9 DEF Stream, Tells
      <4>2. \A i \in 1..Len(p) : p[i] \in Msg
          OBVIOUS
      <4>3. \A m2 \in Msg : m2.k \in Nat
          BY VenueBounds DEF Msg
      <4> QED
          BY <4>1, <4>2, <4>3
    <3> QED
        BY <3>1, <2>1, <1>0
  <2>4. /\ Ascends(p) => Ascends(q)
        /\ LastChange(m) => Brings(q)
        /\ \A k : Has(p, k) => Has(q, k)
        /\ Has(q, Market + 1)
      BY <2>1, <2>2, <2>3, QueueGrows
  <2>5. Market' = MaxChanges => Brings(q)
      BY <2>1, <2>2, <2>4, <1>3 DEF LastChange
  <2>6. rules.subscribe.align = "next" => Ascends(q)
      BY <2>4, <1>6, <1>9 DEF NumberedInv
  <2>7. listener.phase = "align" /\ rules.subscribe.align = "next" /\ socket'.up =>
            \A k \in (listener.last + 1)..Market' : Has(q, k)
    <3>1. \A k \in (listener.last + 1)..Market' : k \in (listener.last + 1)..Market \/ k = Market + 1
        BY <1>0, <1>3, <1>7
    <3> QED
        BY <3>1, <2>2, <2>4, <1>6, <1>9 DEF NumberedInv
  <2> QED
      BY <1>5, <1>8, <1>10, <2>5, <2>6, <2>7 DEF NumberedInv, Awaited
<1>12. CASE socket' = socket /\ ~(socket.up /\ socket.booked)
  <2>1. ~(Running /\ socket.up) /\ (FromRequest => ~socket.up)
      BY <1>12, <1>0 DEF SendsInv, Stream, FromRequest
  <2>2. rules.subscribe.align = "next" => ~socket.up
      BY <2>1, <1>0, <1>6, WhereNumbered
  <2>3. (rules.subscribe.align = "next" => Ascends(socket.q))'
      BY <1>5, <1>6, <1>12 DEF NumberedInv
  <2> QED
      BY <1>5, <1>8, <1>12, <2>1, <2>2, <2>3 DEF NumberedInv
<1> QED
    BY <1>2, <1>11, <1>12

\* The other messages of the exchange, and a change that is lost.
LEMMA NumberedStream ==
    ASSUME Sound, NumberedInv, SendBook \/ SendOther \/ ChangeLost
    PROVE  NumberedInv'
<1>0. Types /\ Stream /\ Market \in 0..MaxChanges
    BY BooksOf DEF Sound
<1>1. /\ UNCHANGED <<rules, history, mail, listener, follower>>
      /\ \/ \E m \in Msg : Sends(m) /\ m.kind # "change"
         \/ /\ ~(listener.phase = "align" /\ rules.subscribe.align = "next")
            /\ \E i \in 1..Len(socket.q) : Loses(i)
  <2>1. CASE SendBook \/ SendOther
    <3>1. UNCHANGED <<rules, history, mail, listener, follower>>
        BY <1>0, <2>1, SendShape
    <3>2. PICK m \in Msg : Sends(m) /\ (m.kind = "book" \/ m.kind \in {"trade", "pong"})
        BY <1>0, <2>1, SendShape
    <3>3. m.kind # "change"
        BY <3>2
    <3> QED
        BY <3>1, <3>2, <3>3
  <2>2. CASE ChangeLost
      BY <1>0, <2>2, LostShape
  <2> QED
      BY <2>1, <2>2
<1>2. Market' = Market /\ Running' = Running /\ FromRequest' = FromRequest
    BY <1>1 DEF Market, Running, FromRequest
<1>3. \A k : Book(k)' = Book(k)
    BY <1>1 DEF Book
<1>4. PICK p \in Seq(Msg) : p = socket.q
    BY <1>0 DEF Types, SocketType
<1>5. PICK q : q = socket'.q
    OBVIOUS
<1>6. /\ Ascends(p) => Ascends(q)
      /\ Brings(p) => Brings(q)
      /\ socket'.up = socket.up
      /\ listener.phase = "align" /\ rules.subscribe.align = "next" => \A k : Has(p, k) => Has(q, k)
  <2>1. CASE \E m \in Msg : Sends(m) /\ m.kind # "change"
    <3>1. PICK m \in Msg : Sends(m) /\ m.kind # "change"
        BY <2>1
    <3>2. q = Append(p, m) /\ socket'.up = socket.up
        BY <3>1, <1>4, <1>5 DEF Sends
    <3> QED
        BY <3>1, <3>2, QueueGrows
  <2>2. CASE /\ ~(listener.phase = "align" /\ rules.subscribe.align = "next")
             /\ \E i \in 1..Len(socket.q) : Loses(i)
    <3>1. PICK i \in 1..Len(p) : Loses(i)
        BY <2>2, <1>4
    <3>2. /\ p[i].k # MaxChanges /\ Len(q) = Len(p) - 1 /\ q \in Seq(Msg)
          /\ \A j \in 1..(i - 1) : q[j] = p[j]
          /\ \A j \in i..(Len(p) - 1) : q[j] = p[j + 1]
          /\ socket'.up = socket.up
        BY <3>1, <1>4, <1>5 DEF Loses
    <3> QED
        BY <2>2, <3>2, QueueLoses
  <2> QED
      BY <1>1, <2>1, <2>2
<1> SUFFICES ASSUME rules.onMessage.order = "change" PROVE NumberedInv'
    BY <1>1 DEF NumberedInv
<1>7. (Running \/ (listener.phase = "align" /\ FromRequest) =>
          listener.last <= Market /\ listener.book = Book(listener.last))'
    BY <1>1, <1>2, <1>3 DEF NumberedInv
<1>8. (rules.subscribe.align = "next" => Ascends(socket.q))'
    BY <1>1, <1>4, <1>5, <1>6 DEF NumberedInv
<1>9. (Running /\ socket.up /\ Market = MaxChanges /\ listener.last < MaxChanges => Awaited)'
  <2>1. Awaited => Brings(mail') \/ Brings(q)
      BY <1>1, <1>4, <1>6 DEF Awaited
  <2> QED
      BY <2>1, <1>1, <1>2, <1>5, <1>6 DEF NumberedInv, Awaited
<1>10. (listener.phase = "align" /\ rules.subscribe.align = "next" /\ socket.up =>
          \A k \in (listener.last + 1)..Market : Has(socket.q, k))'
    BY <1>1, <1>2, <1>4, <1>5, <1>6 DEF NumberedInv
<1> QED
    BY <1>7, <1>8, <1>9, <1>10 DEF NumberedInv

\* The steps of subscribeInstrument that do not read the stream.
LEMMA NumberedSubscribing ==
    ASSUME Sound, SendsInv, NumberedInv, Connect \/ TakeSnapshot \/ AlignAtBound
    PROVE  NumberedInv'
<1>0. Types /\ Stream /\ Market \in 0..MaxChanges
    BY BooksOf DEF Sound
<1>1. CASE Connect
  <2>1. UNCHANGED rules /\ socket'.q = <<>> /\ Turns(IF FromRequest THEN "snapshot" ELSE "align")
      BY <1>0, <1>1, ConnectShape
  <2>2. Ascends(<<>>)
    <3>1. \A i : i \notin 1..Len(<<>>)
        OBVIOUS
    <3> QED
        BY <3>1 DEF Ascends
  <2>3. Ascends(socket.q)'
      BY <2>1, <2>2
  <2>4. ~Running' /\ (FromRequest' => listener'.phase # "align")
      BY <2>1 DEF Turns, Running, FromRequest
  <2>5. rules'.onMessage.order = "change" /\ rules'.subscribe.align = "next" => FromRequest'
      BY <1>0, <2>1, WhereNumbered DEF FromRequest
  <2> QED
      BY <2>3, <2>4, <2>5 DEF NumberedInv
<1>2. CASE TakeSnapshot
  <2>1. /\ listener.phase = "snapshot" /\ UNCHANGED <<rules, history, socket, mail>>
        /\ \/ rules.subscribe.align = "none" /\ Begins(Market, Market)
           \/ /\ rules.subscribe.align # "none" /\ Turns("align")
              /\ \E k \in 0..Market :
                    /\ listener'.book = Book(k) /\ listener'.last = k
                    /\ k = Market \/ rules.subscribe.align \in {"exact", "cover"}
      BY <1>0, <1>2, SnapshotShape
  <2>2. SUFFICES ASSUME rules.onMessage.order = "change" PROVE NumberedInv'
      BY <2>1 DEF NumberedInv
  <2>3. rules.subscribe.align # "none"
      BY <1>0, <2>2, WhereNumbered
  <2>4. PICK k \in 0..Market : /\ listener'.book = Book(k) /\ listener'.last = k
                               /\ k = Market \/ rules.subscribe.align \in {"exact", "cover"}
      BY <2>1, <2>3
  <2>5. Market' = Market /\ Book(k)' = Book(k)
      BY <2>1 DEF Market, Book
  <2>6. (listener.last <= Market /\ listener.book = Book(listener.last))'
    <3>1. k <= Market' /\ listener'.book = Book(k)' /\ listener'.last = k
        BY <1>0, <2>4, <2>5
    <3> QED
        BY <3>1 DEF Book
  <2>7. rules.subscribe.align = "next" => \A j : j \notin (listener'.last + 1)..Market'
      BY <1>0, <2>4, <2>5
  <2>8. (rules.subscribe.align = "next" => Ascends(socket.q))'
      BY <2>1, <2>2 DEF NumberedInv
  <2>9. ~Running'
      BY <2>1, <2>3 DEF Turns, Running
  <2> QED
      BY <2>1, <2>6, <2>7, <2>8, <2>9 DEF NumberedInv
<1>3. CASE AlignAtBound
  <2>1. /\ UNCHANGED <<rules, history, socket, mail, faults>>
        /\ \/ Begins(Market, Market)
           \/ \E p \in {"snapshot", "failed"} : Turns(p)
      BY <1>0, <1>3, AtBoundShape
  <2>2. CASE Begins(Market, Market)
    <3>1. ~(Market = MaxChanges /\ Market < MaxChanges)
        BY VenueBounds
    <3> QED
        BY <2>1, <2>2, <3>1, NumberedBegins
  <2>3. CASE \E p \in {"snapshot", "failed"} : Turns(p)
      BY <2>1, <2>3, NumberedTurns DEF Turns
  <2> QED
      BY <2>1, <2>2, <2>3
<1> QED
    BY <1>1, <1>2, <1>3

\* The message at which the listener starts, and what comes after it.
LEMMA NumberedAlign ==
    ASSUME Sound, SendsInv, NumberedInv, AlignStream \/ AlignRest
    PROVE  NumberedInv'
<1>0. Types /\ Stream /\ Market \in 0..MaxChanges
    BY BooksOf DEF Sound
<1>1. PICK p \in Seq(Msg) : p = socket.q
    BY <1>0 DEF Types, SocketType
<1>2. PICK m : m = Head(p)
    OBVIOUS
<1>3. UNCHANGED <<rules, history>> /\ socket.q # <<>> /\ listener.phase = "align"
  <2>1. AlignStream => UNCHANGED <<rules, history>> /\ ReadsOne /\ listener.phase = "align"
      BY <1>0, AlignStreamShape
  <2>2. AlignRest => UNCHANGED <<rules, history>> /\ socket.q # <<>> /\ listener.phase = "align"
      BY <1>0, AlignRestShape
  <2> QED
      BY <2>1, <2>2 DEF ReadsOne
<1>4. \A k, n : Begins(k, n) /\ ReadsOne /\ m.k = k /\ (rules.onMessage.order = "change" => n = k)
                /\ (m.kind = "book" \/ (m.kind = "change" /\ FromRequest)) => NumberedInv'
  <2>1. SUFFICES ASSUME NEW k, NEW n, Begins(k, n), ReadsOne, m.k = k, rules.onMessage.order = "change" => n = k,
                        m.kind = "book" \/ (m.kind = "change" /\ FromRequest)
                 PROVE  NumberedInv'
      OBVIOUS
  <2>2. socket'.q = Tail(p)
      BY <2>1, <1>1 DEF ReadsOne
  <2>3. rules.onMessage.order = "change" /\ Market = MaxChanges /\ k < MaxChanges => Brings(socket'.q)
    <3>1. k < MaxChanges => Precedes(m)
        BY <2>1 DEF Precedes
    <3>2. Market = MaxChanges => Follows(p)
        BY <1>1 DEF SendsInv
    <3> QED
        BY <3>1, <3>2, <2>2, <1>1, <1>2, <1>3, QueueIsRead
  <2> QED
      BY <2>1, <2>3, <1>3, NumberedBegins
<1>5. CASE AlignStream
  <2>1. /\ ReadsOne /\ rules.subscribe.source = "stream"
        /\ \/ m.kind = "book" /\ Begins(m.k, m.n)
           \/ Turns("failed")
           \/ UNCHANGED listener
      BY <1>0, <1>1, <1>2, <1>5, AlignStreamShape
  <2>2. CASE m.kind = "book" /\ Begins(m.k, m.n)
    <3>1. rules.onMessage.order = "change" => m.n = m.k
      <4>1. Tells(m)
          BY <2>1, <1>1, <1>2 DEF ReadsOne
      <4> QED
          BY <4>1, <1>0, WhereNumbered DEF Tells
    <3> QED
        BY <2>1, <2>2, <3>1, <1>4
  <2>3. CASE Turns("failed")
      BY <2>1, <2>3, <1>3, NumberedTurns DEF Turns
  <2>4. CASE UNCHANGED listener
    <3>1. ~Running' /\ ~FromRequest'
        BY <2>1, <2>4, <1>3 DEF Running, FromRequest
    <3>2. rules'.onMessage.order = "change" => rules'.subscribe.align # "next"
        BY <2>1, <1>0, <1>3, WhereNumbered DEF FromRequest
    <3> QED
        BY <3>1, <3>2 DEF NumberedInv
  <2> QED
      BY <2>1, <2>2, <2>3, <2>4
<1>6. CASE AlignRest
  <2>1. /\ FromRequest
        /\ \/ /\ ReadsOne /\ UNCHANGED <<listener, follower>>
              /\ m.kind # "change" \/ m.k <= listener.last
           \/ /\ ReadsOne /\ Begins(m.k, m.k) /\ m.kind = "change"
           \/ ReadsOne /\ Turns("failed")
           \/ UNCHANGED socket /\ Turns("snapshot")
      BY <1>0, <1>1, <1>2, <1>6, AlignRestShape
  <2>2. CASE ReadsOne /\ UNCHANGED <<listener, follower>> /\ (m.kind # "change" \/ m.k <= listener.last)
    <3>1. SUFFICES ASSUME rules.onMessage.order = "change" PROVE NumberedInv'
        BY <1>3 DEF NumberedInv
    <3>2. Market' = Market /\ FromRequest' = FromRequest /\ ~Running'
        BY <2>2, <1>3 DEF Market, FromRequest, Running
    <3>3. \A k : Book(k)' = Book(k)
        BY <1>3 DEF Book
    <3>4. (listener.last <= Market /\ listener.book = Book(listener.last))'
        BY <2>1, <2>2, <3>1, <3>2, <3>3, <1>3 DEF NumberedInv
    <3>5. (rules.subscribe.align = "next" => Ascends(socket.q))'
        BY <2>2, <3>1, <1>3, AscendsKeeps
    <3>6. PICK q : q = Tail(p) /\ socket'.q = q /\ socket'.up = socket.up
        BY <2>2, <1>1 DEF ReadsOne
    <3>7. rules.subscribe.align = "next" /\ socket'.up => \A k \in (listener.last + 1)..Market : Has(q, k)
      <4>1. ASSUME rules.subscribe.align = "next", socket'.up, NEW k \in (listener.last + 1)..Market
            PROVE  Has(q, k)
        <5>1. Has(p, k)
            BY <4>1, <3>1, <3>6, <1>1, <1>3 DEF NumberedInv
        <5>2. ~(m.kind = "change" /\ m.k = k)
            BY <2>2, <1>0 DEF Types, ListenerType
        <5> QED
            BY <5>1, <5>2, <3>6, <1>1, <1>2, <1>3, QueueIsRead
      <4> QED
          BY <4>1
    <3>8. (rules.subscribe.align = "next" /\ socket.up =>
              \A k \in (listener.last + 1)..Market : Has(socket.q, k))'
        BY <3>2, <3>6, <3>7, <2>2, <1>3
    <3> QED
        BY <3>2, <3>4, <3>5, <3>8 DEF NumberedInv
  <2>3. CASE ReadsOne /\ Begins(m.k, m.k) /\ m.kind = "change"
      BY <2>1, <2>3, <1>4
  <2>4. CASE (ReadsOne /\ Turns("failed")) \/ (UNCHANGED socket /\ Turns("snapshot"))
      BY <2>4, <1>3, NumberedTurns DEF Turns
  <2> QED
      BY <2>1, <2>2, <2>3, <2>4
<1> QED
    BY <1>5, <1>6

\* The next change, and nothing else, brings the book to the next one.
LEMMA NumberedGoes ==
    ASSUME Sound, NumberedInv, Running, UNCHANGED <<rules, history>>,
           mail # <<>>, mail' = Tail(mail), Tells(Head(mail)), Head(mail) \in Msg, Goes(Head(mail)),
           rules.onMessage.order # "none" => Head(mail).n = listener.last + 1
    PROVE  NumberedInv'
<1>0. Types /\ Stream /\ Market \in 0..MaxChanges
    BY BooksOf DEF Sound
<1>1. SUFFICES ASSUME rules.onMessage.order = "change" PROVE NumberedInv'
    BY DEF NumberedInv
<1>2. PICK p \in Seq(Msg) : p = mail
    BY <1>0 DEF Types
<1>3. PICK m \in Msg : m = Head(p)
    BY <1>2
<1>4. Tells(m) /\ Goes(m) /\ m.n = listener.last + 1
    BY <1>1, <1>2, <1>3
<1>5. m.kind = "change" /\ m.n = m.k /\ m.k = listener.last + 1 /\ m.k <= Market
    BY <1>0, <1>1, <1>4, WhereNumbered DEF Tells, Goes
<1>6. listener.book = Book(m.k - 1) /\ m.k \in 1..Market
  <2>1. listener.last \in Nat /\ listener.book = Book(listener.last)
      BY <1>0, <1>1 DEF NumberedInv, Types, ListenerType
  <2>2. m.k - 1 = listener.last /\ m.k \in 1..Market
      BY <2>1, <1>0, <1>5
  <2> QED
      BY <2>1, <2>2
<1>7. listener'.book = Book(m.k)
    BY <1>0, <1>1, <1>4, <1>6, BooksOf, WhereNumbered DEF Goes
<1>8. Market' = Market /\ Book(m.k)' = Book(m.k) /\ Running' /\ listener'.last = m.k
    BY <1>4, <1>5 DEF Market, Book, Running, Goes
<1>9. (listener.last <= Market /\ listener.book = Book(listener.last))'
  <2>1. m.k <= Market' /\ listener'.book = Book(m.k)' /\ listener'.last = m.k
      BY <1>5, <1>7, <1>8
  <2> QED
      BY <2>1 DEF Book
<1>10. socket' = socket
    BY <1>4 DEF Goes
<1>11. (rules.subscribe.align = "next" => Ascends(socket.q))'
    BY <1>1, <1>10 DEF NumberedInv
<1>12. (socket.up /\ Market = MaxChanges /\ listener.last < MaxChanges => Awaited)'
  <2>1. PICK q : q = Tail(p)
      OBVIOUS
  <2>2. mail' = q /\ (Brings(p) => LastChange(m) \/ Brings(q))
      BY <2>1, <1>2, <1>3, QueueIsRead
  <2>3. m.k < MaxChanges => ~LastChange(m)
      BY VenueBounds DEF LastChange
  <2>4. m.k < MaxChanges => listener.last < MaxChanges
      BY <1>0, <1>5, VenueBounds DEF Types, ListenerType
  <2>5. socket.up /\ Market = MaxChanges /\ m.k < MaxChanges => Brings(q) \/ Brings(socket.q)
      BY <2>2, <2>3, <2>4, <1>1, <1>2 DEF NumberedInv, Awaited
  <2> QED
      BY <2>2, <2>5, <1>8, <1>10 DEF Awaited
<1> QED
    BY <1>8, <1>9, <1>11, <1>12 DEF NumberedInv, Running

\* A message moves from the stream to the mailbox.
LEMMA NumberedReads ==
    ASSUME Sound, NumberedInv, ReadMessage
    PROVE  NumberedInv'
<1>0. Types /\ Stream /\ Market \in 0..MaxChanges
    BY BooksOf DEF Sound
<1>1. /\ Running /\ ReadsOne /\ mail' = Append(mail, Head(socket.q))
      /\ UNCHANGED <<rules, history, listener>>
    BY <1>0, ReadMessageShape
<1>2. PICK p \in Seq(Msg), r \in Seq(Msg) : p = socket.q /\ r = mail
    BY <1>0 DEF Types, SocketType
<1>3. PICK m, q : m = Head(p) /\ q = Tail(p)
    OBVIOUS
<1>4. m \in Msg /\ p # <<>> /\ socket'.q = q /\ socket'.up = socket.up /\ mail' = Append(r, m)
    BY <1>1, <1>2, <1>3 DEF ReadsOne
<1>5. /\ Brings(p) => LastChange(m) \/ Brings(q)
      /\ Brings(r) \/ LastChange(m) => Brings(Append(r, m))
    BY <1>3, <1>4, QueueIsRead, QueueGrows
<1>6. Awaited => Awaited'
    BY <1>2, <1>4, <1>5 DEF Awaited
<1>7. SUFFICES ASSUME rules.onMessage.order = "change" PROVE NumberedInv'
    BY <1>1 DEF NumberedInv
<1>8. Market' = Market /\ Running' /\ Running
    BY <1>1 DEF Market, Running
<1>9. (listener.last <= Market /\ listener.book = Book(listener.last))'
    BY <1>1, <1>7, <1>8 DEF NumberedInv, Book
<1>10. (rules.subscribe.align = "next" => Ascends(socket.q))'
    BY <1>1, <1>7, AscendsKeeps
<1>11. (socket.up /\ Market = MaxChanges /\ listener.last < MaxChanges => Awaited)'
    BY <1>1, <1>4, <1>6, <1>7, <1>8 DEF NumberedInv
<1> QED
    BY <1>8, <1>9, <1>10, <1>11 DEF NumberedInv, Running

\* The listener handles a message.
LEMMA NumberedHandles ==
    ASSUME Sound, NumberedInv, OnWebsocketMessage
    PROVE  NumberedInv'
<1>0. Types /\ Stream /\ Market \in 0..MaxChanges
    BY BooksOf DEF Sound
<1>1. PICK m : m = Head(mail)
    OBVIOUS
<1>2. /\ Running /\ mail # <<>> /\ mail' = Tail(mail) /\ UNCHANGED <<rules, history>>
      /\ m \in Msg /\ Tells(m)
      /\ \/ Skips(m) \/ GivesUp
         \/ socket' = NoSocket /\ UNCHANGED <<listener, follower>>
         \/ Goes(m) /\ (rules.onMessage.order # "none" => m.n = listener.last + 1)
         \/ Numbers(m)
    BY <1>0, <1>1, WebsocketShape
<1>3. CASE Skips(m)
  <2>1. PICK p \in Seq(Msg) : p = mail
      BY <1>0 DEF Types
  <2>2. Brings(p) => LastChange(m) \/ Brings(Tail(p))
      BY <2>1, <1>1, <1>2, QueueIsRead
  <2>3. rules.onMessage.order = "change" /\ listener.last < MaxChanges => ~LastChange(m)
    <3>1. rules.onMessage.order = "change" => m.n = m.k
        BY <1>0, <1>2, WhereNumbered DEF Tells
    <3>2. rules.onMessage.order = "change" => (Effective(m) <=> m.kind = "change")
        BY <1>0, WhereNumbered
    <3>3. listener.last \in Nat /\ MaxChanges \in Nat
        BY <1>0, VenueBounds DEF Types, ListenerType
    <3>4. ASSUME rules.onMessage.order = "change", LastChange(m), listener.last < MaxChanges
          PROVE  FALSE
      <4>1. m.kind = "change" /\ ~m.foreign /\ m.n = MaxChanges /\ Effective(m)
          BY <3>1, <3>2, <3>4 DEF LastChange
      <4>2. m.n <= listener.last
          BY <1>3, <4>1 DEF Skips
      <4> QED
          BY <3>3, <3>4, <4>1, <4>2
    <3> QED
        BY <3>4
  <2>4. rules.onMessage.order = "change" /\ listener.last < MaxChanges /\ Awaited => Awaited'
    <3>1. mail' = Tail(p) /\ socket' = socket
        BY <1>2, <1>3, <2>1 DEF Skips
    <3> QED
        BY <2>1, <2>2, <2>3, <3>1 DEF Awaited
  <2>5. listener' = listener /\ socket' = socket
      BY <1>3 DEF Skips
  <2> QED
      BY <2>4, <2>5, <1>2, NumberedStays
<1>4. CASE GivesUp
    BY <1>2, <1>4, NumberedTurns DEF GivesUp
<1>5. CASE socket' = NoSocket /\ UNCHANGED <<listener, follower>>
    BY <1>2, <1>5, NumberedStays
<1>6. CASE Goes(m) /\ (rules.onMessage.order # "none" => m.n = listener.last + 1)
    BY <1>1, <1>2, <1>6, NumberedGoes
<1>7. CASE Numbers(m)
  <2>1. rules'.onMessage.order # "change"
      BY <1>2, <1>7 DEF Numbers, InMessages
  <2> QED
      BY <2>1 DEF NumberedInv
<1> QED
    BY <1>2, <1>3, <1>4, <1>5, <1>6, <1>7

\* Every step keeps NumberedInv.
LEMMA NumberedStep ==
    ASSUME Sound, SendsInv, NumberedInv, [Next]_vars PROVE NumberedInv'
<1>0. Types /\ Stream
    BY DEF Sound
<1>1. CASE UNCHANGED vars
    BY <1>1, NumberedStays DEF vars, Awaited
<1>2. CASE \E s \in Levels : Change(s)
    BY <1>2, NumberedChange
<1>3. CASE SendBook \/ SendOther \/ ChangeLost
    BY <1>3, NumberedStream
<1>4. CASE SocketFails
    BY <1>0, <1>4, SocketFailsShape, NumberedStays DEF Disconnects
<1>5. CASE Connect \/ TakeSnapshot \/ AlignAtBound
    BY <1>5, NumberedSubscribing
<1>6. CASE AlignStream \/ AlignRest
    BY <1>6, NumberedAlign
<1>7. CASE SubscribeFails \/ Restart \/ CheckSockets
    BY <1>0, <1>7, QuitShape, NumberedTurns DEF Quits, Turns
<1>8. CASE ReadMessage
    BY <1>8, NumberedReads
<1>9. CASE OnWebsocketMessage
    BY <1>9, NumberedHandles
<1>10. CASE OnMarketDataRequest
  <2>1. UNCHANGED <<rules, history, socket, mail, listener, faults>>
      BY <1>0, <1>10, RequestShape
  <2> QED
      BY <2>1, NumberedStays DEF Awaited
<1> QED
    BY <1>1, <1>2, <1>3, <1>4, <1>5, <1>6, <1>7, <1>8, <1>9, <1>10 DEF Next

----------------------------------------------------------------------------
(***************************************************************************)
(* What is left of earlier sockets.                                        *)
(***************************************************************************)

\* A mailbox left alone still holds what it held.
LEMMA EarlierStays ==
    ASSUME MailInv, UNCHANGED <<rules, mail>>,
           listener'.phase \in {"snapshot", "align"} =>
              /\ listener.phase \in {"snapshot", "align"}
              /\ listener'.phase = "align" /\ FromRequest /\ rules.onMessage.order = "none"
                    => listener.phase = "align"
    PROVE  MailInv'
BY DEF MailInv, FromRequest

\* Every step keeps MailInv.
LEMMA MailStep ==
    ASSUME Sound, NumberedInv, MailInv, [Next]_vars PROVE MailInv'
<1>0. Types /\ Stream
    BY DEF Sound
<1>1. CASE UNCHANGED vars
    BY <1>1, EarlierStays DEF vars
<1>2. ASSUME NEW s \in Levels, Change(s) PROVE MailInv'
    BY <1>0, <1>2, ChangeShape, EarlierStays
<1>3. CASE SendBook \/ SendOther
    BY <1>0, <1>3, SendShape, EarlierStays
<1>4. CASE ChangeLost
    BY <1>0, <1>4, LostShape, EarlierStays
<1>5. CASE SocketFails
    BY <1>5, EarlierStays DEF SocketFails
<1>6. CASE Connect
  <2>1. /\ UNCHANGED rules /\ Len(mail') = Len(mail) /\ \A i \in 1..Len(mail) : mail'[i].foreign
        /\ Turns(IF FromRequest THEN "snapshot" ELSE "align")
      BY <1>0, <1>6, ConnectShape
  <2>2. FromRequest' = FromRequest /\ (FromRequest => listener'.phase # "align")
      BY <2>1 DEF FromRequest, Turns
  <2> QED
      BY <2>1, <2>2 DEF MailInv
<1>7. CASE TakeSnapshot
  <2>1. /\ listener.phase = "snapshot" /\ UNCHANGED <<rules, mail>>
        /\ \/ Begins(Market, Market)
           \/ rules.subscribe.align # "none" /\ Turns("align")
      BY <1>0, <1>7, SnapshotShape
  <2>2. FromRequest /\ rules.onMessage.order = "none" => rules.subscribe.align = "none"
      BY <1>0 DEF Types, Consistent, FromRequest
  <2>3. listener'.phase = "align" => ~(FromRequest /\ rules.onMessage.order = "none")
      BY <2>1, <2>2 DEF Begins
  <2> QED
      BY <2>1, <2>3, EarlierStays
<1>8. CASE AlignStream
  <2>1. /\ listener.phase = "align" /\ rules.subscribe.source = "stream" /\ UNCHANGED rules
        /\ \/ Begins(Head(socket.q).k, Head(socket.q).n) /\ mail' = mail
           \/ Turns("failed") /\ mail' = mail
           \/ /\ UNCHANGED <<listener, follower>>
              /\ mail' = IF rules.subscribe.align = "buffer" THEN Append(mail, Head(socket.q)) ELSE mail
      BY <1>0, <1>8, AlignStreamShape
  <2>2. CASE mail' = mail
      BY <2>1, <2>2, EarlierStays
  <2>3. CASE rules.subscribe.align = "buffer"
      BY <2>1, <2>3 DEF MailInv, FromRequest
  <2> QED
      BY <2>1, <2>2, <2>3
<1>9. CASE AlignRest
  <2>1. /\ UNCHANGED <<rules, mail>> /\ listener.phase = "align"
      BY <1>0, <1>9, AlignRestShape
  <2> QED
      BY <2>1, EarlierStays
<1>10. CASE AlignAtBound
  <2>1. /\ UNCHANGED <<rules, mail>> /\ listener.phase = "align"
      BY <1>0, <1>10, AtBoundShape
  <2> QED
      BY <2>1, EarlierStays
<1>11. CASE SubscribeFails \/ Restart \/ CheckSockets
    BY <1>0, <1>11, QuitShape, EarlierStays DEF Quits, Turns
<1>12. CASE ReadMessage
  <2>1. Running /\ UNCHANGED <<rules, listener>>
      BY <1>0, <1>12, ReadMessageShape
  <2> QED
      BY <2>1 DEF MailInv, Running
<1>13. CASE OnWebsocketMessage
  <2>1. PICK m : m = Head(mail)
      OBVIOUS
  <2>2. /\ Running /\ UNCHANGED rules
        /\ \/ Skips(m) \/ GivesUp \/ UNCHANGED listener \/ Goes(m) \/ Numbers(m)
      BY <1>0, <1>13, <2>1, WebsocketShape
  <2>3. listener'.phase \in {"running", "connect", "failed"}
      BY <2>2 DEF Skips, GivesUp, Goes, Numbers, Running
  <2> QED
      BY <2>2, <2>3 DEF MailInv
<1>14. CASE OnMarketDataRequest
  <2>1. UNCHANGED <<rules, mail, listener>>
      BY <1>0, <1>14, RequestShape
  <2> QED
      BY <2>1, EarlierStays
<1> QED
    BY <1>1, <1>2, <1>3, <1>4, <1>5, <1>6, <1>7, <1>8, <1>9, <1>10, <1>11, <1>12, <1>13, <1>14 DEF Next

----------------------------------------------------------------------------
(***************************************************************************)
(* Where every message is numbered.                                        *)
(***************************************************************************)

\* The rules of a venue that numbers every message.
LEMMA WhereCounted ==
    ASSUME Types, InMessages
    PROVE  /\ rules.onMessage.body = "change" /\ rules.onMessage.foreign = "skipped"
           /\ rules.onMessage.old = "gap" /\ rules.onMessage.order # "none"
           /\ rules.subscribe.align = "first" /\ ~FromRequest
           /\ \A m : Effective(m) <=> m.kind = "change"
<1>1. Consistent(rules) /\ rules.onMessage.order = "message"
    BY DEF Types, InMessages
<1>2. /\ rules.onMessage.body = "change" /\ rules.onMessage.foreign = "skipped"
      /\ rules.onMessage.old = "gap" /\ rules.subscribe.align = "first"
      /\ rules.subscribe.source = "stream"
    BY <1>1 DEF Consistent
<1> QED
    BY <1>1, <1>2 DEF Effective, FromRequest

\* What the stream's numbers count while it is only read.
LEMMA CountsStay ==
    ASSUME Sound, NEW base, NEW g, CountedSent(base, g), UNCHANGED <<rules, history>>,
           socket' = socket \/ ReadsOne
    PROVE  /\ CountedSent(base, g)' /\ socket'.sent = socket.sent /\ socket'.up = socket.up
           /\ \A m : Counts(base, g, m)' <=> Counts(base, g, m)
           /\ ReadsOne => /\ Counts(base, g, Head(socket.q))
                          /\ Head(socket.q).kind = "book" =>
                                Head(socket.q).n = base /\ g[base] = Head(socket.q).k
<1>1. socket'.sent = socket.sent /\ socket'.up = socket.up /\ socket'.booked = socket.booked /\ Market' = Market
    BY DEF ReadsOne, Market
<1>2. \A m : Counts(base, g, m)' <=> Counts(base, g, m)
    BY <1>1 DEF Counts
<1>3. PICK p \in Seq(Msg) : p = socket.q
    BY DEF Sound, Types, SocketType
<1>4. PICK q : q = socket'.q
    OBVIOUS
<1>5. \A i \in 1..Len(p) : Counts(base, g, p[i]) /\ (p[i].kind = "book" => p[i].n = base /\ g[base] = p[i].k)
    BY <1>3 DEF CountedSent
<1>6. ASSUME ReadsOne
      PROVE  /\ p # <<>> /\ Head(p) = p[1] /\ 1 \in 1..Len(p) /\ q = Tail(p)
             /\ \A i \in 1..Len(q) : q[i] = p[i + 1] /\ i + 1 \in 1..Len(p)
  <2>1. p # <<>> /\ q = Tail(p)
      BY <1>3, <1>4, <1>6 DEF ReadsOne
  <2> QED
      BY <2>1
<1>7. \A i \in 1..Len(q) : Counts(base, g, q[i]) /\ (q[i].kind = "book" => q[i].n = base /\ g[base] = q[i].k)
  <2>1. CASE socket' = socket
      BY <2>1, <1>3, <1>4, <1>5
  <2>2. CASE ReadsOne
      BY <2>2, <1>5, <1>6
  <2> QED
      BY <2>1, <2>2
<1>8. (\A i \in 1..Len(socket.q) : /\ Counts(base, g, socket.q[i])
                                   /\ socket.q[i].kind = "book" => socket.q[i].n = base /\ g[base] = socket.q[i].k)'
    BY <1>2, <1>4, <1>7
<1>9. CountedSent(base, g)'
    BY <1>1, <1>8 DEF CountedSent
<1> QED
    BY <1>1, <1>2, <1>3, <1>5, <1>6, <1>9

\* A message more is counted.
LEMMA CountsGrow ==
    ASSUME Sound, SendsInv, InMessages, UNCHANGED rules, Market' \in Nat,
           NEW g \in Numberings, NEW base \in 0..socket.sent, CountedSent(base, g),
           NEW m \in Msg, Sends(m),
           m.kind = "change" => m.k = Market' /\ Market' = Market + 1,
           m.kind = "book" => m.k = Market /\ ~socket.booked,
           m.kind # "change" => Market' = Market
    PROVE  \E h \in Numberings, b \in 0..socket'.sent :
              /\ CountedSent(b, h)'
              /\ socket.booked => b = base /\ \A n \in 0..socket.sent : h[n] = g[n]
<1>1. PICK N \in Nat : N = socket.sent
    BY DEF Sound, Types, SocketType
<1>2. /\ m.n = N + 1 /\ socket'.sent = N + 1 /\ socket'.booked = (socket.booked \/ m.kind = "book")
      /\ socket'.q = Append(socket.q, m) /\ socket.booked \in BOOLEAN
    BY <1>1 DEF Sends, Sound, Types, SocketType
<1>3. PICK h : h = [g EXCEPT ![N + 1] = Market']
    OBVIOUS
<1>4. h \in Numberings /\ h[N + 1] = Market' /\ \A n \in 0..N : h[n] = g[n]
    BY <1>1, <1>3 DEF Numberings
<1>5. PICK b : b = IF socket.booked THEN base ELSE N + 1
    OBVIOUS
<1>6. b \in 0..(N + 1) /\ b \in Nat /\ base \in 0..N /\ base \in Nat /\ base <= N
    BY <1>1, <1>5
<1>7. PICK p \in Seq(Msg) : p = socket.q
    BY DEF Sound, Types, SocketType
<1>8. \A i \in 1..Len(p) : /\ p[i].n \in Nat
                           /\ p[i].n <= N
                           /\ Counts(base, g, p[i])
                           /\ p[i].kind = "book" => p[i].n = base /\ g[base] = p[i].k
  <2>1. ASSUME NEW i \in 1..Len(p)
        PROVE  p[i].n \in Nat /\ p[i].n <= N
    <3>1. p[i] \in Msg /\ Counts(base, g, p[i])
        BY <1>7 DEF CountedSent
    <3>2. p[i].n > base => p[i].n <= N
        BY <3>1, <1>1 DEF Counts
    <3>3. p[i].n \in Nat
        BY <3>1 DEF Msg
    <3>4. PICK x \in Nat, y \in Nat : x = p[i].n /\ y = base
        BY <3>3, <1>6
    <3>5. x <= N
        BY <3>2, <3>4, <1>1, <1>6
    <3> QED
        BY <3>3, <3>4, <3>5
  <2> QED
      BY <2>1, <1>7 DEF CountedSent
<1>9. ASSUME NEW i \in 1..Len(p)
      PROVE  Counts(b, h, p[i])' /\ (p[i].kind = "book" => p[i].n = b /\ h[b] = p[i].k)
  <2>1. PICK e, x : e = p[i] /\ x = e.n
      OBVIOUS
  <2>2. /\ e.n \in Nat /\ e.n <= N /\ Counts(base, g, e)
        /\ e.kind = "book" => e.n = base /\ g[base] = e.k
        /\ x \in Nat /\ x <= N
      BY <2>1, <1>8
  <2>3. CASE socket.booked
    <3>1. b = base
        BY <2>3, <1>5
    <3>2. h[base] = g[base]
        BY <1>4, <1>6
    <3>3. Counts(b, h, e)'
      <4>1. SUFFICES ASSUME e.n > base
                     PROVE  /\ e.n <= socket'.sent /\ e.kind # "book"
                            /\ IF e.kind = "change" THEN h[e.n] = e.k /\ h[e.n - 1] = e.k - 1
                                                    ELSE h[e.n] = h[e.n - 1]
          BY <3>1 DEF Counts
      <4>2. h[e.n] = g[e.n] /\ h[e.n - 1] = g[e.n - 1] /\ e.n <= N + 1
        <5>1. x > base /\ base \in Nat
            BY <4>1, <2>1, <1>6
        <5>2. x \in 0..N /\ x - 1 \in 0..N /\ x <= N + 1
            BY <5>1, <2>2, <1>1
        <5>3. h[x] = g[x] /\ h[x - 1] = g[x - 1]
            BY <5>2, <1>4
        <5> QED
            BY <5>2, <5>3, <2>1
      <4> QED
          BY <4>1, <4>2, <2>2, <1>2 DEF Counts
    <3> QED
        BY <2>1, <2>2, <3>1, <3>2, <3>3
  <2>4. CASE ~socket.booked
    <3>1. ~(x > b)
        BY <2>2, <2>4, <1>1, <1>5
    <3>2. e.kind # "book"
        BY <2>1, <2>4, <1>7 DEF SendsInv
    <3> QED
        BY <2>1, <3>1, <3>2 DEF Counts
  <2> QED
      BY <2>3, <2>4
<1>10. Counts(b, h, m)' /\ (m.kind = "book" => m.n = b /\ h[b] = m.k)
  <2>1. CASE m.kind = "book"
    <3>1. b = N + 1 /\ h[b] = Market' /\ Market' = Market /\ m.k = Market
        BY <2>1, <1>4, <1>5
    <3> QED
        BY <3>1, <1>2 DEF Counts
  <2>2. CASE m.kind # "book" /\ ~socket.booked
    <3>1. ~(m.n > b)
        BY <2>2, <1>2, <1>5
    <3> QED
        BY <2>2, <3>1 DEF Counts
  <2>3. CASE m.kind # "book" /\ socket.booked
    <3>1. g[N] = Market /\ h[N] = g[N]
        BY <2>3, <1>1, <1>4 DEF CountedSent
    <3>2. PICK x \in Nat : x = m.n /\ x = N + 1 /\ x - 1 = N
        BY <1>1, <1>2
    <3>3. h[x] = Market' /\ h[x - 1] = Market /\ x <= socket'.sent
        BY <3>1, <3>2, <1>2, <1>4
    <3>4. PICK M \in Nat : M = Market
        BY BooksOf DEF Sound
    <3>5. m.kind = "change" => m.k = Market' /\ m.k - 1 = M
        BY <3>4
    <3>6. m.kind # "change" => Market' = M
        BY <3>4
    <3> QED
        BY <2>3, <3>2, <3>3, <3>4, <3>5, <3>6 DEF Counts
  <2> QED
      BY <2>1, <2>2, <2>3
<1>11. PICK q : q = Append(p, m)
    OBVIOUS
<1>12. \A i \in 1..Len(q) : (i \in 1..Len(p) /\ q[i] = p[i]) \/ q[i] = m
    BY <1>11
<1>13. \A i \in 1..Len(q) : Counts(b, h, q[i])' /\ (q[i].kind = "book" => q[i].n = b /\ h[b] = q[i].k)
    BY <1>9, <1>10, <1>12
<1>14. (\A i \in 1..Len(socket.q) : /\ Counts(b, h, socket.q[i])
                                    /\ socket.q[i].kind = "book" => socket.q[i].n = b /\ h[b] = socket.q[i].k)'
    BY <1>2, <1>7, <1>11, <1>13
<1>15. ~socket'.booked => b = socket'.sent
    BY <1>2, <1>5
<1>16. h[socket'.sent] = Market'
    BY <1>2, <1>4
<1>17. CountedSent(b, h)'
    BY <1>14, <1>15, <1>16 DEF CountedSent
<1> QED
    BY <1>1, <1>2, <1>4, <1>5, <1>6, <1>17

\* While the listener does not run nothing is asked of its book.
LEMMA CountedTurns ==
    ASSUME Sound, CountedInv, UNCHANGED <<rules, history>>, listener'.phase # "running",
           \/ socket' = socket
           \/ socket' = NoSocket
           \/ ReadsOne
    PROVE  CountedInv'
<1>1. CASE socket' = NoSocket
  <2>1. ~socket'.up
      BY <1>1, NoSocketShape
  <2> QED
      BY <2>1 DEF CountedInv
<1>2. CASE socket' = socket \/ ReadsOne
  <2>1. socket'.up = socket.up
      BY <1>2 DEF ReadsOne
  <2>2. SUFFICES ASSUME InMessages, socket.up PROVE CountedInv'
      BY <2>1 DEF CountedInv, InMessages
  <2>3. PICK g \in Numberings, base \in 0..socket.sent : CountedSent(base, g)
      BY <2>2 DEF CountedInv
  <2>4. CountedSent(base, g)' /\ socket'.sent = socket.sent
      BY <1>2, <2>3, CountsStay
  <2>5. CountedRead(base, g)'
      BY DEF CountedRead, Running
  <2>6. base \in 0..socket'.sent
      BY <2>4
  <2> QED
      BY <2>4, <2>5, <2>6 DEF CountedInv
<1> QED
    BY <1>1, <1>2

\* A change, the book, a trade or the answer to a ping.
LEMMA CountedSends ==
    ASSUME Sound, SendsInv, CountedInv, UNCHANGED <<rules, mail, listener>>,
           Market' \in Nat, Market' >= Market, Market' <= MaxChanges,
           \A k \in 0..Market : Book(k)' = Book(k),
           NEW m \in Msg, Sends(m),
           m.kind = "change" => m.k = Market' /\ Market' = Market + 1,
           m.kind = "book" => m.k = Market /\ ~socket.booked,
           m.kind # "change" => Market' = Market
    PROVE  CountedInv'
<1>1. socket'.up = socket.up /\ (InMessages' <=> InMessages) /\ Running' = Running
    BY DEF Sends, InMessages, Running
<1>2. SUFFICES ASSUME InMessages, socket.up PROVE CountedInv'
    BY <1>1 DEF CountedInv
<1>3. PICK g \in Numberings, base \in 0..socket.sent : CountedSent(base, g) /\ CountedRead(base, g)
    BY <1>2 DEF CountedInv
<1>4. PICK h \in Numberings, b \in 0..socket'.sent :
        /\ CountedSent(b, h)'
        /\ socket.booked => b = base /\ \A n \in 0..socket.sent : h[n] = g[n]
    BY <1>2, <1>3, CountsGrow
<1>5. ASSUME Running PROVE CountedRead(b, h)'
  <2>1. PICK N \in Nat : N = socket.sent /\ socket'.sent = N + 1
      BY DEF Sound, Types, SocketType, Sends
  <2>2. b = base /\ \A n \in 0..N : h[n] = g[n]
      BY <1>2, <1>4, <1>5, <2>1 DEF SendsInv
  <2>3. PICK y \in 0..N : y = base
      BY <1>3, <2>1
  <2>4. ASSUME NEW e \in Msg, Counts(base, g, e) PROVE Counts(b, h, e)'
    <3>1. SUFFICES ASSUME e.n > y
                   PROVE  /\ e.n <= N + 1 /\ e.kind # "book"
                          /\ IF e.kind = "change" THEN h[e.n] = e.k /\ h[e.n - 1] = e.k - 1
                                                  ELSE h[e.n] = h[e.n - 1]
        BY <2>1, <2>2, <2>3 DEF Counts
    <3>2. PICK x \in Nat : x = e.n /\ x > y
        BY <3>1 DEF Msg
    <3>3. /\ x <= N /\ e.kind # "book"
          /\ IF e.kind = "change" THEN g[x] = e.k /\ g[x - 1] = e.k - 1 ELSE g[x] = g[x - 1]
        BY <2>1, <2>3, <2>4, <3>2 DEF Counts
    <3>4. x \in 0..N /\ x - 1 \in 0..N /\ x <= N + 1
        BY <2>3, <3>2, <3>3
    <3>5. h[x] = g[x] /\ h[x - 1] = g[x - 1]
        BY <2>2, <3>4
    <3> QED
        BY <3>2, <3>3, <3>4, <3>5
  <2>5. (\A i \in 1..Len(mail) : ~mail[i].foreign => Counts(b, h, mail[i]))'
    <3>1. PICK r \in Seq(Msg) : r = mail /\ r = mail'
        BY DEF Sound, Types
    <3>2. \A i \in 1..Len(r) : ~r[i].foreign => Counts(base, g, r[i])
        BY <1>3, <1>5, <3>1 DEF CountedRead
    <3>3. \A i \in 1..Len(r) : r[i] \in Msg
        OBVIOUS
    <3>4. \A i \in 1..Len(r) : ~r[i].foreign => Counts(b, h, r[i])'
        BY <2>4, <3>2, <3>3
    <3> QED
        BY <3>1, <3>4
  <2>6. ASSUME ~listener.missed
        PROVE  (/\ b <= listener.last /\ listener.last <= socket.sent
                /\ g[listener.last] <= Market /\ listener.book = Book(g[listener.last])
                /\ Market = MaxChanges /\ g[listener.last] < MaxChanges => Awaited)'
    <3>1. PICK x \in Nat : x = listener.last /\ x = listener'.last
        BY DEF Sound, Types, ListenerType
    <3>2. PICK d : d = g[x]
        OBVIOUS
    <3>3. /\ y <= x /\ x <= N /\ d <= Market /\ listener.book = Book(d)
          /\ Market = MaxChanges /\ d < MaxChanges => Awaited
        BY <1>3, <1>5, <2>1, <2>3, <2>6, <3>1, <3>2 DEF CountedRead
    <3>4. PICK M \in Nat : M = Market
        BY BooksOf DEF Sound
    <3>5. d \in Nat /\ d \in 0..Market /\ d <= Market'
      <4>1. d \in Nat
          BY <3>1, <3>2 DEF Numberings
      <4> QED
          BY <3>3, <3>4, <4>1
    <3>6. listener'.book = Book(d)'
        BY <3>3, <3>5
    <3>7. Market' = MaxChanges /\ d < MaxChanges => Awaited'
      <4>1. PICK p \in Seq(Msg) : p = socket.q
          BY DEF Sound, Types, SocketType
      <4>2. socket'.q = Append(p, m) /\ ~m.foreign
          BY <4>1 DEF Sends
      <4>3. Brings(p) \/ LastChange(m) => Brings(Append(p, m))
          BY QueueGrows
      <4>4. CASE m.kind = "change"
          BY <4>2, <4>3, <4>4 DEF LastChange, Awaited
      <4>5. CASE m.kind # "change"
        <5>1. Market' = MaxChanges /\ d < MaxChanges => Awaited
            BY <3>3, <4>5
        <5> QED
            BY <4>1, <4>2, <4>3, <5>1 DEF Awaited
      <4> QED
          BY <4>4, <4>5
    <3>8. b <= listener'.last /\ listener'.last <= socket'.sent
        BY <2>1, <2>2, <2>3, <3>1, <3>3
    <3> QED
        BY <3>1, <3>2, <3>5, <3>6, <3>7, <3>8 DEF Book
  <2>7. ~listener'.missed =>
          (/\ b <= listener.last /\ listener.last <= socket.sent
           /\ h[listener.last] <= Market /\ listener.book = Book(h[listener.last])
           /\ Market = MaxChanges /\ h[listener.last] < MaxChanges => Awaited)'
    <3>1. SUFFICES ASSUME ~listener'.missed
                   PROVE  (/\ b <= listener.last /\ listener.last <= socket.sent
                           /\ h[listener.last] <= Market /\ listener.book = Book(h[listener.last])
                           /\ Market = MaxChanges /\ h[listener.last] < MaxChanges => Awaited)'
        OBVIOUS
    <3>2. PICK x \in Nat : x = listener.last /\ x = listener'.last
        BY DEF Sound, Types, ListenerType
    <3>3. x <= N
        BY <1>3, <1>5, <2>1, <3>1, <3>2 DEF CountedRead
    <3>4. h[x] = g[x]
        BY <2>2, <3>2, <3>3
    <3> QED
        BY <2>6, <3>1, <3>2, <3>4
  <2> QED
      BY <2>5, <2>7 DEF CountedRead
<1>6. ~Running => CountedRead(b, h)'
    BY <1>1 DEF CountedRead
<1> QED
    BY <1>4, <1>5, <1>6 DEF CountedInv

\* What is left of the stream is numbered as it was.
LEMMA CountedLoses ==
    ASSUME Sound, CountedInv, ChangeLost PROVE CountedInv'
<1>0. Types /\ Stream
    BY DEF Sound
<1>1. UNCHANGED <<rules, history, mail, listener, follower>> /\ \E i \in 1..Len(socket.q) : Loses(i)
    BY <1>0, LostShape
<1>2. PICK p \in Seq(Msg) : p = socket.q
    BY <1>0 DEF Types, SocketType
<1>3. PICK q : q = socket'.q
    OBVIOUS
<1>4. PICK i \in 1..Len(p) : Loses(i)
    BY <1>1, <1>2
<1>5. /\ p[i].k # MaxChanges /\ Len(q) = Len(p) - 1 /\ q \in Seq(Msg)
      /\ \A j \in 1..(i - 1) : q[j] = p[j]
      /\ \A j \in i..(Len(p) - 1) : q[j] = p[j + 1]
      /\ socket'.up = socket.up /\ socket'.booked = socket.booked /\ socket'.sent = socket.sent
    BY <1>2, <1>3, <1>4 DEF Loses
<1>6. (Brings(p) => Brings(q)) /\ \A j \in 1..Len(q) : \E l \in 1..Len(p) : q[j] = p[l]
    BY <1>5, QueueLoses
<1>7. (InMessages' <=> InMessages) /\ Running' = Running /\ Market' = Market /\ listener' = listener /\ mail' = mail
    BY <1>1 DEF InMessages, Running, Market
<1>8. SUFFICES ASSUME InMessages, socket.up PROVE CountedInv'
    BY <1>5, <1>7 DEF CountedInv
<1>9. PICK g \in Numberings, base \in 0..socket.sent : CountedSent(base, g) /\ CountedRead(base, g)
    BY <1>8 DEF CountedInv
<1>10. \A m : Counts(base, g, m)' <=> Counts(base, g, m)
    BY <1>5 DEF Counts
<1>11. \A j \in 1..Len(q) : Counts(base, g, q[j])' /\ (q[j].kind = "book" => q[j].n = base /\ g[base] = q[j].k)
    BY <1>2, <1>6, <1>9, <1>10 DEF CountedSent
<1>12. CountedSent(base, g)'
  <2>1. (\A j \in 1..Len(socket.q) : /\ Counts(base, g, socket.q[j])
                                     /\ socket.q[j].kind = "book" => socket.q[j].n = base /\ g[base] = socket.q[j].k)'
      BY <1>3, <1>11
  <2> QED
      BY <2>1, <1>5, <1>7, <1>9 DEF CountedSent
<1>13. CountedRead(base, g)'
  <2>1. Awaited => Awaited'
      BY <1>2, <1>3, <1>6, <1>7 DEF Awaited
  <2>2. \A k : Book(k)' = Book(k)
      BY <1>1 DEF Book
  <2>3. SUFFICES ASSUME Running PROVE CountedRead(base, g)'
      BY <1>7 DEF CountedRead
  <2>4. (\A j \in 1..Len(mail) : ~mail[j].foreign => Counts(base, g, mail[j]))'
      BY <2>3, <1>7, <1>9, <1>10 DEF CountedRead
  <2>5. (~listener.missed =>
            /\ base <= listener.last /\ listener.last <= socket.sent
            /\ g[listener.last] <= Market /\ listener.book = Book(g[listener.last])
            /\ Market = MaxChanges /\ g[listener.last] < MaxChanges => Awaited)'
      BY <2>1, <2>2, <2>3, <1>5, <1>7, <1>9 DEF CountedRead
  <2> QED
      BY <2>4, <2>5 DEF CountedRead
<1>14. base \in 0..socket'.sent
    BY <1>5
<1> QED
    BY <1>12, <1>13, <1>14 DEF CountedInv

\* The book, from which the changes are counted.
LEMMA CountedAlign ==
    ASSUME Sound, SendsInv, MailInv, CountedInv, AlignStream PROVE CountedInv'
<1>0. Types /\ Stream
    BY DEF Sound
<1>1. PICK p \in Seq(Msg) : p = socket.q
    BY <1>0 DEF Types, SocketType
<1>2. PICK m : m = Head(p)
    OBVIOUS
<1>3. /\ listener.phase = "align" /\ UNCHANGED <<rules, history>> /\ ReadsOne
      /\ \/ m.kind = "book" /\ Begins(m.k, m.n) /\ mail' = mail
         \/ Turns("failed") \/ UNCHANGED listener
    BY <1>0, <1>1, <1>2, AlignStreamShape
<1>4. CASE Turns("failed") \/ UNCHANGED listener
    BY <1>3, <1>4, CountedTurns DEF Turns
<1>5. CASE m.kind = "book" /\ Begins(m.k, m.n) /\ mail' = mail
  <2>1. socket'.up = socket.up /\ socket'.q = Tail(p)
      BY <1>1, <1>3 DEF ReadsOne
  <2>2. SUFFICES ASSUME InMessages, socket.up PROVE CountedInv'
      BY <2>1, <1>3 DEF CountedInv, InMessages
  <2>3. PICK g \in Numberings, base \in 0..socket.sent : CountedSent(base, g)
      BY <2>2 DEF CountedInv
  <2>4. /\ CountedSent(base, g)' /\ socket'.sent = socket.sent
        /\ m.n = base /\ g[base] = m.k
      BY <2>3, <1>1, <1>2, <1>3, <1>5, CountsStay
  <2>5. \A i \in 1..Len(mail') : mail'[i].foreign
      BY <2>2, <1>0, <1>3, <1>5, WhereCounted DEF MailInv
  <2>6. /\ listener'.last = base /\ listener'.book = Book(m.k)' /\ m.k <= Market /\ Market' = Market
    <3>1. Book(m.k)' = Book(m.k) /\ Market' = Market
        BY <1>3 DEF Book, Market
    <3>2. Market \in 0..MaxChanges
        BY <1>0, BooksOf
    <3> QED
        BY <2>4, <3>1, <3>2, <1>5 DEF Begins
  <2>7. Market = MaxChanges /\ m.k < MaxChanges => Brings(socket'.q)
    <3>1. m.k < MaxChanges => Precedes(m)
        BY <1>5 DEF Precedes
    <3>2. Market = MaxChanges => Follows(p)
        BY <1>1 DEF SendsInv
    <3>3. p # <<>>
        BY <1>1, <1>3 DEF ReadsOne
    <3> QED
        BY <3>1, <3>2, <3>3, <2>1, <1>2, QueueIsRead
  <2>8. (base <= listener.last /\ listener.last <= socket.sent)'
      BY <2>3, <2>4, <2>6, <1>0 DEF Types, SocketType
  <2>9. (/\ g[listener.last] <= Market /\ listener.book = Book(g[listener.last])
         /\ Market = MaxChanges /\ g[listener.last] < MaxChanges => Awaited)'
    <3>1. PICK x, d : x = listener'.last /\ d = g[x] /\ d = m.k
        BY <2>4, <2>6
    <3>2. d <= Market' /\ listener'.book = Book(d)' /\ (Market' = MaxChanges /\ d < MaxChanges => Awaited')
        BY <2>6, <2>7, <3>1 DEF Awaited
    <3> QED
        BY <3>1, <3>2 DEF Book
  <2>10. CountedRead(base, g)'
      BY <2>5, <2>8, <2>9 DEF CountedRead
  <2>11. base \in 0..socket'.sent
      BY <2>4
  <2> QED
      BY <2>4, <2>10, <2>11 DEF CountedInv
<1> QED
    BY <1>3, <1>4, <1>5

\* A message moves from the stream to the mailbox.
LEMMA CountedReads ==
    ASSUME Sound, CountedInv, ReadMessage PROVE CountedInv'
<1>0. Types /\ Stream
    BY DEF Sound
<1>1. /\ Running /\ ReadsOne /\ mail' = Append(mail, Head(socket.q))
      /\ UNCHANGED <<rules, history, listener>>
    BY <1>0, ReadMessageShape
<1>2. PICK p \in Seq(Msg), r \in Seq(Msg) : p = socket.q /\ r = mail
    BY <1>0 DEF Types, SocketType
<1>3. PICK m, q : m = Head(p) /\ q = Tail(p)
    OBVIOUS
<1>4. m \in Msg /\ p # <<>> /\ socket'.q = q /\ socket'.up = socket.up /\ mail' = Append(r, m)
    BY <1>1, <1>2, <1>3 DEF ReadsOne
<1>5. /\ Brings(p) => LastChange(m) \/ Brings(q)
      /\ Brings(r) \/ LastChange(m) => Brings(Append(r, m))
    BY <1>3, <1>4, QueueIsRead, QueueGrows
<1>6. Awaited => Awaited'
    BY <1>2, <1>4, <1>5 DEF Awaited
<1>7. SUFFICES ASSUME InMessages, socket.up PROVE CountedInv'
    BY <1>1, <1>4 DEF CountedInv, InMessages
<1>8. PICK g \in Numberings, base \in 0..socket.sent : CountedSent(base, g) /\ CountedRead(base, g)
    BY <1>7 DEF CountedInv
<1>9. /\ CountedSent(base, g)' /\ socket'.sent = socket.sent
      /\ \A e : Counts(base, g, e)' <=> Counts(base, g, e)
      /\ Counts(base, g, m)
    BY <1>1, <1>2, <1>3, <1>8, CountsStay
<1>10. PICK t : t = Append(r, m)
    OBVIOUS
<1>11. \A i \in 1..Len(t) : ~t[i].foreign => Counts(base, g, t[i])'
  <2>1. \A i \in 1..Len(t) : (i \in 1..Len(r) /\ t[i] = r[i]) \/ t[i] = m
      BY <1>10
  <2>2. \A i \in 1..Len(r) : ~r[i].foreign => Counts(base, g, r[i])
      BY <1>1, <1>2, <1>8 DEF CountedRead
  <2> QED
      BY <2>1, <2>2, <1>9
<1>12. (\A i \in 1..Len(mail) : ~mail[i].foreign => Counts(base, g, mail[i]))'
    BY <1>4, <1>10, <1>11
<1>13. (~listener.missed =>
          /\ base <= listener.last /\ listener.last <= socket.sent
          /\ g[listener.last] <= Market /\ listener.book = Book(g[listener.last])
          /\ Market = MaxChanges /\ g[listener.last] < MaxChanges => Awaited)'
  <2>1. Market' = Market /\ \A k : Book(k)' = Book(k)
      BY <1>1 DEF Market, Book
  <2> QED
      BY <2>1, <1>1, <1>6, <1>8, <1>9 DEF CountedRead
<1>14. CountedRead(base, g)'
    BY <1>12, <1>13 DEF CountedRead
<1>15. base \in 0..socket'.sent
    BY <1>9
<1> QED
    BY <1>9, <1>14, <1>15 DEF CountedInv

\* The number after the last is that of the next change, or of no change.
LEMMA CountedHandles ==
    ASSUME Sound, CountedInv, OnWebsocketMessage PROVE CountedInv'
<1>0. Types /\ Stream /\ Market \in 0..MaxChanges
    BY BooksOf DEF Sound
<1>1. PICK p \in Seq(Msg) : p = mail
    BY <1>0 DEF Types
<1>2. PICK m : m = Head(p)
    OBVIOUS
<1>3. /\ Running /\ p # <<>> /\ mail' = Tail(p) /\ UNCHANGED <<rules, history>>
      /\ m \in Msg /\ Tells(m)
      /\ \/ Skips(m) \/ GivesUp
         \/ socket' = NoSocket /\ UNCHANGED <<listener, follower>>
         \/ /\ Goes(m) /\ ~(m.foreign /\ rules.onMessage.foreign = "skipped")
            /\ rules.onMessage.order # "none" => m.n = listener.last + 1
         \/ Numbers(m)
    BY <1>0, <1>1, <1>2, WebsocketShape
<1>4. CASE GivesUp
    BY <1>3, <1>4, CountedTurns DEF GivesUp
<1>5. CASE socket' = NoSocket
  <2>1. ~socket'.up
      BY <1>5, NoSocketShape
  <2> QED
      BY <2>1 DEF CountedInv
<1>6. CASE \/ Skips(m)
           \/ /\ Goes(m) /\ ~(m.foreign /\ rules.onMessage.foreign = "skipped")
              /\ rules.onMessage.order # "none" => m.n = listener.last + 1
           \/ Numbers(m)
  <2>1. socket' = socket
      BY <1>6 DEF Skips, Goes, Numbers
  <2>2. SUFFICES ASSUME InMessages, socket.up PROVE CountedInv'
      BY <1>3, <2>1 DEF CountedInv, InMessages
  <2>3. /\ rules.onMessage.foreign = "skipped" /\ rules.onMessage.old = "gap"
        /\ rules.onMessage.order # "none" /\ rules.onMessage.body = "change"
        /\ Effective(m) <=> m.kind = "change"
      BY <2>2, <1>0, WhereCounted
  <2>4. PICK g \in Numberings, base \in 0..socket.sent : CountedSent(base, g) /\ CountedRead(base, g)
      BY <2>2 DEF CountedInv
  <2>5. /\ CountedSent(base, g)' /\ socket'.sent = socket.sent
        /\ \A e : Counts(base, g, e)' <=> Counts(base, g, e)
      BY <1>3, <2>1, <2>4, CountsStay
  <2>6. PICK q : q = Tail(p)
      OBVIOUS
  <2>7. /\ q \in Seq(Msg) /\ Len(q) \in Nat /\ Len(p) = Len(q) + 1 /\ p[1] = m
        /\ \A i \in 1..Len(q) : q[i] = p[i + 1]
        /\ Brings(p) => LastChange(m) \/ Brings(q)
      BY <1>2, <1>3, <2>6, QueueIsRead
  <2>8. \A i \in 1..Len(p) : ~p[i].foreign => Counts(base, g, p[i])
      BY <1>1, <1>3, <2>4 DEF CountedRead
  <2>9. ~m.foreign => Counts(base, g, m)
    <3>1. 1 \in 1..Len(p)
        BY <2>7
    <3> QED
        BY <3>1, <2>7, <2>8
  <2>10. (\A i \in 1..Len(mail) : ~mail[i].foreign => Counts(base, g, mail[i]))'
    <3>1. \A i \in 1..Len(q) : i + 1 \in 1..Len(p)
        BY <2>7
    <3>2. \A i \in 1..Len(q) : ~q[i].foreign => Counts(base, g, q[i])'
        BY <3>1, <2>5, <2>7, <2>8
    <3> QED
        BY <3>2, <1>3, <2>6
  <2>11. PICK N \in Nat, x \in Nat, y \in Nat : N = socket.sent /\ x = listener.last /\ y = base
      BY <1>0, <2>4 DEF Types, SocketType, ListenerType
  <2>12. PICK M \in Nat : M = Market /\ M <= MaxChanges
      BY <1>0, VenueBounds
  <2>13. PICK d \in Nat : d = g[x]
      BY <2>4, <2>11 DEF Numberings
  <2>14. ~listener.missed =>
           /\ y <= x /\ x <= N /\ d <= M /\ listener.book = Book(d)
           /\ M = MaxChanges /\ d < MaxChanges => Awaited
      BY <1>3, <2>4, <2>11, <2>12, <2>13 DEF CountedRead
  <2>15. M = Market' /\ \A k : Book(k)' = Book(k)
      BY <1>3, <2>12 DEF Market, Book
  <2>16. Awaited => LastChange(m) \/ Awaited'
      BY <1>1, <1>3, <2>1, <2>6, <2>7 DEF Awaited
  <2>17. ASSUME ~listener'.missed
         PROVE  \E z, c : /\ z = listener'.last /\ c = g[z]
                          /\ y <= z /\ z <= N /\ c <= M /\ listener'.book = Book(c)
                          /\ M = MaxChanges /\ c < MaxChanges => Awaited'
    <3>1. CASE Skips(m)
      <4>1. ~LastChange(m)
          BY <2>2, <2>3, <3>1 DEF Skips, LastChange
      <4>2. listener' = listener
          BY <3>1 DEF Skips
      <4> QED
          BY <4>1, <4>2, <2>11, <2>12, <2>13, <2>14, <2>16, <2>17
    <3>2. CASE /\ Goes(m) /\ ~(m.foreign /\ rules.onMessage.foreign = "skipped")
               /\ rules.onMessage.order # "none" => m.n = listener.last + 1
      <4>1. m.kind = "change" /\ ~m.foreign /\ m.n = x + 1 /\ listener'.last = m.n
          BY <2>3, <2>11, <3>2 DEF Goes
      <4>2. ~listener.missed
        <5>1. listener'.missed = (listener.missed /\ rules.onMessage.body = "change")
            BY <2>3, <3>2 DEF Goes
        <5> QED
            BY <5>1, <2>3, <2>17
      <4>3. y <= x /\ x <= N /\ d <= M /\ listener.book = Book(d)
          BY <4>2, <2>14
      <4>4. PICK z \in Nat : z = m.n /\ z = x + 1 /\ z > y /\ z - 1 = x
          BY <4>1, <4>3
      <4>5. z <= N /\ g[z] = m.k /\ g[z - 1] = m.k - 1
          BY <2>9, <2>11, <4>1, <4>4 DEF Counts
      <4>6. PICK k \in Nat : k = m.k /\ k >= 1 /\ k <= M
          BY <1>3, <2>12, <4>1, VenueBounds DEF Tells, Msg
      <4>7. d = k - 1 /\ g[z] = k
          BY <2>13, <4>4, <4>5, <4>6
      <4>8. listener'.book = Book(k)
        <5>1. listener'.book = Update(Book(k - 1), Content(k))
            BY <3>2, <4>3, <4>6, <4>7 DEF Goes
        <5>2. k \in 1..Market
            BY <2>12, <4>6
        <5> QED
            BY <5>1, <5>2, <1>0, <2>3, BooksOf
      <4>9. M = MaxChanges /\ k < MaxChanges => Awaited'
        <5>1. k < MaxChanges => ~LastChange(m)
            BY <4>6, VenueBounds DEF LastChange
        <5>2. k < MaxChanges => d < MaxChanges
            BY <4>6, <4>7, VenueBounds
        <5> QED
            BY <5>1, <5>2, <2>14, <2>16, <4>2
      <4> QED
          BY <4>1, <4>3, <4>4, <4>5, <4>6, <4>7, <4>8, <4>9
    <3>3. CASE Numbers(m)
      <4>1. /\ m.kind # "change" /\ ~m.foreign /\ listener'.last = m.n /\ listener'.book = listener.book
            /\ ~listener.missed /\ m.n = x + 1
          BY <2>3, <2>11, <2>17, <3>3 DEF Numbers
      <4>2. y <= x /\ x <= N /\ d <= M /\ listener.book = Book(d)
          BY <4>1, <2>14
      <4>3. PICK z \in Nat : z = m.n /\ z = x + 1 /\ z > y /\ z - 1 = x
          BY <4>1, <4>2
      <4>4. z <= N /\ g[z] = g[z - 1]
          BY <2>9, <2>11, <4>1, <4>3 DEF Counts
      <4>5. g[z] = d
          BY <4>3, <4>4, <2>13
      <4>6. ~LastChange(m)
          BY <4>1 DEF LastChange
      <4>7. M = MaxChanges /\ d < MaxChanges => Awaited'
          BY <4>1, <4>6, <2>14, <2>16
      <4> QED
          BY <4>1, <4>2, <4>3, <4>4, <4>5, <4>7
    <3> QED
        BY <1>6, <3>1, <3>2, <3>3
  <2>18. (~listener.missed =>
            /\ base <= listener.last /\ listener.last <= socket.sent
            /\ g[listener.last] <= Market /\ listener.book = Book(g[listener.last])
            /\ Market = MaxChanges /\ g[listener.last] < MaxChanges => Awaited)'
    <3>1. SUFFICES ASSUME ~listener'.missed
                   PROVE  (/\ base <= listener.last /\ listener.last <= socket.sent
                           /\ g[listener.last] <= Market /\ listener.book = Book(g[listener.last])
                           /\ Market = MaxChanges /\ g[listener.last] < MaxChanges => Awaited)'
        OBVIOUS
    <3>2. PICK z, c : /\ z = listener'.last /\ c = g[z]
                      /\ y <= z /\ z <= N /\ c <= M /\ listener'.book = Book(c)
                      /\ M = MaxChanges /\ c < MaxChanges => Awaited'
        BY <2>17, <3>1
    <3>3. listener'.book = Book(c)' /\ c <= Market' /\ (Market' = MaxChanges /\ c < MaxChanges => Awaited')
        BY <3>2, <2>15
    <3>4. base <= listener'.last /\ listener'.last <= socket'.sent
        BY <3>2, <2>5, <2>11
    <3> QED
        BY <3>2, <3>3, <3>4 DEF Book
  <2>19. CountedRead(base, g)'
      BY <2>10, <2>18 DEF CountedRead
  <2>20. base \in 0..socket'.sent
      BY <2>5
  <2> QED
      BY <2>5, <2>19, <2>20 DEF CountedInv
<1> QED
    BY <1>3, <1>4, <1>5, <1>6

\* A change of the exchange's book.
LEMMA CountedChange ==
    ASSUME Sound, SendsInv, CountedInv, NEW s \in Levels, Change(s)
    PROVE  CountedInv'
<1>0. Types /\ Stream /\ Market \in 0..MaxChanges
    BY BooksOf DEF Sound
<1>1. PICK b \in Books : history' = Append(history, b)
    BY <1>0, ChangeShape
<1>2. /\ Market < MaxChanges /\ UNCHANGED <<rules, mail, listener, follower>>
      /\ \/ socket.up /\ \E m \in Msg : m.kind = "change" /\ m.k = Market + 1 /\ Sends(m)
         \/ socket' = socket /\ ~(socket.up /\ socket.booked)
    BY <1>0, ChangeShape
<1>3. /\ Market' = Market + 1 /\ Market' \in 1..MaxChanges
      /\ \A k \in 0..Market : history'[k + 1] = Book(k)
    BY <1>0, <1>1, <1>2, HistoryGrows
<1>4. \A k \in 0..Market : Book(k)' = Book(k)
    BY <1>3 DEF Book
<1>5. Market' \in Nat /\ Market' >= Market /\ Market' <= MaxChanges
    BY <1>0, <1>3
<1>6. CASE \E m \in Msg : m.kind = "change" /\ m.k = Market + 1 /\ Sends(m)
  <2>1. PICK m \in Msg : m.kind = "change" /\ m.k = Market + 1 /\ Sends(m)
      BY <1>6
  <2>2. m.k = Market' /\ m.kind # "book"
      BY <1>3, <2>1
  <2> QED
      BY <1>2, <1>3, <1>4, <1>5, <2>1, <2>2, CountedSends
<1>7. CASE socket' = socket /\ ~(socket.up /\ socket.booked)
  <2>1. SUFFICES ASSUME InMessages, socket.up PROVE CountedInv'
      BY <1>2, <1>7 DEF CountedInv, InMessages
  <2>2. PICK g \in Numberings, base \in 0..socket.sent : CountedSent(base, g)
      BY <2>1 DEF CountedInv
  <2>3. \A m : Counts(base, g, m)' <=> Counts(base, g, m)
      BY <1>7 DEF Counts
  <2>4. CountedSent(base, g)'
      BY <1>7, <2>1, <2>2, <2>3 DEF CountedSent
  <2>5. ~Running'
      BY <1>2, <1>7, <2>1 DEF SendsInv, Running
  <2>6. base \in 0..socket'.sent
      BY <1>7
  <2> QED
      BY <2>4, <2>5, <2>6 DEF CountedInv, CountedRead
<1> QED
    BY <1>2, <1>6, <1>7

\* Every step keeps CountedInv.
LEMMA CountedStep ==
    ASSUME Sound, SendsInv, NumberedInv, MailInv, CountedInv, [Next]_vars PROVE CountedInv'
<1>0. Types /\ Stream /\ Market \in 0..MaxChanges
    BY BooksOf DEF Sound
<1>1. CASE UNCHANGED <<rules, history, socket, mail, listener>>
  <2>1. /\ rules' = rules /\ history' = history /\ socket' = socket /\ mail' = mail /\ listener' = listener
      BY <1>1
  <2>2. /\ (InMessages' <=> InMessages) /\ Market' = Market /\ Running' = Running /\ (Awaited' <=> Awaited)
        /\ \A k : Book(k)' = Book(k)
        /\ \A base, g, m : Counts(base, g, m)' <=> Counts(base, g, m)
      BY <2>1 DEF InMessages, Market, Running, Awaited, Book, Counts
  <2>3. \A base, g : CountedSent(base, g) => CountedSent(base, g)'
      BY <2>1, <2>2 DEF CountedSent
  <2>4. \A base, g : CountedRead(base, g) => CountedRead(base, g)'
      BY <2>1, <2>2 DEF CountedRead
  <2> QED
      BY <2>1, <2>2, <2>3, <2>4 DEF CountedInv
<1>2. ASSUME NEW s \in Levels, Change(s) PROVE CountedInv'
    BY <1>2, CountedChange
<1>3. CASE SendBook \/ SendOther
  <2>1. UNCHANGED <<rules, history, mail, listener, follower>>
      BY <1>0, <1>3, SendShape
  <2>2. PICK m \in Msg : /\ Sends(m)
                         /\ \/ m.kind = "book" /\ m.k = Market /\ ~socket.booked
                            \/ m.kind \in {"trade", "pong"} /\ m.k = 0
      BY <1>0, <1>3, SendShape
  <2>3. Market' = Market /\ Market' \in Nat /\ Market' >= Market /\ Market' <= MaxChanges
      BY <1>0, <2>1 DEF Market
  <2>4. \A k \in 0..Market : Book(k)' = Book(k)
      BY <2>1 DEF Book
  <2>5. m.kind # "change" /\ (m.kind = "book" => m.k = Market /\ ~socket.booked)
      BY <2>2
  <2> QED
      BY <2>1, <2>2, <2>3, <2>4, <2>5, CountedSends
<1>4. CASE ChangeLost
    BY <1>4, CountedLoses
<1>5. CASE SocketFails
  <2>1. ~socket'.up
      BY <1>0, <1>5, SocketFailsShape, NoSocketShape DEF Disconnects
  <2> QED
      BY <2>1 DEF CountedInv
<1>6. CASE Connect
  <2>1. /\ UNCHANGED rules /\ socket'.sent = 0 /\ socket'.q = <<>> /\ socket'.booked = FromRequest
        /\ Turns(IF FromRequest THEN "snapshot" ELSE "align")
      BY <1>0, <1>6, ConnectShape
  <2>2. SUFFICES ASSUME InMessages PROVE CountedInv'
      BY <2>1 DEF CountedInv, InMessages
  <2>3. ~socket'.booked /\ ~Running'
      BY <2>1, <2>2, <1>0, WhereCounted DEF Turns, Running
  <2>4. \A i : i \notin 1..Len(<<>>)
      OBVIOUS
  <2>5. PICK g \in Numberings : g = [n \in Nat |-> 0]
      BY DEF Numberings
  <2>6. CountedSent(0, g)' /\ CountedRead(0, g)'
      BY <2>1, <2>3, <2>4 DEF CountedSent, CountedRead
  <2>7. 0 \in 0..socket'.sent
      BY <2>1
  <2> QED
      BY <2>6, <2>7 DEF CountedInv
<1>7. CASE TakeSnapshot
  <2>1. /\ UNCHANGED <<rules, history, socket, mail>>
        /\ \/ rules.subscribe.align = "none" \/ Turns("align")
      BY <1>0, <1>7, SnapshotShape
  <2>2. CASE rules.subscribe.align = "none"
    <3>1. ~InMessages'
        BY <2>1, <2>2, <1>0, WhereCounted DEF InMessages
    <3> QED
        BY <3>1 DEF CountedInv
  <2> QED
      BY <2>1, <2>2, CountedTurns DEF Turns
<1>8. CASE AlignStream
    BY <1>8, CountedAlign
<1>9. CASE AlignRest \/ AlignAtBound
  <2>1. FromRequest /\ UNCHANGED rules
      BY <1>0, <1>9, AlignRestShape, AtBoundShape
  <2>2. ~InMessages'
      BY <2>1, <1>0, WhereCounted DEF InMessages
  <2> QED
      BY <2>2 DEF CountedInv
<1>10. CASE SubscribeFails \/ Restart \/ CheckSockets
    BY <1>0, <1>10, QuitShape, CountedTurns DEF Quits, Turns
<1>11. CASE ReadMessage
    BY <1>11, CountedReads
<1>12. CASE OnWebsocketMessage
    BY <1>12, CountedHandles
<1>13. CASE OnMarketDataRequest
    BY <1>0, <1>1, <1>13, RequestShape
<1> QED
    BY <1>1, <1>2, <1>3, <1>4, <1>5, <1>6, <1>7, <1>8, <1>9, <1>10, <1>11, <1>12, <1>13 DEF Next, vars

----------------------------------------------------------------------------
(***************************************************************************)
(* Where nothing is numbered.                                              *)
(***************************************************************************)

\* Where a queue leads from when its first message has been read.
LEMMA LeadsFromTail ==
    ASSUME NEW p \in Seq(Msg), p # <<>>, NEW b, NEW i \in Nat, Leads(b, p, i + 1)
    PROVE  Leads(b, Tail(p), i)
<1>1. PICK t \in Seq(Msg), n \in Nat :
         t = Tail(p) /\ Len(p) = n /\ Len(t) = n - 1 /\ n >= 1 /\ \A j \in 1..(n - 1) : t[j] = p[j + 1]
  <2>1. Tail(p) \in Seq(Msg) /\ Len(p) \in Nat /\ Len(Tail(p)) = Len(p) - 1 /\ Len(p) >= 1
      OBVIOUS
  <2>2. \A j \in 1..(Len(p) - 1) : Tail(p)[j] = p[j + 1]
      BY <2>1
  <2> QED
      BY <2>1, <2>2
<1>2. ASSUME NEW s \in Levels
      PROVE  \/ b[s] = Book(Market)[s] /\ \A j \in (i + 1)..Len(t) : ~Touches(t[j], s)
             \/ \E j \in (i + 1)..Len(t) : Sets(t[j], s) /\ \A l \in (j + 1)..Len(t) : ~Touches(t[l], s)
  <2>1. ASSUME NEW j \in Nat, \A l \in (j + 2)..n : ~Touches(p[l], s)
        PROVE  \A l \in (j + 1)..Len(t) : ~Touches(t[l], s)
    <3>1. \A l \in (j + 1)..Len(t) : l + 1 \in (j + 2)..n /\ l \in 1..(n - 1)
        BY <1>1
    <3> QED
        BY <3>1, <2>1, <1>1
  <2>2. \/ b[s] = Book(Market)[s] /\ \A j \in (i + 2)..n : ~Touches(p[j], s)
        \/ \E j \in (i + 2)..n : Sets(p[j], s) /\ \A l \in (j + 1)..n : ~Touches(p[l], s)
    <3>1. i + 1 + 1 = i + 2
        OBVIOUS
    <3> QED
        BY <3>1, <1>1 DEF Leads
  <2>3. CASE b[s] = Book(Market)[s] /\ \A j \in (i + 2)..n : ~Touches(p[j], s)
      BY <2>1, <2>3
  <2>4. CASE \E j \in (i + 2)..n : Sets(p[j], s) /\ \A l \in (j + 1)..n : ~Touches(p[l], s)
    <3>1. PICK j \in (i + 2)..n : Sets(p[j], s) /\ \A l \in (j + 1)..n : ~Touches(p[l], s)
        BY <2>4
    <3>2. PICK k \in (i + 1)..Len(t) : k = j - 1 /\ k + 1 = j /\ k + 2 = j + 1 /\ k \in Nat /\ k \in 1..(n - 1)
        BY <1>1
    <3>3. \A l \in (k + 1)..Len(t) : ~Touches(t[l], s)
        BY <2>1, <3>1, <3>2
    <3>4. Sets(t[k], s)
        BY <3>1, <3>2, <1>1
    <3> QED
        BY <3>3, <3>4
  <2> QED
      BY <2>2, <2>3, <2>4
<1> QED
    BY <1>1, <1>2, SMTT(30) DEF Leads

\* Reading or applying a message: what the rest of the queue leads from.
LEMMA LeadsOn ==
    ASSUME NEW p \in Seq(Msg), NEW b, NEW c, NEW i \in Nat, Leads(b, p, i), i < Len(p),
           \A s \in Levels : \/ c[s] = Book(Market)[s]
                             \/ ~Touches(p[i + 1], s) /\ c[s] = b[s]
                             \/ Touches(p[i + 1], s) /\ c[s] = Content(p[i + 1].k)[s]
    PROVE  Leads(c, p, i + 1)
<1>1. PICK n \in Nat : n = Len(p)
    OBVIOUS
<1>2. PICK m : m = p[i + 1]
    OBVIOUS
<1>3. i + 1 \in (i + 1)..n
    BY <1>1
<1>4. ASSUME NEW s \in Levels
      PROVE  \/ c[s] = Book(Market)[s] /\ \A j \in (i + 1 + 1)..n : ~Touches(p[j], s)
             \/ \E j \in (i + 1 + 1)..n : Sets(p[j], s) /\ \A l \in (j + 1)..n : ~Touches(p[l], s)
  <2>1. \/ b[s] = Book(Market)[s] /\ \A j \in (i + 1)..n : ~Touches(p[j], s)
        \/ \E j \in (i + 1)..n : Sets(p[j], s) /\ \A l \in (j + 1)..n : ~Touches(p[l], s)
      BY <1>1 DEF Leads
  <2>2. CASE b[s] = Book(Market)[s] /\ \A j \in (i + 1)..n : ~Touches(p[j], s)
    <3>1. \A j \in (i + 1 + 1)..n : j \in (i + 1)..n
        OBVIOUS
    <3>2. c[s] = Book(Market)[s]
        BY <2>2, <1>3
    <3> QED
        BY <2>2, <3>1, <3>2
  <2>3. ASSUME NEW j \in (i + 1)..n, Sets(p[j], s), \A l \in (j + 1)..n : ~Touches(p[l], s), j # i + 1
        PROVE  \E k \in (i + 1 + 1)..n : Sets(p[k], s) /\ \A l \in (k + 1)..n : ~Touches(p[l], s)
    <3>1. j \in (i + 1 + 1)..n
        BY <2>3
    <3> QED
        BY <2>3, <3>1
  <2>4. CASE Sets(p[i + 1], s) /\ \A l \in (i + 1 + 1)..n : ~Touches(p[l], s)
    <3>1. c[s] = Book(Market)[s]
        BY <2>4 DEF Sets
    <3> QED
        BY <2>4, <3>1
  <2> QED
      BY <2>1, <2>2, <2>3, <2>4
<1> QED
    BY <1>1, <1>4 DEF Leads

\* The exchange's own book is led to from there as well.
LEMMA LeadsHome ==
    ASSUME NEW p \in Seq(Msg), NEW b, NEW i \in Nat, Leads(b, p, i)
    PROVE  Leads(Book(Market), p, i) /\ (i < Len(p) => Leads(Book(Market), p, i + 1))
<1>1. Leads(Book(Market), p, i)
    BY DEF Leads
<1> QED
    BY <1>1, LeadsOn

\* At the end of a queue.
LEMMA LeadsAtEnd ==
    ASSUME NEW p \in Seq(Msg)
    PROVE  Leads(Book(Market), p, Len(p))
<1>1. \A j : j \notin (Len(p) + 1)..Len(p)
    OBVIOUS
<1> QED
    BY <1>1 DEF Leads

\* Messages of earlier sockets in front of a queue change nothing.
LEMMA LeadsBehind ==
    ASSUME NEW r \in Seq(Msg), NEW p \in Seq(Msg), NEW b, Leads(b, p, 0),
           \A i \in 1..Len(r) : r[i].foreign
    PROVE  Leads(b, r \o p, 0)
<1>1. PICK c \in Seq(Msg), k \in Nat, n \in Nat :
        /\ c = r \o p /\ k = Len(r) /\ n = Len(p) /\ Len(c) = k + n
        /\ \A i \in 1..k : c[i] = r[i]
        /\ \A i \in 1..n : c[k + i] = p[i]
  <2>1. /\ r \o p \in Seq(Msg) /\ Len(r \o p) = Len(r) + Len(p) /\ Len(r) \in Nat /\ Len(p) \in Nat
        /\ \A i \in 1..Len(r) : (r \o p)[i] = r[i]
        /\ \A i \in 1..Len(p) : (r \o p)[Len(r) + i] = p[i]
      BY Concatenation
  <2> QED
      BY <2>1
<1>2. \A s : \A i \in 1..k : ~Touches(c[i], s)
    BY <1>1 DEF Touches
<1>3. ASSUME NEW s, NEW j \in Nat, \A l \in (j + 1)..n : ~Touches(p[l], s)
      PROVE  \A l \in (k + j + 1)..(k + n) : ~Touches(c[l], s)
  <2>1. ASSUME NEW l \in (k + j + 1)..(k + n) PROVE ~Touches(c[l], s)
    <3>1. l - k \in (j + 1)..n /\ l - k \in 1..n /\ k + (l - k) = l
        OBVIOUS
    <3>2. c[l] = p[l - k]
        BY <3>1, <1>1
    <3> QED
        BY <3>1, <3>2, <1>3
  <2> QED
      BY <2>1
<1>4. ASSUME NEW s \in Levels
      PROVE  \/ b[s] = Book(Market)[s] /\ \A j \in (0 + 1)..Len(c) : ~Touches(c[j], s)
             \/ \E j \in (0 + 1)..Len(c) : Sets(c[j], s) /\ \A l \in (j + 1)..Len(c) : ~Touches(c[l], s)
  <2>1. \/ b[s] = Book(Market)[s] /\ \A j \in (0 + 1)..n : ~Touches(p[j], s)
        \/ \E j \in (0 + 1)..n : Sets(p[j], s) /\ \A l \in (j + 1)..n : ~Touches(p[l], s)
      BY <1>1 DEF Leads
  <2>2. CASE b[s] = Book(Market)[s] /\ \A j \in (0 + 1)..n : ~Touches(p[j], s)
    <3>1. \A l \in (k + 0 + 1)..(k + n) : ~Touches(c[l], s)
        BY <2>2, <1>3
    <3>2. \A j \in (0 + 1)..Len(c) : j \in 1..k \/ j \in (k + 0 + 1)..(k + n)
        BY <1>1
    <3> QED
        BY <2>2, <3>1, <3>2, <1>2
  <2>3. ASSUME NEW j \in (0 + 1)..n, Sets(p[j], s), \A l \in (j + 1)..n : ~Touches(p[l], s)
        PROVE  \E h \in (0 + 1)..Len(c) : Sets(c[h], s) /\ \A l \in (h + 1)..Len(c) : ~Touches(c[l], s)
    <3>1. j \in 1..n /\ j \in Nat /\ k + j \in (0 + 1)..Len(c) /\ Len(c) = k + n
        BY <1>1
    <3>2. \A l \in (k + j + 1)..Len(c) : ~Touches(c[l], s)
        BY <2>3, <3>1, <1>3
    <3>3. Sets(c[k + j], s)
        BY <2>3, <3>1, <1>1
    <3> QED
        BY <3>1, <3>2, <3>3
  <2> QED
      BY <2>1, <2>2, <2>3
<1> QED
    BY <1>1, <1>4 DEF Leads

\* What the exchange sends makes up for what it changes.
LEMMA LeadsGrows ==
    ASSUME Types, rules' = rules, Market' \in Nat, Market' >= Market,
           \A k \in 0..Market : history'[k + 1] = Book(k),
           NEW CONSTANT p \in Seq(Msg), \A i \in 1..Len(p) : Tells(p[i]),
           NEW CONSTANT m \in Msg,
           \A s \in Levels : \/ Sets(m, s)'
                             \/ ~Touches(m, s)' /\ Book(Market)[s]' = Book(Market)[s],
           NEW CONSTANT b, NEW CONSTANT i \in Nat, i <= Len(p), Leads(b, p, i)
    PROVE  Leads(b, Append(p, m), i)'
<1>1. PICK M \in 0..MaxChanges : M = Market
    BY BooksOf
<1>2. /\ \A k \in 0..M : Book(k)' = Book(k)
      /\ \A k \in 1..M : Content(k)' = Content(k)
      /\ rules.onMessage.body = "book" => \A k \in 0..M : Content(k)' = Content(k)
  <2>1. M \in Nat /\ \A k \in 0..M : history'[k + 1] = Book(k)
      BY <1>1, VenueBounds
  <2> QED
      BY <1>1, <2>1, ContentsStay
<1>3. \A e \in Msg, s \in Levels : Tells(e) =>
          /\ Touches(e, s)' <=> Touches(e, s)
          /\ Touches(e, s) => Content(e.k)[s]' = Content(e.k)[s]
  <2>1. ASSUME NEW CONSTANT e \in Msg, Tells(e), Effective(e) PROVE Content(e.k)' = Content(e.k)
    <3>1. PICK k \in 0..MaxChanges : k = e.k
        BY DEF Msg
    <3>2. k \in 0..M /\ (e.kind = "change" => k \in 1..M)
        BY <2>1, <3>1, <1>1, VenueBounds DEF Tells
    <3>3. Content(k)' = Content(k)
        BY <2>1, <3>2, <1>2 DEF Effective
    <3> QED
        BY <3>1, <3>3
  <2>2. ASSUME NEW CONSTANT e \in Msg, NEW CONSTANT s \in Levels, Tells(e)
        PROVE  /\ Touches(e, s)' <=> Touches(e, s)
               /\ Touches(e, s) => Content(e.k)[s]' = Content(e.k)[s]
    <3>1. Effective(e)' = Effective(e)
        BY DEF Effective
    <3>2. Effective(e) => Content(e.k)' = Content(e.k)
        BY <2>1, <2>2
    <3> QED
        BY <3>1, <3>2 DEF Touches
  <2> QED
      BY <2>2
<1>4. PICK q \in Seq(Msg), n \in Nat :
         q = Append(p, m) /\ n = Len(p) /\ Len(q) = n + 1 /\ q[n + 1] = m /\ \A j \in 1..n : q[j] = p[j]
  <2>1. Append(p, m) \in Seq(Msg) /\ Len(p) \in Nat /\ Len(Append(p, m)) = Len(p) + 1
        /\ Append(p, m)[Len(p) + 1] = m /\ \A j \in 1..Len(p) : Append(p, m)[j] = p[j]
      OBVIOUS
  <2> QED
      BY <2>1
<1>5. \A j \in 1..n, s \in Levels :
          /\ Touches(q[j], s)' <=> Touches(p[j], s)
          /\ Touches(p[j], s) => Content(q[j].k)[s]' = Content(p[j].k)[s]
  <2>1. ASSUME NEW CONSTANT j \in 1..n, NEW CONSTANT s \in Levels
        PROVE  /\ Touches(q[j], s)' <=> Touches(p[j], s)
               /\ Touches(p[j], s) => Content(q[j].k)[s]' = Content(p[j].k)[s]
    <3>1. PICK e \in Msg : e = p[j] /\ e = q[j] /\ Tells(e)
        BY <1>4
    <3>2. /\ Touches(e, s)' <=> Touches(e, s)
          /\ Touches(e, s) => Content(e.k)[s]' = Content(e.k)[s]
        BY <3>1, <1>3
    <3> QED
        BY <3>1, <3>2
  <2> QED
      BY <2>1
<1>6. ASSUME NEW CONSTANT s \in Levels
      PROVE  (\/ /\ b[s] = Book(Market)[s]
                 /\ \A j \in (i + 1)..Len(q) : ~Touches(q[j], s)
              \/ \E j \in (i + 1)..Len(q) :
                    Sets(q[j], s) /\ \A l \in (j + 1)..Len(q) : ~Touches(q[l], s))'
  <2>1. CASE Sets(m, s)'
    <3>1. n + 1 \in (i + 1)..Len(q) /\ \A l : l \notin (n + 1 + 1)..Len(q)
        BY <1>4
    <3> QED
        BY <2>1, <3>1, <1>4
  <2>2. CASE ~Touches(m, s)' /\ Book(Market)[s]' = Book(Market)[s]
    <3>1. \A l \in 1..(n + 1) : l \in 1..n \/ l = n + 1
        BY <1>4
    <3>2. ASSUME NEW j \in Nat, \A l \in (j + 1)..n : ~Touches(p[l], s)
          PROVE  \A l \in (j + 1)..Len(q) : ~Touches(q[l], s)'
      <4>1. \A l \in (j + 1)..Len(q) : (l \in (j + 1)..n /\ l \in 1..n) \/ l = n + 1
          BY <1>4
      <4> QED
          BY <4>1, <3>2, <2>2, <1>4, <1>5
    <3>3. \/ b[s] = Book(Market)[s] /\ \A j \in (i + 1)..n : ~Touches(p[j], s)
          \/ \E j \in (i + 1)..n : Sets(p[j], s) /\ \A l \in (j + 1)..n : ~Touches(p[l], s)
        BY <1>4 DEF Leads
    <3>4. CASE b[s] = Book(Market)[s] /\ \A j \in (i + 1)..n : ~Touches(p[j], s)
        BY <3>2, <3>4, <2>2
    <3>5. CASE \E j \in (i + 1)..n : Sets(p[j], s) /\ \A l \in (j + 1)..n : ~Touches(p[l], s)
      <4>1. PICK j \in (i + 1)..n : Sets(p[j], s) /\ \A l \in (j + 1)..n : ~Touches(p[l], s)
          BY <3>5
      <4>2. j \in 1..n /\ j \in Nat /\ j \in (i + 1)..Len(q)
          BY <1>4
      <4>3. \A l \in (j + 1)..Len(q) : ~Touches(q[l], s)'
          BY <4>1, <4>2, <3>2
      <4>4. Touches(q[j], s)' /\ Content(q[j].k)[s]' = Book(Market)[s]'
          BY <4>1, <4>2, <1>5, <2>2 DEF Sets
      <4>5. Sets(q[j], s)'
          BY <4>4 DEF Sets
      <4> QED
          BY <4>2, <4>3, <4>5
    <3> QED
        BY <3>3, <3>4, <3>5
  <2> QED
      BY <2>1, <2>2
<1>7. Leads(b, q, i)'
    BY <1>6 DEF Leads
<1> QED
    BY <1>4, <1>7

\* A message of the exchange sets what the exchange's book has changed in.
LEMMA SendsMakeUp ==
    ASSUME Types, rules' = rules, Market' \in Nat, Market' >= Market,
           \A k \in 0..Market : Book(k)' = Book(k), Book(Market)' \in Books,
           NEW CONSTANT m \in Msg, ~m.foreign,
           m.kind = "change" => m.k = Market' /\ Market' = Market + 1,
           m.kind = "book" => m.k = Market,
           m.kind # "change" => Market' = Market
    PROVE  \A s \in Levels : Sets(m, s)' \/ (~Touches(m, s)' /\ Book(Market)[s]' = Book(Market)[s])
<1>0. PICK M \in Nat, N \in Nat : M = Market /\ N = Market' /\ N >= M
  <2>1. Market \in Nat
      BY BooksOf, VenueBounds
  <2> QED
      BY <2>1
<1>1. PICK A, B \in Books : A = Book(M) /\ A = Book(M)' /\ B = Book(N)' /\ B = Book(Market)' /\ A = Book(Market)
  <2>1. Book(M) \in Books /\ Book(M)' = Book(M)
      BY <1>0, BooksOf
  <2>2. Book(N)' = Book(Market)' /\ Book(M) = Book(Market)
      BY <1>0
  <2> QED
      BY <2>1, <2>2
<1>2. \A s \in Levels : A[s] # None /\ B[s] # None
  <2>1. \A b \in Books, s \in Levels : b[s] \in 0..MaxChanges
      BY DEF Books
  <2> QED
      BY <2>1, Updates
<1>3. rules.onMessage.body = "book" \/ rules.onMessage.body # "book"
    OBVIOUS
<1>4. CASE ~Effective(m)
  <2>1. ~Effective(m)' /\ Market' = Market
      BY <1>4 DEF Effective
  <2>2. Book(Market)' = Book(Market)
      BY <2>1, <1>0, <1>1
  <2> QED
      BY <2>1, <2>2 DEF Touches
<1>5. CASE Effective(m) /\ rules.onMessage.body = "book"
  <2>1. m.k = N
      BY <1>0, <1>5 DEF Effective
  <2>2. Content(m.k)' = B
      BY <1>1, <1>5, <2>1 DEF Content
  <2>3. Effective(m)'
      BY <1>5 DEF Effective
  <2> QED
      BY <1>1, <1>2, <2>2, <2>3 DEF Sets, Touches
<1>6. CASE Effective(m) /\ rules.onMessage.body # "book"
  <2>1. m.kind = "change" /\ m.k = N /\ N = M + 1 /\ N - 1 = M
      BY <1>0, <1>6 DEF Effective
  <2>2. Content(N)' = [s \in Levels |-> IF B[s] = A[s] THEN None ELSE B[s]]
      BY <1>1, <1>6, <2>1 DEF Content
  <2>3. Effective(m)'
      BY <2>1 DEF Effective
  <2>4. Content(m.k)' = Content(N)'
      BY <2>1
  <2>5. ASSUME NEW s \in Levels
        PROVE  Sets(m, s)' \/ (~Touches(m, s)' /\ Book(Market)[s]' = Book(Market)[s])
    <3>1. Content(m.k)[s]' = IF B[s] = A[s] THEN None ELSE B[s]
        BY <2>2, <2>4
    <3>2. Book(Market)[s]' = B[s] /\ Book(Market)[s] = A[s]
        BY <1>1
    <3> QED
        BY <3>1, <3>2, <1>2, <2>3 DEF Sets, Touches
  <2> QED
      BY <2>5
<1> QED
    BY <1>4, <1>5, <1>6

\* Two queues of the exchange's messages make one.
LEMMA ToldJoin ==
    ASSUME NEW r \in Seq(Msg), NEW p \in Seq(Msg),
           \A i \in 1..Len(r) : Tells(r[i]), \A i \in 1..Len(p) : Tells(p[i])
    PROVE  \A i \in 1..Len(r \o p) : Tells((r \o p)[i])
<1> DEFINE J(S, a, b) ==
             /\ \A i \in 1..Len(a) : (a \o b)[i] = a[i]
             /\ \A i \in 1..Len(b) : (a \o b)[Len(a) + i] = b[i]
             /\ \A i \in 1..Len(a \o b) : i \in 1..Len(a) \/ \E j \in 1..Len(b) : i = Len(a) + j
<1>1. /\ \A i \in 1..Len(r) : (r \o p)[i] = r[i]
      /\ \A i \in 1..Len(p) : (r \o p)[Len(r) + i] = p[i]
      /\ \A i \in 1..Len(r \o p) : i \in 1..Len(r) \/ \E j \in 1..Len(p) : i = Len(r) + j
  <2>1. ASSUME NEW S, NEW a \in Seq(S), NEW b \in Seq(S) PROVE J(S, a, b)
      BY Concatenation
  <2> HIDE DEF J
  <2>2. J(Msg, r, p)
      BY <2>1, SMTT(30)
  <2> QED
      BY <2>2 DEF J
<1>2. ASSUME NEW i \in 1..Len(r \o p) PROVE Tells((r \o p)[i])
  <2>1. CASE i \in 1..Len(r)
      BY <1>1, <2>1
  <2>2. CASE \E j \in 1..Len(p) : i = Len(r) + j
      BY <1>1, <2>2
  <2> QED
      BY <1>1, <2>1, <2>2
<1> QED
    BY <1>2

\* The exchange sends.
LEMMA UnnumberedSends ==
    ASSUME Sound, SendsInv, UnnumberedInv, UNCHANGED <<rules, mail, listener>>,
           Market' \in Nat, Market' >= Market,
           \A k \in 0..Market : history'[k + 1] = Book(k), Book(Market)' \in Books,
           NEW CONSTANT m \in Msg, Sends(m),
           m.kind = "change" => m.k = Market' /\ Market' = Market + 1,
           m.kind = "book" => m.k = Market /\ ~socket.booked,
           m.kind # "change" => Market' = Market
    PROVE  UnnumberedInv'
<1>0. Types /\ Stream
    BY DEF Sound
<1>1. \A k \in 0..Market : Book(k)' = Book(k)
    BY DEF Book
<1>2. /\ Running' = Running /\ FromRequest' = FromRequest /\ socket'.up = socket.up
      /\ (Misleads' <=> Misleads) /\ listener' = listener /\ rules' = rules /\ mail' = mail
    BY DEF Running, FromRequest, Misleads, Effective, Sends
<1>3. SUFFICES ASSUME rules.onMessage.order = "none", socket.up PROVE UnnumberedInv'
    BY <1>2 DEF UnnumberedInv
<1>4. PICK p \in Seq(Msg), q \in Seq(Msg), r \in Seq(Msg), n \in Nat :
        /\ p = socket.q /\ q = socket'.q /\ r = mail /\ q = Append(p, m) /\ n = Len(p)
        /\ \A i \in 1..n : Tells(p[i])
        /\ \A i \in 1..Len(r) : Tells(r[i])
  <2>1. socket.q \in Seq(Msg) /\ socket'.q \in Seq(Msg) /\ mail \in Seq(Msg) /\ Len(socket.q) \in Nat
      BY <1>0 DEF Types, SocketType, Sends
  <2>2. socket'.q = Append(socket.q, m)
      BY DEF Sends
  <2> QED
      BY <2>1, <2>2, <1>0 DEF Stream
<1>5. \A s \in Levels : Sets(m, s)' \/ (~Touches(m, s)' /\ Book(Market)[s]' = Book(Market)[s])
  <2>1. m.kind = "book" => m.k = Market
      OBVIOUS
  <2>2. ~m.foreign
      BY DEF Sends
  <2> QED
      BY <1>0, <1>1, <2>1, <2>2, SendsMakeUp
<1>6. ASSUME NEW CONSTANT e \in Seq(Msg), \A i \in 1..Len(e) : Tells(e[i]),
             NEW CONSTANT b, NEW CONSTANT i \in Nat, i <= Len(e), Leads(b, e, i)
      PROVE  Leads(b, Append(e, m), i)'
    BY <1>0, <1>5, <1>6, LeadsGrows
<1>7. ASSUME NEW CONSTANT b, Leads(b, r \o p, 0) PROVE Leads(b, mail \o socket.q, 0)'
  <2>1. PICK c \in Seq(Msg) : c = r \o p /\ \A i \in 1..Len(c) : Tells(c[i])
    <3>1. r \o p \in Seq(Msg)
        OBVIOUS
    <3>2. \A i \in 1..Len(r \o p) : Tells((r \o p)[i])
        BY <1>4, ToldJoin
    <3> QED
        BY <3>1, <3>2
  <2>2. 0 <= Len(c)
      OBVIOUS
  <2>3. Leads(b, Append(c, m), 0)'
      BY <1>6, <1>7, <2>1, <2>2
  <2>4. mail' \o socket'.q = Append(c, m)
    <3>1. r \o Append(p, m) = Append(r \o p, m)
        BY AppendJoins
    <3> QED
        BY <3>1, <1>2, <1>4, <2>1
  <2> QED
      BY <2>3, <2>4
<1>8. ASSUME NEW CONSTANT e \in Seq(Msg), NEW CONSTANT i \in Nat, i <= Len(e),
             \A j \in 1..Len(e) : Tells(e[j]), Leads(Book(Market), e, i)
      PROVE  Leads(Book(Market), Append(e, m), i)'
  <2>1. PICK b : b = Book(Market)
      OBVIOUS
  <2>2. Leads(b, Append(e, m), i)'
      BY <1>6, <1>8, <2>1
  <2>3. PICK x : x = Append(e, m)
      OBVIOUS
  <2>4. Leads(b, x, i)'
      BY <2>2, <2>3
  <2>5. Leads(Book(Market), x, i)'
      BY <2>4 DEF Leads
  <2> QED
      BY <2>3, <2>5
<1>9. (\A i \in 1..Len(socket.q) :
          socket.q[i].kind = "book" => Leads(Book(socket.q[i].k), socket.q, i))'
  <2>1. SUFFICES ASSUME NEW CONSTANT i \in 1..Len(q), q[i].kind = "book"
                 PROVE  Leads(Book(q[i].k), q, i)'
      BY <1>4
  <2>2. Len(q) = n + 1 /\ q[n + 1] = m /\ \A j \in 1..n : q[j] = p[j]
      BY <1>4
  <2>3. CASE i \in 1..n
    <3>0. PICK k \in 0..MaxChanges : k = p[i].k /\ k = q[i].k /\ p[i] = q[i] /\ k <= Market
      <4>1. p[i] \in Msg /\ p[i] = q[i] /\ p[i].k <= Market
          BY <1>4, <2>2, <2>3 DEF Tells
      <4>2. p[i].k \in 0..MaxChanges
          BY <4>1 DEF Msg
      <4> QED
          BY <4>1, <4>2
    <3>1. PICK b : b = Book(k)
        OBVIOUS
    <3>2. Leads(b, p, i)
        BY <1>3, <1>4, <2>1, <2>3, <3>0, <3>1 DEF UnnumberedInv
    <3>3. Leads(b, q, i)'
        BY <1>4, <1>6, <2>3, <3>2
    <3>4. Book(k)' = b
      <4>1. k \in 0..Market
          BY <3>0, <1>0, BooksOf
      <4> QED
          BY <3>1, <4>1, <1>1
    <3>5. Book(q[i].k)' = b
        BY <3>0, <3>4
    <3> QED
        BY <3>3, <3>5
  <2>4. CASE i = n + 1
    <3>1. q[i].k = Market' /\ \A j : j \notin (i + 1)..Len(q)
        BY <2>1, <2>2, <2>4
    <3>2. Leads(Book(Market), q, i)'
        BY <3>1 DEF Leads
    <3> QED
        BY <3>1, <3>2
  <2> QED
      BY <1>4, <2>2, <2>3, <2>4
<1>10. (FromRequest => Leads(Book(Market), socket.q, 0))'
  <2>1. SUFFICES ASSUME FromRequest PROVE Leads(Book(Market), q, 0)'
      BY <1>2, <1>4
  <2>2. Leads(Book(Market), p, 0) /\ 0 <= Len(p)
      BY <1>3, <1>4, <2>1 DEF UnnumberedInv
  <2>3. Leads(Book(Market), Append(p, m), 0)'
      BY <1>4, <1>8, <2>2
  <2> QED
      BY <1>4, <2>3
<1>11. ASSUME Running, rules.onMessage.body = "book" PROVE Leads(Book(Market), mail \o socket.q, 0)'
  <2>1. PICK b : b = Book(Market)
      OBVIOUS
  <2>2. Leads(b, r \o p, 0)
      BY <1>3, <1>4, <1>11, <2>1 DEF UnnumberedInv
  <2>3. Leads(b, mail \o socket.q, 0)'
      BY <1>7, <2>2
  <2>4. PICK x : x = mail' \o socket'.q
      OBVIOUS
  <2>5. Leads(b, x, 0)'
      BY <2>3, <2>4
  <2>6. Leads(Book(Market), x, 0)'
      BY <2>5 DEF Leads
  <2> QED
      BY <2>4, <2>6
<1>12. ASSUME Running, ~listener.missed, ~Misleads PROVE Leads(listener.book, mail \o socket.q, 0)'
  <2>1. PICK b : b = listener.book /\ b = listener'.book
      BY <1>2
  <2>2. Leads(b, r \o p, 0)
      BY <1>3, <1>4, <1>12, <2>1 DEF UnnumberedInv
  <2>3. Leads(b, mail \o socket.q, 0)'
      BY <1>7, <2>2
  <2> QED
      BY <2>1, <2>3
<1>13. rules'.onMessage.body = rules.onMessage.body /\ listener'.missed = listener.missed
    BY <1>2
<1> QED
    BY <1>2, <1>9, <1>10, <1>11, <1>12, <1>13 DEF UnnumberedInv

\* Where a queue leads from depends on the exchange's books alone.
LEMMA LeadsStay ==
    ASSUME UNCHANGED <<rules, history>>
    PROVE  /\ \A b, q, i : Leads(b, q, i)' <=> Leads(b, q, i)
           /\ \A k, q, i : Leads(Book(k), q, i)' <=> Leads(Book(k), q, i)
           /\ \A q, i : Leads(Book(Market), q, i)' <=> Leads(Book(Market), q, i)
           /\ \A m : Effective(m)' <=> Effective(m)
           /\ Market' = Market /\ \A k : Book(k)' = Book(k)
           /\ FromRequest' = FromRequest
<1>1. rules' = rules /\ history' = history
    OBVIOUS
<1>2. Market' = Market /\ \A k : Book(k)' = Book(k)
    BY <1>1 DEF Market, Book
<1>3. \A k : Content(k)' = Content(k)
    BY <1>1, <1>2 DEF Content
<1>4. \A m : Effective(m)' <=> Effective(m)
    BY <1>1 DEF Effective
<1>5. /\ \A m, s : Touches(m, s)' <=> Touches(m, s)
      /\ \A m, s : Sets(m, s)' <=> Sets(m, s)
    BY <1>2, <1>3, <1>4 DEF Touches, Sets
<1>6. \A b, q, i : Leads(b, q, i)' <=> Leads(b, q, i)
    BY <1>2, <1>5 DEF Leads
<1>7. /\ \A k, q, i : Leads(Book(k), q, i)' <=> Leads(Book(k), q, i)
      /\ \A q, i : Leads(Book(Market), q, i)' <=> Leads(Book(Market), q, i)
    BY <1>2, <1>5 DEF Leads
<1> QED
    BY <1>1, <1>2, <1>4, <1>6, <1>7 DEF FromRequest

\* The stream, when it is left alone or read.
LEMMA StreamLeads ==
    ASSUME Sound, UnnumberedInv, UNCHANGED <<rules, history>>, socket' = socket \/ ReadsOne,
           rules.onMessage.order = "none", socket.up
    PROVE  (/\ \A i \in 1..Len(socket.q) :
                  socket.q[i].kind = "book" => Leads(Book(socket.q[i].k), socket.q, i)
            /\ FromRequest => Leads(Book(Market), socket.q, 0))'
<1>0. /\ \A b, q, i : Leads(b, q, i)' <=> Leads(b, q, i)
      /\ \A k, q, i : Leads(Book(k), q, i)' <=> Leads(Book(k), q, i)
      /\ \A q, i : Leads(Book(Market), q, i)' <=> Leads(Book(Market), q, i)
      /\ Market' = Market /\ (\A k : Book(k)' = Book(k)) /\ FromRequest' = FromRequest
    BY LeadsStay
<1>1. CASE socket' = socket
    BY <1>0, <1>1 DEF UnnumberedInv
<1>2. CASE ReadsOne
  <2>1. PICK p \in Seq(Msg), q \in Seq(Msg) :
           p = socket.q /\ q = socket'.q /\ p # <<>> /\ q = Tail(p)
    <3>1. socket.q \in Seq(Msg) /\ socket.q # <<>> /\ socket'.q = Tail(socket.q) /\ socket'.q \in Seq(Msg)
        BY <1>2 DEF Sound, Types, SocketType, ReadsOne
    <3> QED
        BY <3>1
  <2>2. \A i \in 1..Len(q) : q[i] = p[i + 1] /\ i + 1 \in 1..Len(p) /\ i \in Nat
      BY <2>1
  <2>3. ASSUME NEW i \in 1..Len(q), q[i].kind = "book"
        PROVE  Leads(Book(q[i].k), q, i)
    <3>1. Leads(Book(p[i + 1].k), p, i + 1)
        BY <2>1, <2>2, <2>3 DEF UnnumberedInv
    <3> QED
        BY <2>1, <2>2, <3>1, LeadsFromTail
  <2>4. FromRequest => Leads(Book(Market), q, 0)
    <3>1. SUFFICES ASSUME FromRequest PROVE Leads(Book(Market), q, 0)
        OBVIOUS
    <3>2. Leads(Book(Market), p, 0) /\ 0 < Len(p)
        BY <2>1, <3>1 DEF UnnumberedInv
    <3>3. Leads(Book(Market), p, 0 + 1)
        BY <3>2, LeadsHome
    <3> QED
        BY <2>1, <3>3, LeadsFromTail
  <2>5. \A i \in 1..Len(q) : q[i].kind = "book" => Leads(Book(q[i].k), q, i)'
      BY <1>0, <2>3
  <2>6. FromRequest' => Leads(Book(Market), q, 0)'
      BY <1>0, <2>4
  <2> QED
      BY <2>1, <2>5, <2>6
<1> QED
    BY <1>1, <1>2

\* A socket that is gone, or a listener that does not run.
LEMMA UnnumberedTurns ==
    ASSUME Sound, UnnumberedInv, UNCHANGED <<rules, history>>,
           \/ ~socket'.up
           \/ (socket' = socket \/ ReadsOne) /\ listener'.phase # "running"
    PROVE  UnnumberedInv'
<1>1. CASE ~socket'.up
    BY <1>1 DEF UnnumberedInv
<1>2. CASE (socket' = socket \/ ReadsOne) /\ listener'.phase # "running"
  <2>1. ~Running' /\ socket'.up = socket.up
      BY <1>2 DEF Running, ReadsOne
  <2>2. SUFFICES ASSUME rules.onMessage.order = "none", socket.up PROVE UnnumberedInv'
      BY <2>1 DEF UnnumberedInv
  <2> QED
      BY <1>2, <2>1, <2>2, StreamLeads DEF UnnumberedInv
<1> QED
    BY <1>1, <1>2

\* The listener starts with a book from which the stream leads to the exchange's.
LEMMA UnnumberedBegins ==
    ASSUME Sound, UnnumberedInv, UNCHANGED <<rules, history, mail>>, socket' = socket \/ ReadsOne,
           \A i \in 1..Len(mail) : mail[i].foreign,
           NEW b, listener'.book = b,
           rules.onMessage.order = "none" /\ socket.up => Leads(b, socket'.q, 0)
    PROVE  UnnumberedInv'
<1>0. /\ \A c, q, i : Leads(c, q, i)' <=> Leads(c, q, i)
      /\ \A k, q, i : Leads(Book(k), q, i)' <=> Leads(Book(k), q, i)
      /\ \A q, i : Leads(Book(Market), q, i)' <=> Leads(Book(Market), q, i)
      /\ Market' = Market /\ (\A k : Book(k)' = Book(k)) /\ FromRequest' = FromRequest
    BY LeadsStay
<1>1. socket'.up = socket.up
    BY DEF ReadsOne
<1>2. SUFFICES ASSUME rules.onMessage.order = "none", socket.up PROVE UnnumberedInv'
    BY <1>1 DEF UnnumberedInv
<1>3. PICK r \in Seq(Msg), q \in Seq(Msg) : r = mail /\ q = socket'.q
  <2>1. mail \in Seq(Msg) /\ socket'.q \in Seq(Msg)
      BY DEF Sound, Types, SocketType, ReadsOne
  <2> QED
      BY <2>1
<1>4. Leads(b, r \o q, 0)
    BY <1>2, <1>3, LeadsBehind
<1>5. Leads(Book(Market), r \o q, 0)
  <2>1. r \o q \in Seq(Msg) /\ 0 \in Nat
      OBVIOUS
  <2> QED
      BY <2>1, <1>4, LeadsHome
<1>6. Leads(b, r \o q, 0)' /\ Leads(Book(Market), r \o q, 0)'
    BY <1>0, <1>4, <1>5
<1>7. (/\ Running /\ rules.onMessage.body = "book" => Leads(Book(Market), mail \o socket.q, 0)
       /\ Running /\ ~listener.missed /\ ~Misleads => Leads(listener.book, mail \o socket.q, 0))'
    BY <1>3, <1>6
<1> QED
    BY <1>2, <1>7, StreamLeads DEF UnnumberedInv

\* The listener reads a message into its mailbox.
LEMMA UnnumberedReads ==
    ASSUME Sound, UnnumberedInv, ReadMessage
    PROVE  UnnumberedInv'
<1>0. /\ \A c, q, i : Leads(c, q, i)' <=> Leads(c, q, i)
      /\ \A k, q, i : Leads(Book(k), q, i)' <=> Leads(Book(k), q, i)
      /\ \A q, i : Leads(Book(Market), q, i)' <=> Leads(Book(Market), q, i)
      /\ Market' = Market /\ (\A k : Book(k)' = Book(k)) /\ FromRequest' = FromRequest
      /\ \A m : Effective(m)' <=> Effective(m)
  <2>1. UNCHANGED <<rules, history>>
      BY ReadMessageShape DEF Sound
  <2> QED
      BY <2>1, LeadsStay
<1>1. /\ Running /\ ReadsOne /\ mail' = Append(mail, Head(socket.q))
      /\ UNCHANGED <<rules, history, listener, follower, faults>>
    BY ReadMessageShape DEF Sound
<1>2. socket'.up = socket.up /\ Running' = Running
    BY <1>1 DEF ReadsOne, Running
<1>3. SUFFICES ASSUME rules.onMessage.order = "none", socket.up PROVE UnnumberedInv'
    BY <1>1, <1>2 DEF UnnumberedInv
<1>4. PICK r \in Seq(Msg), p \in Seq(Msg) : r = mail /\ p = socket.q /\ p # <<>>
  <2>1. mail \in Seq(Msg) /\ socket.q \in Seq(Msg) /\ socket.q # <<>>
      BY <1>1 DEF Sound, Types, SocketType, ReadsOne
  <2> QED
      BY <2>1
<1>5. mail' \o socket'.q = r \o p
  <2>1. Append(r, Head(p)) \o Tail(p) = r \o p
      BY <1>4, HeadJoins
  <2> QED
      BY <2>1, <1>1, <1>4 DEF ReadsOne
<1>6. ~Misleads' => ~Misleads
  <2>1. PICK n \in Nat : /\ n = Len(r) /\ Len(mail') = n + 1
                         /\ \A i \in 1..n : mail'[i] = r[i]
    <3>1. PICK h \in Msg : h = Head(p)
        BY <1>1, <1>4 DEF ReadsOne
    <3>2. mail' = Append(r, h)
        BY <1>1, <1>4, <3>1
    <3>3. Len(r) \in Nat /\ Len(Append(r, h)) = Len(r) + 1 /\ \A i \in 1..Len(r) : Append(r, h)[i] = r[i]
        OBVIOUS
    <3> QED
        BY <3>2, <3>3
  <2>2. \A i \in 1..n : i \in 1..(n + 1)
      OBVIOUS
  <2> QED
      BY <2>1, <2>2, <1>0, <1>1, <1>4 DEF Misleads
<1>7. (Running /\ rules.onMessage.body = "book" => Leads(Book(Market), mail \o socket.q, 0))'
  <2>1. rules.onMessage.body = "book" => Leads(Book(Market), r \o p, 0)
      BY <1>1, <1>3, <1>4 DEF UnnumberedInv
  <2>2. rules.onMessage.body = "book" => Leads(Book(Market), r \o p, 0)'
      BY <1>0, <2>1
  <2> QED
      BY <1>1, <1>5, <2>2
<1>8. (Running /\ ~listener.missed /\ ~Misleads => Leads(listener.book, mail \o socket.q, 0))'
  <2>0. PICK b : b = listener.book /\ b = listener'.book
      BY <1>1
  <2>1. ~listener.missed /\ ~Misleads' => Leads(b, r \o p, 0)
      BY <1>1, <1>3, <1>4, <1>6, <2>0 DEF UnnumberedInv
  <2>2. ~listener.missed /\ ~Misleads' => Leads(b, r \o p, 0)'
      BY <1>0, <1>1, <2>1
  <2> QED
      BY <1>1, <1>5, <2>0, <2>2
<1> QED
    BY <1>1, <1>3, <1>7, <1>8, StreamLeads DEF UnnumberedInv

\* The listener handles a message.
LEMMA UnnumberedHandles ==
    ASSUME Sound, UnnumberedInv, OnWebsocketMessage
    PROVE  UnnumberedInv'
<1>0. Types /\ Stream
    BY DEF Sound
<1>1. PICK m \in Msg : m = Head(mail) /\ Tells(m)
    BY <1>0, WebsocketShape
<1>2. /\ Running /\ mail # <<>> /\ mail' = Tail(mail) /\ UNCHANGED <<rules, history, faults>>
      /\ \/ Skips(m) \/ GivesUp
         \/ socket' = NoSocket /\ UNCHANGED <<listener, follower>>
         \/ Goes(m) /\ ~(m.foreign /\ rules.onMessage.foreign = "skipped")
         \/ Numbers(m)
    BY <1>0, <1>1, WebsocketShape
<1>3. CASE socket' = NoSocket
    BY <1>2, <1>3, NoSocketShape, UnnumberedTurns
<1>4. CASE GivesUp
    BY <1>2, <1>4, UnnumberedTurns DEF GivesUp
<1>5. CASE Numbers(m)
    BY <1>2, <1>5 DEF UnnumberedInv, Numbers, InMessages
<1>6. CASE Skips(m) \/ (Goes(m) /\ ~(m.foreign /\ rules.onMessage.foreign = "skipped"))
  <2>1. socket' = socket /\ Running' = Running
      BY <1>2, <1>6 DEF Skips, Goes, Running
  <2>2. SUFFICES ASSUME rules.onMessage.order = "none", socket.up PROVE UnnumberedInv'
      BY <1>2, <2>1 DEF UnnumberedInv
  <2>3. /\ \A b, q, i : Leads(b, q, i)' <=> Leads(b, q, i)
        /\ \A q, i : Leads(Book(Market), q, i)' <=> Leads(Book(Market), q, i)
        /\ \A e : Effective(e)' <=> Effective(e)
      BY <1>2, LeadsStay
  <2>4. PICK r \in Seq(Msg), p \in Seq(Msg), c \in Seq(Msg) :
          /\ r = mail /\ p = socket.q /\ r # <<>> /\ c = r \o p
          /\ c # <<>> /\ Head(c) = m /\ mail' \o socket'.q = Tail(c)
    <3>1. mail \in Seq(Msg) /\ socket.q \in Seq(Msg)
        BY <1>0 DEF Types, SocketType
    <3>2. PICK r \in Seq(Msg), p \in Seq(Msg) : r = mail /\ p = socket.q /\ r # <<>>
        BY <1>2, <3>1
    <3>3. r \o p \in Seq(Msg)
        OBVIOUS
    <3>4. r \o p # <<>> /\ Head(r \o p) = Head(r) /\ Tail(r \o p) = Tail(r) \o p
        BY <3>2, TailJoins
    <3> QED
        BY <3>2, <3>3, <3>4, <1>1, <1>2, <2>1
  <2>5. c[1] = m /\ c[0 + 1] = m /\ 0 < Len(c) /\ 0 \in Nat
      BY <2>4
  <2>6. ASSUME NEW b, Leads(b, c, 0 + 1) PROVE Leads(b, Tail(c), 0)
      BY <2>4, <2>6, LeadsFromTail
  <2>7. (Running /\ rules.onMessage.body = "book" => Leads(Book(Market), mail \o socket.q, 0))'
    <3>1. rules.onMessage.body = "book" => Leads(Book(Market), c, 0)
        BY <1>2, <2>2, <2>4 DEF UnnumberedInv
    <3>2. rules.onMessage.body = "book" => Leads(Book(Market), Tail(c), 0)
        BY <3>1, <2>5, <2>6, LeadsHome
    <3> QED
        BY <1>2, <2>3, <2>4, <3>2
  <2>8. ASSUME ~listener'.missed, ~Misleads' PROVE Leads(listener.book, mail \o socket.q, 0)'
    <3>1. PICK a, b : a = listener.book /\ b = listener'.book
        OBVIOUS
    <3>2. ~(m.foreign /\ Effective(m) /\ rules.onMessage.foreign = "taken") => ~Misleads
      <4>1. \A i \in 1..Len(r) : r[i] = m \/ (i - 1 \in 1..Len(Tail(r)) /\ Tail(r)[i - 1] = r[i])
        <5>1. Len(r) \in Nat /\ Len(Tail(r)) = Len(r) - 1 /\ r[1] = m
            BY <2>4, <1>1
        <5>2. \A i \in 1..(Len(r) - 1) : Tail(r)[i] = r[i + 1]
            BY <5>1, <2>4
        <5>3. \A i \in 1..Len(r) : i = 1 \/ (i - 1 \in 1..(Len(r) - 1) /\ (i - 1) + 1 = i)
            BY <5>1
        <5> QED
            BY <5>1, <5>2, <5>3
      <4>2. mail' = Tail(r) /\ mail = r
          BY <1>2, <2>4
      <4> QED
          BY <1>2, <2>3, <2>8, <4>1, <4>2 DEF Misleads
    <3>3. ~listener.missed /\ ~Misleads => Leads(a, c, 0)
        BY <1>2, <2>2, <2>4, <3>1 DEF UnnumberedInv
    <3>4. Leads(b, c, 0 + 1)
      <4>1. CASE Skips(m)
        <5>1. \A s \in Levels : ~Touches(m, s)
            BY <2>2, <4>1 DEF Skips, Touches
        <5>2. ~(m.foreign /\ Effective(m) /\ rules.onMessage.foreign = "taken") /\ ~listener.missed /\ a = b
            BY <2>2, <2>8, <3>1, <4>1 DEF Skips
        <5>3. Leads(a, c, 0)
            BY <3>2, <3>3, <5>2
        <5> QED
            BY <2>5, <5>1, <5>2, <5>3, LeadsOn
      <4>2. CASE Goes(m) /\ ~(m.foreign /\ rules.onMessage.foreign = "skipped")
        <5>1. Effective(m) /\ ~m.foreign /\ b = Update(a, Content(m.k))
          <6>1. rules.onMessage.foreign \in {"skipped", "taken"}
              BY <1>0 DEF Types, Table, Handlings
          <6> QED
              BY <2>2, <2>8, <3>1, <4>2, <6>1 DEF Goes
        <5>2. \A s \in Levels : b[s] = IF Content(m.k)[s] = None THEN a[s] ELSE Content(m.k)[s]
            BY <5>1 DEF Update
        <5>3. \A s \in Levels : Touches(m, s) <=> Content(m.k)[s] # None
            BY <5>1 DEF Touches
        <5>4. CASE rules.onMessage.body = "book"
          <6>1. Content(m.k) \in Books
            <7>1. m.k \in 0..Market
                BY <1>0, <1>1, <5>1, ReadsShape
            <7> QED
                BY <1>0, <5>4, <7>1, BooksOf
          <6>2. \A s \in Levels : Touches(m, s) /\ b[s] = Content(m.k)[s]
              BY <5>2, <5>3, <6>1, Updates DEF Books
          <6>3. Leads(Book(Market), c, 0)
              BY <1>2, <2>2, <2>4, <5>4 DEF UnnumberedInv
          <6> QED
              BY <2>5, <6>2, <6>3, LeadsOn
        <5>5. CASE rules.onMessage.body # "book"
          <6>1. rules.onMessage.body = "change"
              BY <1>0, <5>5 DEF Types, Table, Handlings
          <6>2. ~listener.missed
              BY <2>8, <4>2, <5>1, <6>1 DEF Goes
          <6>3. Leads(a, c, 0)
              BY <3>2, <3>3, <5>1, <6>2
          <6>4. \A s \in Levels : \/ ~Touches(m, s) /\ b[s] = a[s]
                                  \/ Touches(m, s) /\ b[s] = Content(m.k)[s]
              BY <5>2, <5>3
          <6> QED
              BY <2>5, <6>3, <6>4, LeadsOn
        <5> QED
            BY <5>4, <5>5
      <4> QED
          BY <1>6, <4>1, <4>2
    <3>5. Leads(b, Tail(c), 0)'
        BY <2>3, <2>6, <3>4
    <3> QED
        BY <2>4, <3>1, <3>5
  <2> QED
      BY <1>2, <2>1, <2>2, <2>7, <2>8, StreamLeads DEF UnnumberedInv
<1> QED
    BY <1>2, <1>3, <1>4, <1>5, <1>6

\* A change of the exchange's book.
LEMMA UnnumberedChange ==
    ASSUME Sound, SendsInv, UnnumberedInv, NEW s \in Levels, Change(s)
    PROVE  UnnumberedInv'
<1>0. Types /\ Stream /\ Market \in 0..MaxChanges
    BY BooksOf DEF Sound
<1>1. PICK b \in Books : history' = Append(history, b)
    BY <1>0, ChangeShape
<1>2. /\ Market < MaxChanges /\ UNCHANGED <<rules, mail, listener, follower>>
      /\ \/ socket.up /\ \E m \in Msg : m.kind = "change" /\ m.k = Market + 1 /\ Sends(m)
         \/ socket' = socket /\ ~(socket.up /\ socket.booked)
    BY <1>0, ChangeShape
<1>3. /\ Market' = Market + 1 /\ Market' \in 1..MaxChanges /\ history'[Market + 2] = b
      /\ \A k \in 0..Market : history'[k + 1] = Book(k)
    BY <1>0, <1>1, <1>2, HistoryGrows
<1>4. Book(Market)' \in Books
  <2>1. Market' + 1 = Market + 2
      BY <1>0, <1>3
  <2> QED
      BY <1>3, <2>1 DEF Book
<1>5. CASE \E m \in Msg : m.kind = "change" /\ m.k = Market + 1 /\ Sends(m)
  <2>1. PICK m \in Msg : m.kind = "change" /\ m.k = Market + 1 /\ Sends(m)
      BY <1>5
  <2>2. m.k = Market' /\ m.kind # "book" /\ Market' \in Nat /\ Market' >= Market
      BY <1>0, <1>3, <2>1
  <2> QED
      BY <1>2, <1>3, <1>4, <2>1, <2>2, UnnumberedSends
<1>6. CASE socket' = socket /\ ~(socket.up /\ socket.booked)
  <2>1. SUFFICES ASSUME socket.up PROVE UnnumberedInv'
      BY <1>6 DEF UnnumberedInv
  <2>2. /\ ~socket.booked /\ ~FromRequest /\ ~Running
        /\ \A i \in 1..Len(socket.q) : socket.q[i].kind # "book"
      BY <1>0, <1>6, <2>1 DEF SendsInv, Stream, FromRequest
  <2>3. ~FromRequest' /\ ~Running' /\ \A i \in 1..Len(socket'.q) : socket'.q[i].kind # "book"
      BY <1>2, <1>6, <2>2 DEF FromRequest, Running
  <2> QED
      BY <2>3 DEF UnnumberedInv
<1> QED
    BY <1>2, <1>5, <1>6

\* Every step keeps UnnumberedInv.
LEMMA UnnumberedStep ==
    ASSUME Sound, SendsInv, NumberedInv, MailInv, UnnumberedInv, [Next]_vars
    PROVE  UnnumberedInv'
<1>0. Types /\ Stream /\ Market \in 0..MaxChanges
    BY BooksOf DEF Sound
<1>1. CASE UNCHANGED <<rules, history, socket, mail, listener>>
  <2>1. /\ rules' = rules /\ history' = history /\ socket' = socket /\ mail' = mail /\ listener' = listener
      BY <1>1
  <2>2. /\ \A b, q, i : Leads(b, q, i)' <=> Leads(b, q, i)
        /\ \A q, i : Leads(Book(Market), q, i)' <=> Leads(Book(Market), q, i)
        /\ \A e : Effective(e)' <=> Effective(e)
      BY <2>1, LeadsStay
  <2>3. (Misleads' <=> Misleads) /\ Running' = Running
      BY <2>1, <2>2 DEF Misleads, Running
  <2>4. SUFFICES ASSUME rules.onMessage.order = "none", socket.up PROVE UnnumberedInv'
      BY <2>1 DEF UnnumberedInv
  <2>5. (Running /\ rules.onMessage.body = "book" => Leads(Book(Market), mail \o socket.q, 0))'
      BY <2>1, <2>2, <2>3, <2>4 DEF UnnumberedInv
  <2>6. (Running /\ ~listener.missed /\ ~Misleads => Leads(listener.book, mail \o socket.q, 0))'
      BY <2>1, <2>2, <2>3, <2>4 DEF UnnumberedInv
  <2> QED
      BY <2>1, <2>4, <2>5, <2>6, StreamLeads DEF UnnumberedInv
<1>2. ASSUME NEW s \in Levels, Change(s) PROVE UnnumberedInv'
    BY <1>2, UnnumberedChange
<1>3. CASE SendBook \/ SendOther
  <2>1. UNCHANGED <<rules, history, mail, listener, follower>>
      BY <1>0, <1>3, SendShape
  <2>2. PICK m \in Msg : /\ Sends(m)
                         /\ \/ m.kind = "book" /\ m.k = Market /\ ~socket.booked
                            \/ m.kind \in {"trade", "pong"} /\ m.k = 0
      BY <1>0, <1>3, SendShape
  <2>3. Market' = Market /\ Market' \in Nat /\ Market' >= Market
      BY <1>0, <2>1 DEF Market
  <2>4. (\A k \in 0..Market : history'[k + 1] = Book(k)) /\ Book(Market)' \in Books
    <3>1. Book(Market)' = Book(Market) /\ Book(Market) \in Books
        BY <1>0, <2>1, <2>3, BooksOf DEF Book
    <3> QED
        BY <2>1, <3>1 DEF Book
  <2>5. m.kind # "change" /\ (m.kind = "book" => m.k = Market /\ ~socket.booked)
      BY <2>2
  <2> QED
      BY <2>1, <2>2, <2>3, <2>4, <2>5, UnnumberedSends
<1>4. CASE ChangeLost
    BY <1>0, <1>4, LostShape DEF UnnumberedInv
<1>5. CASE SocketFails
    BY <1>0, <1>5, SocketFailsShape, NoSocketShape DEF Disconnects, UnnumberedInv
<1>6. CASE Connect
  <2>1. /\ UNCHANGED <<rules, history>> /\ socket'.q = <<>>
        /\ Turns(IF FromRequest THEN "snapshot" ELSE "align")
      BY <1>0, <1>6, ConnectShape
  <2>3. Leads(Book(Market), <<>>, 0)'
    <3>1. \A j : j \notin (0 + 1)..Len(<<>>)
        OBVIOUS
    <3> QED
        BY <3>1 DEF Leads
  <2>4. (FromRequest => Leads(Book(Market), socket.q, 0))'
      BY <2>1, <2>3
  <2>5. \A i : i \notin 1..Len(socket'.q)
      BY <2>1
  <2>6. ~Running'
      BY <2>1 DEF Turns, Running
  <2> QED
      BY <2>4, <2>5, <2>6 DEF UnnumberedInv
<1>7. CASE TakeSnapshot
  <2>1. /\ listener.phase = "snapshot" /\ UNCHANGED <<rules, history, socket, mail>>
        /\ \/ rules.subscribe.align = "none" /\ Begins(Market, Market)
           \/ Turns("align")
      BY <1>0, <1>7, SnapshotShape
  <2>2. CASE rules.subscribe.align = "none" /\ Begins(Market, Market)
    <3>1. FromRequest
        BY <1>0, <2>2 DEF Types, Consistent, Table, Subscriptions, FromRequest
    <3>2. \A i \in 1..Len(mail) : mail[i].foreign
        BY <2>1, <2>2 DEF MailInv
    <3>3. rules.onMessage.order = "none" /\ socket.up => Leads(Book(Market), socket'.q, 0)
        BY <2>1, <3>1 DEF UnnumberedInv
    <3>4. PICK b : b = Book(Market)
        OBVIOUS
    <3>5. listener'.book = b
        BY <2>2, <3>4 DEF Begins
    <3> QED
        BY <2>1, <3>2, <3>3, <3>4, <3>5, UnnumberedBegins
  <2>3. CASE Turns("align")
      BY <2>1, <2>3, UnnumberedTurns DEF Turns
  <2> QED
      BY <2>1, <2>2, <2>3
<1>8. CASE AlignStream
  <2>1. /\ listener.phase = "align" /\ rules.subscribe.source = "stream"
        /\ UNCHANGED <<rules, history>> /\ ReadsOne
        /\ \/ Head(socket.q).kind = "book" /\ Begins(Head(socket.q).k, Head(socket.q).n) /\ mail' = mail
           \/ Turns("failed")
           \/ listener' = listener
      BY <1>0, <1>8, AlignStreamShape
  <2>2. CASE Turns("failed") \/ listener' = listener
      BY <2>1, <2>2, UnnumberedTurns DEF Turns
  <2>3. CASE Head(socket.q).kind = "book" /\ Begins(Head(socket.q).k, Head(socket.q).n) /\ mail' = mail
    <3>1. SUFFICES ASSUME rules.onMessage.order = "none", socket.up PROVE UnnumberedInv'
        BY <2>1 DEF UnnumberedInv, ReadsOne
    <3>2. \A i \in 1..Len(mail) : mail[i].foreign
        BY <1>0, <2>1, <3>1 DEF MailInv, Types, Consistent
    <3>3. PICK p \in Seq(Msg), m \in Msg :
            p = socket.q /\ m = Head(socket.q) /\ m = p[1] /\ p # <<>> /\ socket'.q = Tail(p) /\ 1 \in 1..Len(p)
      <4>1. socket.q \in Seq(Msg) /\ socket.q # <<>> /\ Head(socket.q) \in Msg /\ socket'.q = Tail(socket.q)
          BY <1>0, <2>1 DEF Types, SocketType, ReadsOne
      <4>2. Head(socket.q) = socket.q[1] /\ 1 \in 1..Len(socket.q)
          BY <4>1
      <4> QED
          BY <4>1, <4>2
    <3>4. PICK b : b = Book(m.k) /\ listener'.book = b
        BY <2>3, <3>3 DEF Begins
    <3>5. Leads(b, p, 0 + 1)
      <4>1. Leads(Book(p[1].k), p, 1)
          BY <2>3, <3>1, <3>3 DEF UnnumberedInv
      <4> QED
          BY <3>3, <3>4, <4>1
    <3>6. Leads(b, socket'.q, 0)
        BY <3>3, <3>5, LeadsFromTail
    <3> QED
        BY <2>1, <2>3, <3>2, <3>4, <3>6, UnnumberedBegins
  <2> QED
      BY <2>1, <2>2, <2>3
<1>9. CASE AlignRest \/ AlignAtBound
  <2>1. listener.phase = "align" /\ FromRequest /\ UNCHANGED rules
      BY <1>0, <1>9, AlignRestShape, AtBoundShape
  <2> QED
      BY <2>1 DEF MailInv, UnnumberedInv
<1>10. CASE SubscribeFails \/ Restart \/ CheckSockets
  <2>1. Quits
      BY <1>0, <1>10, QuitShape
  <2>2. /\ UNCHANGED <<rules, history>> /\ listener'.phase # "running"
        /\ (socket' = socket \/ ~socket'.up)
      BY <2>1, NoSocketShape DEF Quits, Turns
  <2> QED
      BY <2>2, UnnumberedTurns
<1>11. CASE ReadMessage
    BY <1>11, UnnumberedReads
<1>12. CASE OnWebsocketMessage
    BY <1>12, UnnumberedHandles
<1>13. CASE OnMarketDataRequest
    BY <1>0, <1>1, <1>13, RequestShape
<1> QED
    BY <1>1, <1>2, <1>3, <1>4, <1>5, <1>6, <1>7, <1>8, <1>9, <1>10, <1>11, <1>12, <1>13 DEF Next, vars

----------------------------------------------------------------------------
(***************************************************************************)
(* The theorems.                                                           *)
(***************************************************************************)

\* Nothing is connected or under way at the start.
LEMMA BookInit ==
    ASSUME Init PROVE BookInv
<1>1. /\ socket = NoSocket /\ mail = <<>> /\ listener.phase = "connect"
      /\ socket.up = FALSE /\ socket.q = <<>>
    BY NoSocketShape DEF Init
<1>2. (\A i : i \notin 1..Len(<<>>)) /\ ~Running
    BY <1>1 DEF Running
<1>3. Follows(socket.q) /\ Ascends(socket.q)
    BY <1>1, <1>2 DEF Follows, Ascends
<1>4. SendsInv /\ MailInv
    BY <1>1, <1>2, <1>3 DEF SendsInv, MailInv
<1>5. NumberedInv
    BY <1>1, <1>2, <1>3 DEF NumberedInv
<1>6. CountedInv /\ UnnumberedInv
    BY <1>1 DEF CountedInv, UnnumberedInv
<1> QED
    BY <1>4, <1>5, <1>6 DEF BookInv

\* Every step keeps all of it.
LEMMA BookStep ==
    ASSUME Sound, FollowerInv, BookInv, [Next]_vars PROVE Sound' /\ FollowerInv' /\ BookInv'
<1>1. SendsInv /\ NumberedInv /\ MailInv /\ CountedInv /\ UnnumberedInv
    BY DEF BookInv
<1>2. Sound'
    BY <1>1, SoundStep
<1>3. FollowerInv'
    BY <1>1, FollowerStep
<1>4. SendsInv'
    BY <1>1, SendsStep
<1>5. NumberedInv'
    BY <1>1, NumberedStep
<1>6. MailInv'
    BY <1>1, MailStep
<1>7. CountedInv'
    BY <1>1, CountedStep
<1>8. UnnumberedInv'
    BY <1>1, UnnumberedStep
<1> QED
    BY <1>2, <1>3, <1>4, <1>5, <1>6, <1>7, <1>8 DEF BookInv

\* The inductive invariant holds in every reachable state, of every venue.
THEOREM BookInvariant == Spec => [](Sound /\ FollowerInv /\ BookInv)
<1>1. Init => Sound /\ FollowerInv /\ BookInv
    BY SoundInit, FollowerInit, BookInit
<1>2. Sound /\ FollowerInv /\ BookInv /\ [Next]_vars => (Sound /\ FollowerInv /\ BookInv)'
    BY BookStep
<1> QED
    BY <1>1, <1>2, PTL DEF Spec

\* A listener that has read everything has the exchange's book.
LEMMA ReadAndSound ==
    ASSUME Sound, BookInv, UpToDate PROVE listener.book = Book(Market)
<1>0. Types /\ Market \in 0..MaxChanges /\ Book(Market) \in Books
  <2>1. Types /\ Market \in 0..MaxChanges
      BY BooksOf DEF Sound
  <2> QED
      BY <2>1, BooksOf
<1>1. /\ Running /\ ~listener.missed /\ Market = MaxChanges
      /\ socket.up /\ socket.q = <<>> /\ mail = <<>>
    BY DEF UpToDate
<1>2. (\A i : i \notin 1..Len(<<>>)) /\ ~Awaited /\ ~Misleads
    BY <1>1 DEF Awaited, Brings, Misleads
<1>3. CASE rules.onMessage.order = "change"
  <2>1. /\ listener.last <= Market /\ listener.book = Book(listener.last)
        /\ ~(listener.last < MaxChanges)
      BY <1>1, <1>2, <1>3 DEF BookInv, NumberedInv
  <2>2. listener.last \in Nat
      BY <1>0 DEF Types, ListenerType
  <2>3. listener.last = Market
      BY <1>0, <1>1, <2>1, <2>2, VenueBounds
  <2> QED
      BY <2>1, <2>3
<1>4. CASE rules.onMessage.order = "message"
  <2>1. PICK g \in Numberings, base \in 0..socket.sent : CountedRead(base, g)
      BY <1>1, <1>4 DEF BookInv, CountedInv, InMessages
  <2>2. /\ g[listener.last] <= Market /\ listener.book = Book(g[listener.last])
        /\ ~(g[listener.last] < MaxChanges)
      BY <1>1, <1>2, <2>1 DEF CountedRead
  <2>3. PICK k \in Nat : k = g[listener.last]
    <3>1. listener.last \in Nat
        BY <1>0 DEF Types, ListenerType
    <3> QED
        BY <3>1 DEF Numberings
  <2>4. k = Market
      BY <1>0, <1>1, <2>2, <2>3, VenueBounds
  <2> QED
      BY <2>2, <2>3, <2>4
<1>5. CASE rules.onMessage.order = "none"
  <2>1. Leads(listener.book, <<>> \o <<>>, 0)
      BY <1>1, <1>2, <1>5 DEF BookInv, UnnumberedInv
  <2>2. \A j : j \notin (0 + 1)..Len(<<>> \o <<>>)
      OBVIOUS
  <2>3. \A s \in Levels : listener.book[s] = Book(Market)[s]
      BY <2>1, <2>2 DEF Leads
  <2>4. listener.book \in Books
      BY <1>0 DEF Types, ListenerType
  <2>5. PICK a, b \in Books : a = listener.book /\ b = Book(Market)
      BY <1>0, <2>4
  <2>6. \A s \in Levels : a[s] = b[s]
      BY <2>3, <2>5
  <2>7. a = b
      BY <2>6 DEF Books
  <2> QED
      BY <2>5, <2>7
<1>6. rules.onMessage.order \in {"none", "change", "message"}
    BY <1>0 DEF Types, Table, Handlings
<1> QED
    BY <1>3, <1>4, <1>5, <1>6

\* BookSound: whatever was lost, failed, reordered around a reconnection or left
\* in the mailbox by an earlier socket, a listener that has read and applied
\* everything has the exchange's book; where changes are numbered its book is at
\* every moment the one of its last number.
THEOREM BookIsSound == Spec => []BookSound
<1>1. Sound /\ FollowerInv /\ BookInv => BookSound
  <2>1. ASSUME Sound, BookInv PROVE UpToDate => listener.book = Book(Market)
      BY <2>1, ReadAndSound
  <2>2. BookInv => (Running /\ rules.onMessage.order = "change" => listener.book = Book(listener.last))
      BY DEF BookInv, NumberedInv
  <2> QED
      BY <2>1, <2>2 DEF BookSound
<1> QED
    BY <1>1, BookInvariant, PTL

\* FollowerSound: a follower in sequence has the listener's book, the deltas held
\* back aside, and never one that is crossed.
THEOREM FollowersAgree == Spec => []FollowerSound
<1>1. Sound /\ FollowerInv /\ BookInv => FollowerSound
    BY DEF FollowerInv, FollowerSound, FollowerAgrees, FollowerNotCrossed
<1> QED
    BY <1>1, BookInvariant, PTL

\* TypeOK: the types of the state.
THEOREM TypeCorrect == Spec => []TypeOK
<1>1. Sound /\ FollowerInv /\ BookInv => TypeOK
  <2>1. SUFFICES ASSUME Sound PROVE TypeOK
      OBVIOUS
  <2>2. Types /\ Stream
      BY <2>1 DEF Sound
  <2>3. \A m \in Msg : IsMessage(m)
      BY DEF Msg, Kinds, IsMessage
  <2>4. PICK p \in Seq(Msg), r \in Seq(Msg), h \in Seq(Books) : p = socket.q /\ r = mail /\ h = history
    <3>1. socket.q \in Seq(Msg) /\ mail \in Seq(Msg) /\ history \in Seq(Books)
        BY <2>2 DEF Types, SocketType
    <3> QED
        BY <3>1
  <2>5. /\ \A i \in 1..Len(p) : p[i] \in Msg
        /\ \A i \in 1..Len(r) : r[i] \in Msg
        /\ \A i \in 1..Len(h) : h[i] \in Books
      OBVIOUS
  <2>6. /\ \A i \in 1..Len(history) : history[i] \in Books
        /\ \A i \in 1..Len(socket.q) : IsMessage(socket.q[i]) /\ ~socket.q[i].foreign
        /\ \A i \in 1..Len(mail) : IsMessage(mail[i])
      BY <2>2, <2>3, <2>4, <2>5 DEF Stream
  <2>7. /\ socket.up \in BOOLEAN /\ socket.booked \in BOOLEAN /\ socket.sent \in Nat
        /\ listener.phase \in Phases /\ listener.book \in Books /\ listener.last \in Nat
        /\ listener.held \in Deltas /\ listener.crossings \in 0..Patience /\ listener.missed \in BOOLEAN
        /\ follower.follows \in BOOLEAN /\ follower.book \in Books /\ faults \in 0..MaxFaults
      BY <2>2 DEF Types, SocketType, ListenerType
  <2> QED
      BY <2>6, <2>7 DEF TypeOK, Phases, Deltas
<1> QED
    BY <1>1, BookInvariant, PTL
=============================================================================
