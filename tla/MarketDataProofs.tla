-------------------------- MODULE MarketDataProofs --------------------------
(***************************************************************************)
(* The theorems about MarketData!Spec, for every number of clients,        *)
(* changes, faults and closes: no follower is left behind by a manager     *)
(* that stopped, the listener's book is one the exchange had, and what a   *)
(* client gets is MarketFeed.                                              *)
(***************************************************************************)
EXTENDS MarketData, Sequences, SequencesExt, FiniteSetTheorems, SequenceTheorems, TLAPS

(***************************************************************************)
(* Facts about numbers, sequences and sets that say nothing of the program. *)
(***************************************************************************)

\* Where the elements of a concatenation come from.
LEMMA Concatenation ==
    ASSUME NEW S, NEW q \in Seq(S), NEW r \in Seq(S)
    PROVE  /\ q \o r \in Seq(S) /\ Len(q \o r) = Len(q) + Len(r)
           /\ \A i \in 1..Len(q) : (q \o r)[i] = q[i]
           /\ \A i \in 1..Len(r) : (q \o r)[Len(q) + i] = r[i]
           /\ \A i \in 1..Len(q \o r) :
                 i \in 1..Len(q) \/ \E j \in 1..Len(r) : i = Len(q) + j
<1>1. /\ q \o r \in Seq(S) /\ Len(q \o r) = Len(q) + Len(r)
      /\ \A i \in 1..Len(q) : (q \o r)[i] = q[i]
      /\ \A i \in 1..Len(r) : (q \o r)[Len(q) + i] = r[i]
    OBVIOUS
<1>2. ASSUME NEW i \in 1..Len(q \o r), i \notin 1..Len(q)
      PROVE  \E j \in 1..Len(r) : i = Len(q) + j
  <2>1. Len(q) \in Nat /\ Len(r) \in Nat
      OBVIOUS
  <2>2. i - Len(q) \in 1..Len(r) /\ i = Len(q) + (i - Len(q))
      BY <1>1, <1>2, <2>1
  <2> QED
      BY <2>2
<1> QED
    BY <1>1, <1>2

\* Sequences of one and of two.
LEMMA Singletons ==
    ASSUME NEW S, NEW a \in S, NEW b \in S
    PROVE  /\ <<a>> \in Seq(S) /\ Len(<<a>>) = 1 /\ <<a>>[1] = a
           /\ <<a, b>> \in Seq(S) /\ Len(<<a, b>>) = 2 /\ <<a, b>>[1] = a /\ <<a, b>>[2] = b
OBVIOUS

\* A sequence that loses its i-th element.
LEMMA Removal ==
    ASSUME NEW S, NEW q \in Seq(S), NEW i \in 1..Len(q)
    PROVE  /\ RemoveAt(q, i) \in Seq(S) /\ Len(RemoveAt(q, i)) = Len(q) - 1
           /\ \A j \in 1..(i - 1) : RemoveAt(q, i)[j] = q[j]
           /\ \A j \in i..(Len(q) - 1) : RemoveAt(q, i)[j] = q[j + 1]
<1>1. Len(q) \in Nat /\ \A j \in 1..Len(q) : q[j] \in S
    OBVIOUS
<1>2. (\A j \in 1..(i - 1) : q[j] \in S) /\ (\A j \in (i + 1)..Len(q) : q[j] \in S)
    BY <1>1
<1>3. PICK a \in Seq(S) :
          a = SubSeq(q, 1, i - 1) /\ Len(a) = i - 1 /\ \A j \in 1..(i - 1) : a[j] = q[j]
  <2>1. 1 \in Int /\ i - 1 \in Int
      OBVIOUS
  <2>2. SubSeq(q, 1, i - 1) \in Seq(S)
      BY <1>2, <2>1, SubSeqProperties
  <2>3. Len(SubSeq(q, 1, i - 1)) = i - 1 /\ \A j \in 1..(i - 1) : SubSeq(q, 1, i - 1)[j] = q[j]
      BY <1>1, <1>2, <2>1, SubSeqProperties
  <2> QED
      BY <2>2, <2>3
<1>4. PICK b \in Seq(S) : /\ b = SubSeq(q, i + 1, Len(q)) /\ Len(b) = Len(q) - i
                          /\ \A j \in 1..(Len(q) - i) : b[j] = q[i + j]
  <2>1. i + 1 \in Int /\ Len(q) \in Int
      OBVIOUS
  <2>2. SubSeq(q, i + 1, Len(q)) \in Seq(S)
      BY <1>2, <2>1, SubSeqProperties
  <2>3. Len(SubSeq(q, i + 1, Len(q))) = Len(q) - i
      BY <1>1, <1>2, <2>1, SubSeqProperties
  <2>4. \A j \in 1..(Len(q) - i) : SubSeq(q, i + 1, Len(q))[j] = q[i + j]
      BY <1>1, <1>2, <2>1, SubSeqProperties
  <2> QED
      BY <2>2, <2>3, <2>4
<1>5. PICK c : c = RemoveAt(q, i)
    OBVIOUS
<1>6. c = a \o b
    BY <1>3, <1>4, <1>5 DEF RemoveAt
<1>7. /\ c \in Seq(S) /\ Len(c) = Len(a) + Len(b) /\ \A j \in 1..Len(a) : c[j] = a[j]
      /\ \A j \in 1..Len(b) : c[Len(a) + j] = b[j]
    BY <1>6, Concatenation
<1>8. c \in Seq(S) /\ Len(c) = Len(q) - 1 /\ \A j \in 1..(i - 1) : c[j] = q[j]
  <2>1. PICK L \in Nat : L = Len(q) /\ Len(a) = i - 1 /\ Len(b) = L - i /\ i \in 1..L
      BY <1>1, <1>3, <1>4
  <2>2. Len(c) = L - 1
      BY <2>1, <1>7
  <2>3. \A j \in 1..(i - 1) : c[j] = q[j]
      BY <2>1, <1>3, <1>7
  <2> QED
      BY <2>1, <2>2, <2>3, <1>7
<1>9. ASSUME NEW j \in i..(Len(q) - 1) PROVE c[j] = q[j + 1]
  <2>1. PICK k \in 1..Len(b) : k = j - (i - 1)
      BY <1>1, <1>4
  <2>2. c[Len(a) + k] = b[k]
      BY <1>7
  <2>3. b[k] = q[i + k] /\ Len(a) + k = j /\ i + k = j + 1
      BY <2>1, <1>1, <1>3, <1>4
  <2> QED
      BY <2>2, <2>3
<1> QED
    BY <1>5, <1>8, <1>9

(***************************************************************************)
(* The states of MarketData.                                                 *)
(***************************************************************************)

\* The messages, a change of the book no later than the m-th.
DepthMsg(m)  == [kind : {"depth"}, k : 1..m]
RequestMsg   == [kind : {"request"}, c : Clients, n : Nat]
RefreshMsg   == [kind : {"refresh"}, seq : Nat, k : 0..MaxUpdates]

ListenerPhases == {"none", "connect", "snapshot", "sync", "running", "failed"}
ManagerPhases  == {"none", "running", "stopping", "stopped"}
ClientPhases   == {"none", "asking", "following", "closed"}

SocketType   == [up : BOOLEAN, q : Seq(DepthMsg(MaxUpdates))]
ListenerType == [phase : ListenerPhases, seq : Nat, last : Nat, book : Books, beaten : BOOLEAN,
                 mail : Seq(DepthMsg(MaxUpdates) \cup RequestMsg)]
ManagerType  == [phase : ManagerPhases, subscribers : SUBSET Clients,
                 mail : Seq(RefreshMsg \cup RequestMsg), gone : SUBSET Clients]
AnswerType   == [seq : Nat, book : Books]
ClientType   == [phase : ClientPhases, seq : Nat, n : Nat, answer : AnswerType,
                 mail : Seq(RefreshMsg)]

\* The shapes of the state, whatever the books are.
Types ==
    /\ market \in 0..MaxUpdates
    /\ socket \in SocketType
    /\ listener \in ListenerType
    /\ manager \in ManagerType
    /\ known \in BOOLEAN /\ requests \in Seq(RequestMsg)
    /\ client \in [Clients -> ClientType]
    /\ view \in [Clients -> Books]
    /\ faults \in 0..MaxFaults /\ closes \in 0..MaxCloses

\* A client with a manager that will serve it.
Served(c) == known /\ manager.phase = "running" /\ c \in manager.subscribers

\* A request the listener may have: its client is served, or has gone meanwhile.
Accepted == {m \in RequestMsg : Served(m.c) \/ client[m.c].phase = "closed"}

\* The listener works for a manager that runs, the executor knows the manager that
\* exists, and whoever has been answered is subscribed there; only clients that
\* are closed are being taken off the list.
Subscriptions ==
    /\ known <=> manager.phase # "none"
    /\ manager.phase # "running" => listener.phase = "none" /\ listener.mail = <<>>
    /\ listener.mail \in Seq(DepthMsg(MaxUpdates) \cup Accepted)
    /\ \A c \in manager.gone : client[c].phase = "closed"
    /\ \A c \in Clients :
        /\ client[c].phase = "following" => Served(c)
        /\ client[c].answer # NoAnswer => client[c].phase = "asking" /\ Served(c)

\* The events not read yet that are later than the snapshot are those since the
\* snapshot, every one of them, in order.
NoneMissing(q, book) ==
    /\ Len(q) >= market - book
    /\ \A i \in 1..Len(q) :
          IF i > Len(q) - (market - book) THEN q[i].k = market - Len(q) + i ELSE q[i].k <= book

\* The listener's book is one the exchange had, and its place in the stream is
\* the book's.
BookInv ==
    /\ listener.book \in 0..market
    /\ socket.q \in Seq(DepthMsg(market))
    /\ listener.mail \in Seq(DepthMsg(market) \cup RequestMsg)
    /\ ~socket.up => socket.q = <<>>
    /\ listener.phase = "sync" => /\ listener.last = Final(listener.book)
                                  /\ socket.up => NoneMissing(socket.q, listener.book)
    /\ listener.phase = "running" => listener.last = Final(listener.book) - 1

----------------------------------------------------------------------------
(***************************************************************************)
(* Requests have numbers of their own.                                     *)
(***************************************************************************)
\* The elements of a sequence are finitely many: one index each.
LEMMA ToSetFinite ==
    ASSUME NEW S, NEW q \in Seq(S)
    PROVE  IsFiniteSet(ToSet(q))
<1>1. q \in [1..Len(q) -> ToSet(q)] /\ \A x \in ToSet(q) : \E i \in 1..Len(q) : q[i] = x
    BY DEF ToSet
<1>2. q \in Surjection(1..Len(q), ToSet(q))
    BY <1>1 DEF Surjection
<1>3. IsFiniteSet(1..Len(q))
    BY FS_Interval
<1> QED
    BY <1>2, <1>3, FS_Surjection

\* There is always a number that no request of a client in flight has.
LEMMA FreshIsNew ==
    ASSUME Types, NEW c \in Clients
    PROVE  Fresh(c) \in Nat /\ Request(c, Fresh(c)) \in RequestMsg
<1> DEFINE N == Cardinality(InFlight) + 1
           f == [n \in 1..N |-> Request(c, n)]
<1>1. IsFiniteSet(InFlight)
  <2>1. /\ IsFiniteSet(ToSet(requests)) /\ IsFiniteSet(ToSet(manager.mail))
        /\ IsFiniteSet(ToSet(listener.mail))
      BY ToSetFinite DEF Types, ManagerType, ListenerType
  <2> QED
      BY <2>1, FS_Union DEF InFlight
<1>2. Cardinality(InFlight) \in Nat /\ N \in Nat
    BY <1>1, FS_CardinalityType
<1> HIDE DEF N
<1>3. \E n \in 1..N : Request(c, n) \notin InFlight
  <2> SUFFICES ASSUME \A n \in 1..N : Request(c, n) \in InFlight PROVE FALSE
      OBVIOUS
  <2>1. \A n, m \in 1..N : Request(c, n) = Request(c, m) => n = m
      BY DEF Request
  <2>2. f \in Injection(1..N, InFlight)
      BY <2>1 DEF Injection, IsInjective
  <2> HIDE DEF f
  <2>3. N <= Cardinality(InFlight)
    <3>1. Cardinality(1..N) = N
        BY <1>2, FS_Interval
    <3> QED
        BY <1>1, <2>2, <3>1, FS_Injection
  <2> QED
      BY <1>2, <2>3 DEF N
<1>4. Fresh(c) \in 1..N
    BY <1>3 DEF Fresh, N
<1> QED
    BY <1>2, <1>4 DEF Request, RequestMsg
----------------------------------------------------------------------------
(***************************************************************************)
(* The types.                                                              *)
(***************************************************************************)

\* A change applied to a book makes a book.
LEMMA ApplyType ==
    ASSUME NEW b \in Books, NEW k \in 0..MaxUpdates
    PROVE  Apply(b, k) \in Books
BY DEF Apply, Books, Corrupt, NoBook

\* The update ids of event k, and those before it.
LEMMA FinalType ==
    ASSUME NEW k \in Int
    PROVE  /\ Final(k) = 2 * k /\ Final(k) \in Int /\ Previous(k) = 2 * k - 2
           /\ k >= 0 => Final(k) \in Nat
           /\ k >= 1 => Final(k) - 1 \in Nat
BY DEF Final, Previous

\* A message leaves the listener's mailbox, or the manager's.
LEMMA TakenType ==
    ASSUME Types, NEW kind, Received(kind)
    PROVE  /\ Taken \in ListenerType
           /\ Taken.phase = "running" /\ listener.phase = "running"
           /\ Taken.seq = listener.seq /\ Taken.last = listener.last
           /\ Taken.book = listener.book /\ Taken.beaten = listener.beaten
           /\ Taken.mail = Tail(listener.mail)
           /\ Head(listener.mail) \in DepthMsg(MaxUpdates) \cup RequestMsg
           /\ kind = "depth" => Head(listener.mail) \in DepthMsg(MaxUpdates)
           /\ kind = "request" => Head(listener.mail) \in RequestMsg
<1> DEFINE S == DepthMsg(MaxUpdates) \cup RequestMsg
<1>1. listener.mail \in Seq(S) /\ listener.mail # <<>> /\ listener \in ListenerType
    BY DEF Types, ListenerType, Received
<1>2. Head(listener.mail) \in S /\ Tail(listener.mail) \in Seq(S)
  <2> HIDE DEF S
  <2> QED
      BY <1>1, HeadTailProperties
<1>3. Head(listener.mail).kind = kind /\ listener.phase = "running"
    BY DEF Received
<1>4. Taken \in ListenerType /\ Taken.mail = Tail(listener.mail)
    BY <1>1, <1>2 DEF Taken, ListenerType
<1>5. /\ Taken.phase = listener.phase /\ Taken.seq = listener.seq /\ Taken.last = listener.last
      /\ Taken.book = listener.book /\ Taken.beaten = listener.beaten
    BY <1>1 DEF Taken, ListenerType
<1> QED
    BY <1>2, <1>3, <1>4, <1>5 DEF DepthMsg, RequestMsg

\* What is left of the manager's mailbox, and the kind of the message taken from it.
LEMMA ManagedType ==
    ASSUME Types, NEW kind, Managed(kind)
    PROVE  /\ [manager EXCEPT !.mail = Tail(@)] \in ManagerType
           /\ Tail(manager.mail) \in Seq(RefreshMsg \cup RequestMsg)
           /\ kind = "refresh" => Head(manager.mail) \in RefreshMsg
           /\ kind = "request" => Head(manager.mail) \in RequestMsg
<1> DEFINE S == RefreshMsg \cup RequestMsg
<1>1. manager.mail \in Seq(S) /\ manager.mail # <<>> /\ manager \in ManagerType
    BY DEF Types, ManagerType, Managed
<1>2. Head(manager.mail) \in S /\ Tail(manager.mail) \in Seq(S)
  <2> HIDE DEF S
  <2> QED
      BY <1>1, HeadTailProperties
<1>3. [manager EXCEPT !.mail = Tail(@)] \in ManagerType
    BY <1>1, <1>2 DEF ManagerType
<1> QED
    BY <1>2, <1>3 DEF Managed, RefreshMsg, RequestMsg

\* What the listener sends reaches a manager that runs.
LEMMA ToManagerType ==
    ASSUME Types, NEW m \in RefreshMsg \cup RequestMsg, ToManager(m)
    PROVE  /\ manager' \in ManagerType
           /\ manager'.phase = manager.phase /\ manager'.subscribers = manager.subscribers
           /\ manager'.gone = manager.gone
           /\ manager'.mail \in {manager.mail, Append(manager.mail, m)}
<1>1. manager \in ManagerType /\ manager.mail \in Seq(RefreshMsg \cup RequestMsg)
    BY DEF Types, ManagerType
<1>2. Append(manager.mail, m) \in Seq(RefreshMsg \cup RequestMsg)
    BY <1>1, AppendProperties
<1> QED
    BY <1>1, <1>2 DEF ToManager, ManagerType

\* The refresh a listener sends is one.
LEMMA RefreshType ==
    ASSUME NEW s \in Nat, NEW k \in 0..MaxUpdates
    PROVE  /\ Refresh(s, k) \in RefreshMsg
           /\ Refresh(s, k).seq = s /\ Refresh(s, k).k = k /\ Refresh(s, k).kind = "refresh"
BY DEF Refresh, RefreshMsg

\* A client asks.
LEMMA AskType ==
    ASSUME Types, NEW c \in Clients, NEW r \in ClientType, Ask(c, r)
    PROVE  /\ client' \in [Clients -> ClientType]
           /\ requests' \in Seq(RequestMsg)
           /\ \A d \in Clients \ {c} : client'[d] = client[d]
           /\ client'[c].phase = "asking" /\ client'[c].answer = NoAnswer
           /\ client'[c].mail = r.mail
<1>1. Fresh(c) \in Nat /\ Request(c, Fresh(c)) \in RequestMsg
    BY FreshIsNew
<1>2. NoAnswer \in AnswerType
    BY DEF NoAnswer, AnswerType, Books
<1>3. PICK s \in ClientType :
        /\ s = [r EXCEPT !.phase = "asking", !.n = Fresh(c), !.answer = NoAnswer]
        /\ s.phase = "asking" /\ s.answer = NoAnswer /\ s.mail = r.mail
  <2> DEFINE t == [r EXCEPT !.phase = "asking", !.n = Fresh(c), !.answer = NoAnswer]
  <2>1. t \in ClientType /\ t.phase = "asking" /\ t.answer = NoAnswer /\ t.mail = r.mail
      BY <1>1, <1>2 DEF ClientType, ClientPhases
  <2> HIDE DEF t
  <2>2. \E s \in ClientType : s = t
      BY <2>1
  <2> QED
      BY <2>1, <2>2 DEF t
<1>4. client' = [client EXCEPT ![c] = s] /\ requests' = Append(requests, Request(c, Fresh(c)))
    BY <1>3 DEF Ask
<1>5. requests' \in Seq(RequestMsg)
    BY <1>1, <1>4, AppendProperties DEF Types
<1> QED
    BY <1>3, <1>4, <1>5 DEF Types

\* The next refresh of a client.
LEMMA HandledType ==
    ASSUME Types, NEW c \in Clients, client[c].mail # <<>>
    PROVE  /\ Handled(c) \in ClientType /\ Next1(c) \in RefreshMsg
           /\ Handled(c).mail = Tail(client[c].mail) /\ Handled(c).phase = client[c].phase
           /\ Handled(c).seq = client[c].seq /\ Handled(c).answer = client[c].answer
<1>1. client[c] \in ClientType /\ client[c].mail \in Seq(RefreshMsg)
    BY DEF Types, ClientType
<1>2. Head(client[c].mail) \in RefreshMsg /\ Tail(client[c].mail) \in Seq(RefreshMsg)
    BY <1>1, HeadTailProperties
<1> QED
    BY <1>1, <1>2 DEF Handled, Next1, ClientType

\* The socket that is closed, the one just opened, and the manager that is not there.
LEMMA SocketTypes ==
    /\ NoSocket \in SocketType /\ NoSocket.q = <<>> /\ NoSocket.up = FALSE
    /\ [up |-> TRUE, q |-> <<>>] \in SocketType
    /\ NoManager \in ManagerType /\ NoManager.phase = "none" /\ NoManager.subscribers = {}
    /\ NoManager.gone = {} /\ NoManager.mail = <<>>
<1>1. <<>> \in Seq(DepthMsg(MaxUpdates)) /\ <<>> \in Seq(RefreshMsg \cup RequestMsg)
    BY EmptySeq
<1> QED
    BY <1>1 DEF SocketType, NoSocket, NoManager, ManagerType, ManagerPhases

\* What a fault costs, and what costs none.
LEMMA CountTypes ==
    ASSUME Types, Fault \/ NoFault \/ (faults' \in {faults, faults + 1} /\ faults' \in 0..MaxFaults
                                       /\ closes' \in 0..MaxCloses)
    PROVE  faults' \in 0..MaxFaults /\ closes' \in 0..MaxCloses
BY MarketBounds DEF Types, Fault, NoFault

\* An event leaves the socket, or is lost on its way.
LEMMA SocketRead ==
    ASSUME NEW m \in Nat, NEW q \in Seq(DepthMsg(m)), q # <<>>
    PROVE  Head(q) \in DepthMsg(m) /\ Tail(q) \in Seq(DepthMsg(m)) /\ Head(q).k \in 1..m
<1>1. Head(q) \in DepthMsg(m) /\ Tail(q) \in Seq(DepthMsg(m))
    BY HeadTailProperties
<1> QED
    BY <1>1 DEF DepthMsg

\* The exchange and its stream.
LEMMA StreamTypes ==
    ASSUME Types, Change \/ SocketFails \/ EventLost \/ SubscribeFails
    PROVE  Types'
<1>1. socket \in SocketType /\ socket.q \in Seq(DepthMsg(MaxUpdates)) /\ listener \in ListenerType
    BY DEF Types, SocketType
<1>2. CASE Change
  <2>1. market' \in 1..MaxUpdates /\ market' \in 0..MaxUpdates
      BY <1>2, MarketBounds DEF Types, Change
  <2>2. Depth(market') \in DepthMsg(MaxUpdates)
      BY <2>1 DEF Depth, DepthMsg
  <2>3. Append(socket.q, Depth(market')) \in Seq(DepthMsg(MaxUpdates))
      BY <1>1, <2>2, AppendProperties
  <2>4. socket' \in SocketType
      BY <1>1, <1>2, <2>3 DEF Change, SocketType
  <2> QED
      BY <1>2, <2>1, <2>4, CountTypes DEF Types, Change
<1>3. CASE SocketFails
    BY <1>3, SocketTypes, CountTypes DEF Types, SocketFails
<1>4. CASE EventLost
  <2>1. PICK i \in 1..Len(socket.q) : socket' = [socket EXCEPT !.q = RemoveAt(@, i)]
      BY <1>4 DEF EventLost
  <2>2. RemoveAt(socket.q, i) \in Seq(DepthMsg(MaxUpdates))
      BY <1>1, Removal
  <2>3. socket' \in SocketType
      BY <1>1, <2>1, <2>2 DEF SocketType
  <2> QED
      BY <1>4, <2>3, CountTypes DEF Types, EventLost
<1>5. CASE SubscribeFails
  <2>1. listener' \in ListenerType
      BY <1>1, <1>5 DEF SubscribeFails, ListenerType, ListenerPhases
  <2>2. Fault \/ NoFault
      BY <1>5 DEF SubscribeFails
  <2> QED
      BY <1>5, <2>1, <2>2, CountTypes DEF Types, SubscribeFails
<1> QED
    BY <1>2, <1>3, <1>4, <1>5

\* How Sync takes the listener on.
LEMMA SyncedType ==
    ASSUME NEW l \in ListenerType
    PROVE  /\ Synced(l) \in ListenerType
           /\ Synced(l).phase = "running" /\ Synced(l).seq = l.seq + 1
           /\ Synced(l).last = l.last /\ Synced(l).book = l.book /\ Synced(l).mail = l.mail
<1>0. PICK n \in Nat : n = l.seq + 1
    BY DEF ListenerType
<1>1. Synced(l) = [l EXCEPT !.phase = "running", !.seq = n, !.beaten = FALSE]
    BY <1>0 DEF Synced
<1>2. Synced(l) \in ListenerType
    BY <1>1 DEF ListenerType, ListenerPhases
<1>3. /\ Synced(l).phase = "running" /\ Synced(l).seq = n
      /\ Synced(l).last = l.last /\ Synced(l).book = l.book /\ Synced(l).mail = l.mail
    BY <1>1 DEF ListenerType
<1> QED
    BY <1>0, <1>2, <1>3

\* The cases of Sync: an event older than the snapshot, the first that is not, or the end of the stream.
LEMMA SyncShape ==
    ASSUME Types, Sync
    PROVE  /\ socket.up /\ listener.phase = "sync"
           /\ \/ /\ socket.q # <<>> /\ socket' = [socket EXCEPT !.q = Tail(@)]
                 /\ Final(Head(socket.q).k) <= listener.last /\ listener' = listener
              \/ /\ socket.q # <<>> /\ socket' = [socket EXCEPT !.q = Tail(@)]
                 /\ Final(Head(socket.q).k) > listener.last /\ listener' \in ListenerType
                 /\ listener'.phase = "running" /\ listener'.seq = listener.seq + 1
                 /\ listener'.mail = listener.mail
                 /\ listener'.book = Apply(listener.book, Head(socket.q).k)
                 /\ listener'.last = Final(Head(socket.q).k) - 1
              \/ /\ socket.q = <<>> /\ market = MaxUpdates /\ socket' = socket
                 /\ listener' \in ListenerType
                 /\ listener'.phase = "running" /\ listener'.seq = listener.seq + 1
                 /\ listener'.mail = listener.mail /\ listener'.book = listener.book
                 /\ listener'.last = Final(market) - 1
<1>1. /\ listener \in ListenerType /\ listener.book \in Books /\ listener.last \in Nat
      /\ listener.seq \in Nat
      /\ socket.q \in Seq(DepthMsg(MaxUpdates)) /\ MaxUpdates \in Nat
    BY MarketBounds DEF Types, ListenerType, SocketType
<1>2. CASE socket.q # <<>>
  <2> DEFINE k == Head(socket.q).k
             l == [listener EXCEPT !.book = Apply(@, k), !.last = Final(k) - 1]
  <2>1. k \in 1..MaxUpdates
      BY <1>1, <1>2, SocketRead
  <2> HIDE DEF k
  <2>2. Final(k) - 1 \in Nat /\ Final(k) \in Int /\ Apply(listener.book, k) \in Books
    <3>1. k \in Int /\ k >= 1 /\ k \in 0..MaxUpdates
        BY <1>1, <2>1
    <3> QED
        BY <1>1, <3>1, FinalType, ApplyType
  <2>3. /\ l \in ListenerType /\ l.book = Apply(listener.book, k) /\ l.last = Final(k) - 1
        /\ l.seq = listener.seq /\ l.mail = listener.mail
      BY <1>1, <2>2 DEF ListenerType
  <2>4. /\ socket' = [socket EXCEPT !.q = Tail(@)] /\ socket.up /\ listener.phase = "sync"
        /\ listener' = IF Final(k) <= listener.last THEN listener ELSE Synced(l)
      BY <1>2 DEF Sync, k
  <2> HIDE DEF l
  <2> QED
      BY <1>1, <1>2, <2>2, <2>3, <2>4, SyncedType DEF k
<1>3. CASE socket.q = <<>>
  <2> DEFINE l == [listener EXCEPT !.last = Final(market) - 1]
  <2>1. market = MaxUpdates /\ market >= 1 /\ market \in Int
      BY <1>3, MarketBounds DEF Sync
  <2>2. Final(market) - 1 \in Nat
      BY <2>1, FinalType
  <2>3. /\ l \in ListenerType /\ l.book = listener.book /\ l.last = Final(market) - 1
        /\ l.seq = listener.seq /\ l.mail = listener.mail
      BY <1>1, <2>2 DEF ListenerType
  <2>4. listener' = Synced(l) /\ socket' = socket /\ socket.up /\ listener.phase = "sync"
      BY <1>3 DEF Sync
  <2> HIDE DEF l
  <2> QED
      BY <1>3, <2>1, <2>3, <2>4, SyncedType
<1> QED
    BY <1>2, <1>3

\* The listener takes a change from its mailbox: skips it, starts anew, passes it
\* on, or finds the book crossed.
LEMMA DepthShape ==
    ASSUME Types, OnDepthData
    PROVE  LET k == Head(listener.mail).k IN
           /\ listener.phase = "running" /\ listener.mail # <<>> /\ k \in 1..MaxUpdates
           /\ Head(listener.mail).kind = "depth"
           /\ listener' \in ListenerType /\ manager' \in ManagerType
           /\ listener'.mail = Tail(listener.mail)
           /\ \/ /\ listener'.phase = "running" /\ manager' = manager
                 /\ listener'.seq = listener.seq /\ listener'.last = listener.last
                 /\ listener'.book = listener.book
              \/ /\ listener'.phase = "connect" /\ manager' = manager
                 /\ listener'.seq = listener.seq /\ listener'.book = listener.book
              \/ /\ listener'.phase = "running" /\ listener.last + 1 = Previous(k)
                 /\ listener'.seq = listener.seq + 1 /\ listener'.last = Final(k) - 1
                 /\ listener'.book = Apply(listener.book, k)
                 /\ ToManager(Refresh(listener.seq + 1, k))
              \/ /\ listener'.phase = "connect" /\ manager' = manager
                 /\ listener.last + 1 = Previous(k)
                 /\ listener'.seq = listener.seq
                 /\ listener'.book = Apply(listener.book, k)
<1> DEFINE k == Head(listener.mail).k
           next == [Taken EXCEPT !.book = Apply(@, k)]
<1>1. /\ listener.phase = "running" /\ listener.mail # <<>> /\ k \in 1..MaxUpdates
      /\ Head(listener.mail).kind = "depth" /\ MaxUpdates \in Nat
    BY TakenType, MarketBounds DEF OnDepthData, Received, DepthMsg
<1>2. /\ Taken \in ListenerType /\ Taken.phase = "running"
      /\ Taken.seq = listener.seq /\ Taken.last = listener.last
      /\ Taken.book = listener.book /\ Taken.beaten = listener.beaten
      /\ Taken.mail = Tail(listener.mail) /\ manager \in ManagerType
      /\ listener.book \in Books /\ listener.seq \in Nat
    BY TakenType DEF OnDepthData, Types, ListenerType
<1>3. \/ /\ listener' = Taken /\ manager' = manager
      \/ /\ listener' = [Taken EXCEPT !.phase = "connect"] /\ manager' = manager
      \/ /\ listener.last + 1 = Previous(k)
         /\ listener' = [next EXCEPT !.last = Final(k) - 1, !.seq = @ + 1]
         /\ ToManager(Refresh(listener.seq + 1, k))
      \/ /\ listener.last + 1 = Previous(k)
         /\ listener' = [next EXCEPT !.phase = "connect"] /\ manager' = manager
    BY DEF OnDepthData
<1> HIDE DEF k
<1>4. k \in Int /\ k >= 1 /\ k \in 0..MaxUpdates
    BY <1>1
<1>5. Final(k) - 1 \in Nat /\ Apply(listener.book, k) \in Books
    BY <1>2, <1>4, FinalType, ApplyType
<1>6. /\ next \in ListenerType /\ next.phase = "running" /\ next.seq = listener.seq
      /\ next.book = Apply(listener.book, k) /\ next.mail = Tail(listener.mail)
    BY <1>2, <1>5 DEF ListenerType
<1> HIDE DEF next
<1>7. CASE listener' = Taken /\ manager' = manager
    BY <1>1, <1>2, <1>7 DEF k
<1>8. CASE listener' = [Taken EXCEPT !.phase = "connect"] /\ manager' = manager
  <2>1. /\ listener' \in ListenerType /\ listener'.phase = "connect"
        /\ listener'.seq = listener.seq /\ listener'.book = listener.book
        /\ listener'.mail = Tail(listener.mail)
      BY <1>2, <1>8 DEF ListenerType, ListenerPhases
  <2> QED
      BY <1>1, <1>2, <1>8, <2>1 DEF k
<1>9. CASE /\ listener.last + 1 = Previous(k)
           /\ listener' = [next EXCEPT !.last = Final(k) - 1, !.seq = @ + 1]
           /\ ToManager(Refresh(listener.seq + 1, k))
  <2>0. PICK n \in Nat, f \in Nat : n = listener.seq + 1 /\ f = Final(k) - 1
      BY <1>2, <1>5
  <2>1. listener' = [next EXCEPT !.last = f, !.seq = n]
      BY <1>6, <1>9, <2>0
  <2>2. listener' \in ListenerType /\ listener'.mail = Tail(listener.mail)
      BY <1>6, <2>1 DEF ListenerType
  <2>4. /\ listener'.phase = "running" /\ listener'.seq = n /\ listener'.last = f
        /\ listener'.book = Apply(listener.book, k)
      BY <1>6, <2>1 DEF ListenerType
  <2>3. manager' \in ManagerType
    <3>1. Refresh(listener.seq + 1, k) \in RefreshMsg
        BY <1>2, <1>4, RefreshType
    <3> QED
        BY <1>9, <3>1, ToManagerType
  <2> QED
      BY <1>1, <1>9, <2>0, <2>2, <2>3, <2>4 DEF k
<1>10. CASE /\ listener.last + 1 = Previous(k)
            /\ listener' = [next EXCEPT !.phase = "connect"] /\ manager' = manager
  <2>1. /\ listener' \in ListenerType /\ listener'.phase = "connect"
        /\ listener'.seq = listener.seq /\ listener'.book = Apply(listener.book, k)
        /\ listener'.mail = Tail(listener.mail)
      BY <1>6, <1>10 DEF ListenerType, ListenerPhases
  <2> QED
      BY <1>1, <1>2, <1>10, <2>1 DEF k
<1> QED
    BY <1>3, <1>7, <1>8, <1>9, <1>10

\* The listener answers a request with its book.
LEMMA AnswerShape ==
    ASSUME Types, OnListenerRequest
    PROVE  LET m == Head(listener.mail) IN
           /\ listener.phase = "running" /\ listener.mail # <<>> /\ m \in RequestMsg
           /\ listener' = Taken
           /\ client' \in [Clients -> ClientType]
           /\ \A c \in Clients :
                 \/ client'[c] = client[c]
                 \/ /\ c = m.c /\ client[c].phase = "asking"
                    /\ client'[c].phase = client[c].phase
                    /\ client'[c].seq = client[c].seq /\ client'[c].mail = client[c].mail
                    /\ client'[c].answer = [seq |-> listener.seq, book |-> listener.book]
<1> DEFINE m == Head(listener.mail)
           a == [seq |-> listener.seq, book |-> listener.book]
<1>1. /\ listener.phase = "running" /\ listener.mail # <<>> /\ m \in RequestMsg /\ m.c \in Clients
      /\ listener' = Taken
      /\ client' = IF client[m.c].phase = "asking" /\ client[m.c].n = m.n
                   THEN [client EXCEPT ![m.c].answer = a] ELSE client
    BY TakenType DEF OnListenerRequest, Received, RequestMsg
<1>2. a \in AnswerType
    BY DEF AnswerType, Types, ListenerType
<1> HIDE DEF m, a
<1>3. client[m.c] \in ClientType /\ client \in [Clients -> ClientType]
    BY <1>1, SMTT(30) DEF Types
<1>4. CASE client' = client
    BY <1>1, <1>3, <1>4, SMTT(30) DEF m
<1>5. CASE client[m.c].phase = "asking" /\ client' = [client EXCEPT ![m.c].answer = a]
  <2>1. PICK r \in ClientType :
          /\ client' = [client EXCEPT ![m.c] = r] /\ r.phase = client[m.c].phase
          /\ r.seq = client[m.c].seq /\ r.mail = client[m.c].mail /\ r.answer = a
    <3> DEFINE r == [client[m.c] EXCEPT !.answer = a]
    <3>1. r \in ClientType /\ r.phase = client[m.c].phase
          /\ r.seq = client[m.c].seq /\ r.mail = client[m.c].mail /\ r.answer = a
        BY <1>2, <1>3 DEF ClientType
    <3>2. client' = [client EXCEPT ![m.c] = r]
        BY <1>5
    <3> QED
        BY <3>1, <3>2
  <2>2. client' \in [Clients -> ClientType] /\ client'[m.c] = r
        /\ \A c \in Clients \ {m.c} : client'[c] = client[c]
      BY <1>1, <1>3, <2>1
  <2> QED
      BY <1>1, <1>5, <2>1, <2>2 DEF m, a
<1> QED
    BY <1>1, <1>4, <1>5

\* A number is counted, a refresh without a change is sent.
LEMMA HeartbeatShape ==
    ASSUME Types, Heartbeat
    PROVE  /\ listener.phase = "running"
           /\ listener' \in ListenerType /\ manager' \in ManagerType
           /\ listener'.phase = "running" /\ listener'.seq = listener.seq + 1
           /\ listener'.last = listener.last /\ listener'.book = listener.book
           /\ listener'.mail = listener.mail
           /\ ToManager(Refresh(listener.seq + 1, 0))
<1>1. listener \in ListenerType /\ listener.phase = "running"
    BY DEF Types, Heartbeat
<1>2. PICK n \in Nat : n = listener.seq + 1
    BY <1>1 DEF ListenerType
<1>3. listener' = [listener EXCEPT !.seq = n, !.beaten = TRUE] /\ ToManager(Refresh(n, 0))
    BY <1>2 DEF Heartbeat
<1>4. listener' \in ListenerType
    BY <1>1, <1>3 DEF ListenerType
<1>5. /\ listener'.phase = "running" /\ listener'.seq = n /\ listener'.mail = listener.mail
      /\ listener'.last = listener.last /\ listener'.book = listener.book
    BY <1>1, <1>3 DEF ListenerType
<1>6. Refresh(n, 0) \in RefreshMsg
    BY RefreshType, MarketBounds
<1>7. manager' \in ManagerType
    BY <1>3, <1>6, ToManagerType
<1> QED
    BY <1>1, <1>2, <1>3, <1>4, <1>5, <1>7

\* The goroutine of the socket passes an event on.
LEMMA ReadShape ==
    ASSUME Types, ReadMessage
    PROVE  /\ listener.phase \in {"running", "failed"}
           /\ socket' \in SocketType /\ socket'.q = Tail(socket.q) /\ socket'.up = socket.up
           /\ socket.q # <<>> /\ listener' \in ListenerType
           /\ listener'.mail = Append(listener.mail, Head(socket.q))
           /\ listener'.phase = listener.phase /\ listener'.seq = listener.seq
           /\ listener'.last = listener.last /\ listener'.book = listener.book
<1> DEFINE S == DepthMsg(MaxUpdates) \cup RequestMsg
<1>1. /\ socket \in SocketType /\ socket.q \in Seq(DepthMsg(MaxUpdates)) /\ socket.q # <<>>
      /\ listener \in ListenerType /\ listener.mail \in Seq(S) /\ MaxUpdates \in Nat
    BY MarketBounds DEF Types, SocketType, ListenerType, ReadMessage
<1>2. Head(socket.q) \in S /\ Tail(socket.q) \in Seq(DepthMsg(MaxUpdates))
    BY <1>1, SocketRead
<1>3. Append(listener.mail, Head(socket.q)) \in Seq(S)
  <2> HIDE DEF S
  <2> QED
      BY <1>1, <1>2, AppendProperties
<1>4. socket' \in SocketType /\ socket'.q = Tail(socket.q) /\ socket'.up = socket.up
    BY <1>1, <1>2 DEF ReadMessage, SocketType
<1>5. listener' = [listener EXCEPT !.mail = Append(listener.mail, Head(socket.q))]
    BY DEF ReadMessage
<1>6. listener' \in ListenerType /\ listener'.mail = Append(listener.mail, Head(socket.q))
    BY <1>1, <1>3, <1>5 DEF ListenerType
<1>7. /\ listener'.phase = listener.phase /\ listener'.seq = listener.seq
      /\ listener'.last = listener.last /\ listener'.book = listener.book
    BY <1>1, <1>5 DEF ListenerType
<1> QED
    BY <1>1, <1>4, <1>6, <1>7 DEF ReadMessage

\* The listener's phase changes, and nothing else of it but, with the snapshot,
\* its book.
LEMMA PhaseShape ==
    ASSUME Types, Connect \/ TakeSnapshot \/ RestartListener \/ CheckSockets \/ SubscribeFails
    PROVE  /\ listener' \in ListenerType /\ listener'.mail = listener.mail
           /\ listener'.seq = listener.seq
           /\ TakeSnapshot \/ listener'.book = listener.book
           /\ TakeSnapshot => listener'.book = market /\ listener'.last = Final(market)
           /\ listener'.phase # "none" /\ listener'.phase # "running" /\ listener.phase # "none"
           /\ listener'.phase = "sync" => TakeSnapshot
           /\ socket' \in SocketType
           /\ socket' = socket \/ socket' = NoSocket \/ socket' = [up |-> TRUE, q |-> <<>>]
           /\ UNCHANGED <<market, manager, known, requests, client, view>>
<1>1. /\ listener \in ListenerType /\ socket \in SocketType
      /\ market \in Nat /\ market \in Books
    BY MarketBounds DEF Types, Books
<1>2. CASE TakeSnapshot
  <2>1. Final(market) \in Nat
      BY <1>1, FinalType
  <2>2. listener' \in ListenerType
      BY <1>1, <1>2, <2>1 DEF TakeSnapshot, ListenerType, ListenerPhases
  <2>3. /\ listener'.phase = "sync" /\ listener'.seq = listener.seq
        /\ listener'.mail = listener.mail /\ listener'.book = market
        /\ listener'.last = Final(market)
      BY <1>1, <1>2, <2>1 DEF TakeSnapshot, ListenerType
  <2> QED
      BY <1>1, <1>2, <2>2, <2>3 DEF TakeSnapshot
<1>3. CASE Connect \/ RestartListener \/ CheckSockets \/ SubscribeFails
  <2>1. PICK p \in {"connect", "snapshot", "failed"} : listener' = [listener EXCEPT !.phase = p]
      BY <1>3 DEF Connect, RestartListener, CheckSockets, SubscribeFails
  <2>2. listener' \in ListenerType
      BY <1>1, <2>1 DEF ListenerType, ListenerPhases
  <2>3. /\ listener'.phase = p /\ listener'.mail = listener.mail
        /\ listener'.seq = listener.seq /\ listener'.book = listener.book
      BY <1>1, <2>1 DEF ListenerType
  <2>4. /\ socket' = socket \/ socket' = NoSocket \/ socket' = [up |-> TRUE, q |-> <<>>]
        /\ UNCHANGED <<market, manager, known, requests, client, view>>
        /\ listener.phase # "none"
      BY <1>3 DEF Connect, RestartListener, CheckSockets, SubscribeFails
  <2>6. ASSUME TakeSnapshot PROVE FALSE
    <3>1. listener' = [listener EXCEPT !.phase = "sync", !.book = market, !.last = Final(market)]
        BY <2>6 DEF TakeSnapshot
    <3>2. listener'.phase = "sync"
        BY <1>1, <3>1 DEF ListenerType
    <3> QED
        BY <2>3, <3>2
  <2>5. socket' \in SocketType
      BY <1>1, <2>4, SocketTypes
  <2> QED
      BY <2>2, <2>3, <2>4, <2>5, <2>6
<1> QED
    BY <1>2, <1>3

\* The listener's steps keep the types.
LEMMA ListenerTypes ==
    ASSUME Types, Listener PROVE Types'
<1>1. CASE Connect \/ TakeSnapshot \/ RestartListener \/ CheckSockets
  <2>1. NoFault
      BY <1>1 DEF Connect, TakeSnapshot, RestartListener, CheckSockets
  <2> QED
      BY <1>1, <2>1, PhaseShape, CountTypes DEF Types
<1>2. CASE ReadMessage
    BY <1>2, ReadShape, CountTypes DEF Types, ReadMessage
<1>3. CASE Sync
  <2>1. socket' \in SocketType
    <3>1. socket \in SocketType /\ (socket.q # <<>> => Tail(socket.q) \in Seq(DepthMsg(MaxUpdates)))
        BY MarketBounds, SocketRead DEF Types, SocketType
    <3> QED
        BY <1>3, <3>1, SyncShape DEF SocketType
  <2> QED
      BY <1>3, <2>1, SyncShape, CountTypes DEF Types, Sync
<1>4. CASE OnDepthData
  <2>1. (NoFault \/ Fault) /\ UNCHANGED <<market, socket, known, requests, client, view>>
      BY <1>4 DEF OnDepthData
  <2>2. listener' \in ListenerType /\ manager' \in ManagerType
      BY <1>4, DepthShape
  <2> QED
      BY <2>1, <2>2, CountTypes DEF Types
<1>5. CASE OnListenerRequest
  <2>1. Taken \in ListenerType
      BY <1>5, TakenType DEF OnListenerRequest
  <2> QED
      BY <1>5, <2>1, AnswerShape, CountTypes DEF Types, OnListenerRequest
<1>6. CASE Heartbeat
    BY <1>6, HeartbeatShape, CountTypes DEF Types, Heartbeat
<1> QED
    BY <1>1, <1>2, <1>3, <1>4, <1>5, <1>6 DEF Listener

\* The manager takes a client's request on to the listener.
LEMMA ManagerRequestShape ==
    ASSUME Types, OnManagerRequest
    PROVE  LET m == Head(manager.mail) IN
           /\ manager.phase = "running" /\ manager.mail # <<>>
           /\ m \in RequestMsg /\ m.c \in Clients
           /\ listener' \in ListenerType /\ manager' \in ManagerType
           /\ listener'.mail = Append(listener.mail, m)
           /\ listener'.phase = listener.phase /\ listener'.seq = listener.seq
           /\ listener'.last = listener.last /\ listener'.book = listener.book
           /\ manager'.phase = "running" /\ manager'.mail = Tail(manager.mail)
           /\ manager'.subscribers = manager.subscribers \cup {m.c}
           /\ manager'.gone = IF client[m.c].phase = "closed" THEN manager.gone \cup {m.c}
                              ELSE manager.gone
           /\ UNCHANGED <<market, socket, known, requests, client, view>> /\ NoFault
<1> DEFINE m == Head(manager.mail)
           S == DepthMsg(MaxUpdates) \cup RequestMsg
           g == IF client[m.c].phase = "closed" THEN manager.gone \cup {m.c} ELSE manager.gone
<1>1. /\ manager.phase = "running" /\ manager.mail # <<>> /\ m \in RequestMsg /\ m.c \in Clients
      /\ Tail(manager.mail) \in Seq(RefreshMsg \cup RequestMsg)
    BY ManagedType DEF OnManagerRequest, Managed, RequestMsg
<1>2. manager \in ManagerType /\ listener \in ListenerType /\ listener.mail \in Seq(S)
    BY DEF Types, ListenerType
<1>3. /\ manager' = [manager EXCEPT !.mail = Tail(manager.mail),
                       !.subscribers = manager.subscribers \cup {m.c}, !.gone = g]
      /\ listener' = [listener EXCEPT !.mail = Append(listener.mail, m)]
    BY DEF OnManagerRequest
<1>4. g \in SUBSET Clients
    BY <1>1, <1>2 DEF ManagerType
<1>5. Append(listener.mail, m) \in Seq(S)
  <2>1. m \in S
      BY <1>1
  <2> HIDE DEF S, m
  <2> QED
      BY <1>2, <2>1, AppendProperties
<1> HIDE DEF m, g
<1>6. manager' \in ManagerType
    BY <1>1, <1>2, <1>3, <1>4 DEF ManagerType
<1>7. /\ manager'.phase = "running" /\ manager'.mail = Tail(manager.mail)
      /\ manager'.subscribers = manager.subscribers \cup {m.c} /\ manager'.gone = g
    BY <1>1, <1>2, <1>3 DEF ManagerType
<1>8. listener' \in ListenerType /\ listener'.mail = Append(listener.mail, m)
    BY <1>2, <1>3, <1>5 DEF ListenerType
<1>9. /\ listener'.phase = listener.phase /\ listener'.seq = listener.seq
      /\ listener'.last = listener.last /\ listener'.book = listener.book
    BY <1>2, <1>3 DEF ListenerType
<1>10. UNCHANGED <<market, socket, known, requests, client, view>> /\ NoFault
    BY DEF OnManagerRequest
<1> QED
    BY <1>1, <1>6, <1>7, <1>8, <1>9, <1>10 DEF m, g

\* The manager fans a refresh out to its subscribers.
LEMMA FanOutShape ==
    ASSUME Types, OnIncrementalRefresh
    PROVE  LET m == Head(manager.mail) IN
           /\ manager.phase = "running" /\ manager.mail # <<>> /\ m \in RefreshMsg
           /\ manager' \in ManagerType /\ manager'.phase = "running"
           /\ manager'.mail = Tail(manager.mail)
           /\ manager'.subscribers = manager.subscribers /\ manager'.gone = manager.gone
           /\ client' \in [Clients -> ClientType]
           /\ \A c \in Clients :
                 /\ client'[c].phase = client[c].phase /\ client'[c].seq = client[c].seq
                 /\ client'[c].answer = client[c].answer
                 /\ client'[c].mail \in {client[c].mail, Append(client[c].mail, m)}
           /\ UNCHANGED <<market, socket, listener, known, requests, view>> /\ NoFault
<1> DEFINE m == Head(manager.mail)
<1>1. /\ manager.phase = "running" /\ manager.mail # <<>> /\ m \in RefreshMsg
      /\ Tail(manager.mail) \in Seq(RefreshMsg \cup RequestMsg) /\ manager \in ManagerType
    BY ManagedType DEF OnIncrementalRefresh, Managed, Types
<1>2. /\ manager' = [manager EXCEPT !.mail = Tail(manager.mail)]
      /\ client' = [c \in Clients |->
                       IF c \in manager.subscribers /\ client[c].phase # "closed"
                       THEN [client[c] EXCEPT !.mail = Append(client[c].mail, m)]
                       ELSE client[c]]
      /\ UNCHANGED <<market, socket, listener, known, requests, view>> /\ NoFault
    BY DEF OnIncrementalRefresh
<1>3. /\ manager' \in ManagerType /\ manager'.phase = "running"
      /\ manager'.mail = Tail(manager.mail)
      /\ manager'.subscribers = manager.subscribers /\ manager'.gone = manager.gone
    BY <1>1, <1>2 DEF ManagerType
<1> HIDE DEF m
<1>4. ASSUME NEW c \in Clients
      PROVE  /\ client'[c] \in ClientType
             /\ client'[c].phase = client[c].phase /\ client'[c].seq = client[c].seq
             /\ client'[c].answer = client[c].answer
             /\ client'[c].mail \in {client[c].mail, Append(client[c].mail, m)}
  <2>1. client[c] \in ClientType /\ client[c].mail \in Seq(RefreshMsg)
      BY DEF Types, ClientType
  <2>2. Append(client[c].mail, m) \in Seq(RefreshMsg)
      BY <1>1, <2>1, AppendProperties
  <2>3. \/ client'[c] = client[c]
        \/ client'[c] = [client[c] EXCEPT !.mail = Append(client[c].mail, m)]
      BY <1>2
  <2> QED
      BY <2>1, <2>2, <2>3 DEF ClientType
<1>5. client' \in [Clients -> ClientType]
    BY <1>2, <1>4
<1> QED
    BY <1>1, <1>2, <1>3, <1>4, <1>5 DEF m

\* The manager learns that a client has gone.
LEMMA TerminatedShape ==
    ASSUME Types, NEW c \in Clients, OnSubscriberTerminated(c)
    PROVE  /\ manager.phase = "running" /\ c \in manager.gone
           /\ listener' \in ListenerType /\ socket' \in SocketType /\ manager' \in ManagerType
           /\ listener'.seq = listener.seq /\ listener'.book = listener.book
           /\ \/ /\ manager.subscribers \ {c} = {}
                 /\ manager'.phase = "stopping" /\ manager'.subscribers = {}
                 /\ manager'.gone = {} /\ manager'.mail = <<>>
                 /\ listener'.phase = "none" /\ listener'.mail = <<>> /\ socket' = NoSocket
              \/ /\ manager'.phase = "running" /\ manager'.mail = manager.mail
                 /\ manager'.subscribers = manager.subscribers \ {c}
                 /\ manager'.gone = manager.gone \ {c}
                 /\ UNCHANGED <<listener, socket>>
           /\ UNCHANGED <<market, known, requests, client, view>> /\ NoFault
<1>1. /\ manager.phase = "running" /\ c \in manager.gone
      /\ UNCHANGED <<market, known, requests, client, view>> /\ NoFault
    BY DEF OnSubscriberTerminated
<1>2. manager \in ManagerType /\ listener \in ListenerType /\ socket \in SocketType
    BY DEF Types
<1>3. CASE manager.subscribers \ {c} = {}
  <2>1. /\ manager' = [NoManager EXCEPT !.phase = "stopping"]
        /\ listener' = [listener EXCEPT !.phase = "none", !.mail = <<>>]
        /\ socket' = NoSocket
      BY <1>3 DEF OnSubscriberTerminated
  <2>2. /\ manager' \in ManagerType /\ manager'.phase = "stopping" /\ manager'.subscribers = {}
        /\ manager'.gone = {} /\ manager'.mail = <<>>
      BY <2>1, SocketTypes DEF NoManager, ManagerType, ManagerPhases
  <2>3. /\ listener' \in ListenerType /\ listener'.phase = "none" /\ listener'.mail = <<>>
        /\ listener'.seq = listener.seq /\ listener'.book = listener.book
    <3>1. <<>> \in Seq(DepthMsg(MaxUpdates) \cup RequestMsg)
        BY EmptySeq
    <3> QED
        BY <1>2, <2>1, <3>1 DEF ListenerType, ListenerPhases
  <2> QED
      BY <1>1, <1>3, <2>1, <2>2, <2>3, SocketTypes
<1>4. CASE manager.subscribers \ {c} # {}
  <2>1. /\ manager' = [manager EXCEPT !.subscribers = manager.subscribers \ {c},
                                      !.gone = manager.gone \ {c}]
        /\ UNCHANGED <<listener, socket>>
      BY <1>4 DEF OnSubscriberTerminated
  <2>2. /\ manager' \in ManagerType /\ manager'.phase = "running" /\ manager'.mail = manager.mail
        /\ manager'.subscribers = manager.subscribers \ {c} /\ manager'.gone = manager.gone \ {c}
      BY <1>1, <1>2, <2>1 DEF ManagerType
  <2> QED
      BY <1>1, <1>2, <2>1, <2>2
<1> QED
    BY <1>3, <1>4

\* The executor forwards a request, to a manager it knows or to a new one.
LEMMA RequestShape ==
    ASSUME Types, OnMarketDataRequest
    PROVE  /\ requests' \in Seq(RequestMsg) /\ known' = TRUE
           /\ manager' \in ManagerType /\ listener' \in ListenerType
           /\ listener'.seq = listener.seq /\ listener'.book = listener.book
           /\ listener'.mail = listener.mail
           /\ \/ /\ known /\ listener' = listener
                 /\ manager'.phase = manager.phase /\ manager'.gone = manager.gone
                 /\ manager'.subscribers = manager.subscribers
                 /\ \E m \in RequestMsg : manager'.mail \in {manager.mail, Append(manager.mail, m)}
              \/ /\ ~known /\ manager'.phase = "running" /\ manager'.subscribers = {}
                 /\ manager'.gone = {} /\ listener'.phase = "connect"
                 /\ \E m \in RequestMsg : manager'.mail = <<m>>
           /\ UNCHANGED <<market, socket, client, view>> /\ NoFault
<1>1. /\ requests # <<>> /\ requests' = Tail(requests) /\ known' = TRUE
      /\ UNCHANGED <<market, socket, client, view>> /\ NoFault
    BY DEF OnMarketDataRequest
<1>2. PICK m \in RequestMsg : m = Head(requests) /\ requests' \in Seq(RequestMsg)
    BY <1>1, HeadTailProperties DEF Types
<1>3. listener \in ListenerType /\ manager \in ManagerType
    BY DEF Types
<1>4. CASE known
  <2>1. ToManager(m) /\ listener' = listener
      BY <1>2, <1>4 DEF OnMarketDataRequest
  <2> QED
      BY <1>1, <1>2, <1>3, <1>4, <2>1, ToManagerType
<1>5. CASE ~known
  <2>1. /\ manager' = [NoManager EXCEPT !.phase = "running", !.mail = <<m>>]
        /\ listener' = [listener EXCEPT !.phase = "connect"]
      BY <1>2, <1>5 DEF OnMarketDataRequest
  <2>2. <<m>> \in Seq(RefreshMsg \cup RequestMsg)
      BY Singletons
  <2>3. PICK q \in Seq(RefreshMsg \cup RequestMsg) : q = <<m>>
      BY <2>2
  <2>4. /\ manager' \in ManagerType /\ manager'.phase = "running" /\ manager'.subscribers = {}
        /\ manager'.gone = {} /\ manager'.mail = q
      BY <2>1, <2>3 DEF NoManager, ManagerType, ManagerPhases
  <2>5. /\ listener' \in ListenerType /\ listener'.phase = "connect"
        /\ listener'.seq = listener.seq /\ listener'.book = listener.book
        /\ listener'.mail = listener.mail
      BY <1>3, <2>1 DEF ListenerType, ListenerPhases
  <2> QED
      BY <1>1, <1>2, <1>5, <2>3, <2>4, <2>5
<1> QED
    BY <1>4, <1>5

\* The manager's and the executor's steps keep the types.
LEMMA ManagerTypes ==
    ASSUME Types, Manager \/ Executor PROVE Types'
<1>1. CASE OnManagerRequest
    BY <1>1, ManagerRequestShape, CountTypes DEF Types
<1>2. CASE OnIncrementalRefresh
    BY <1>2, FanOutShape, CountTypes DEF Types
<1>3. ASSUME NEW c \in Clients, OnSubscriberTerminated(c) PROVE Types'
    BY <1>3, TerminatedShape, CountTypes DEF Types
<1>4. CASE ManagerStops
  <2>1. manager' \in ManagerType
      BY <1>4 DEF ManagerStops, Types, ManagerType, ManagerPhases
  <2> QED
      BY <1>4, <2>1, CountTypes DEF Types, ManagerStops
<1>5. CASE OnMarketDataRequest
    BY <1>5, RequestShape, CountTypes DEF Types
<1>6. CASE OnManagerTerminated
    BY <1>6, SocketTypes, CountTypes DEF Types, OnManagerTerminated
<1> QED
    BY <1>1, <1>2, <1>3, <1>4, <1>5, <1>6 DEF Manager, Executor

\* A receiver takes the answer.
LEMMA OnAnswerShape ==
    ASSUME Types, NEW c \in Clients, OnAnswer(c)
    PROVE  /\ client[c].phase = "asking" /\ client[c].answer # NoAnswer
           /\ client' \in [Clients -> ClientType]
           /\ \A d \in Clients \ {c} : client'[d] = client[d]
           /\ client'[c].phase = "following" /\ client'[c].seq = client[c].answer.seq
           /\ client'[c].answer = NoAnswer /\ client'[c].mail = client[c].mail
           /\ view' = [view EXCEPT ![c] = client[c].answer.book]
           /\ client[c].answer.book \in Books
           /\ UNCHANGED <<market, socket, listener, manager, known, requests>> /\ NoFault
<1>1. /\ client[c] \in ClientType /\ client[c].answer \in AnswerType
      /\ NoAnswer \in AnswerType /\ client \in [Clients -> ClientType]
    BY DEF Types, ClientType, NoAnswer, AnswerType, Books
<1>2. PICK n \in Nat : n = client[c].answer.seq
    BY <1>1 DEF AnswerType
<1> DEFINE r == [client[c] EXCEPT !.phase = "following", !.seq = n, !.answer = NoAnswer]
<1>3. r \in ClientType
    BY <1>1 DEF ClientType, ClientPhases
<1>4. r.phase = "following" /\ r.seq = n /\ r.answer = NoAnswer /\ r.mail = client[c].mail
    BY <1>1 DEF ClientType
<1>5. client' = [client EXCEPT ![c] = r]
    BY <1>1, <1>2 DEF OnAnswer
<1> HIDE DEF r
<1>6. /\ client' \in [Clients -> ClientType] /\ client'[c] = r
      /\ \A d \in Clients \ {c} : client'[d] = client[d]
    BY <1>1, <1>3, <1>5
<1>7. client[c].answer.book \in Books
    BY <1>1 DEF AnswerType
<1> QED
    BY <1>2, <1>4, <1>6, <1>7 DEF OnAnswer

\* A receiver leaves.
LEMMA LeaveShape ==
    ASSUME Types, NEW c \in Clients, Leave(c)
    PROVE  /\ client' \in [Clients -> ClientType] /\ manager' \in ManagerType
           /\ \A d \in Clients \ {c} : client'[d] = client[d]
           /\ client'[c].phase = "closed" /\ client'[c].answer = NoAnswer
           /\ client'[c].mail = <<>>
           /\ manager'.phase = manager.phase /\ manager'.subscribers = manager.subscribers
           /\ manager'.mail = manager.mail
           /\ manager'.gone \in {manager.gone, manager.gone \cup {c}}
           /\ closes' \in 0..MaxCloses
<1>1. /\ client[c] \in ClientType /\ NoAnswer \in AnswerType /\ client \in [Clients -> ClientType]
      /\ manager \in ManagerType /\ <<>> \in Seq(RefreshMsg)
    BY EmptySeq DEF Types, NoAnswer, AnswerType, Books
<1> DEFINE r == [client[c] EXCEPT !.phase = "closed", !.mail = <<>>, !.answer = NoAnswer]
<1>2. r \in ClientType
    BY <1>1 DEF ClientType, ClientPhases
<1>3. r.phase = "closed" /\ r.answer = NoAnswer /\ r.mail = <<>>
    BY <1>1 DEF ClientType
<1>4. client' = [client EXCEPT ![c] = r]
    BY <1>1 DEF Leave
<1> HIDE DEF r
<1>5. /\ client' \in [Clients -> ClientType] /\ client'[c] = r
      /\ \A d \in Clients \ {c} : client'[d] = client[d]
    BY <1>1, <1>2, <1>4
<1>6. /\ manager' \in ManagerType
      /\ manager'.phase = manager.phase /\ manager'.subscribers = manager.subscribers
      /\ manager'.mail = manager.mail /\ manager'.gone \in {manager.gone, manager.gone \cup {c}}
    BY <1>1 DEF Leave, ManagerType
<1>7. closes' \in 0..MaxCloses
    BY MarketBounds DEF Leave, Types
<1> QED
    BY <1>3, <1>5, <1>6, <1>7

\* A receiver takes a refresh: skips it, applies it, or asks again.
LEMMA OnRefreshShape ==
    ASSUME Types, NEW c \in Clients, OnRefresh(c)
    PROVE  LET m == Head(client[c].mail) IN
           /\ client[c].phase = "following" /\ client[c].mail # <<>> /\ m \in RefreshMsg
           /\ client' \in [Clients -> ClientType] /\ requests' \in Seq(RequestMsg)
           /\ \A d \in Clients \ {c} : client'[d] = client[d]
           /\ client'[c].mail = Tail(client[c].mail)
           /\ \/ /\ client'[c].phase = "following" /\ client'[c].answer = client[c].answer
                 /\ client'[c].seq = client[c].seq /\ view' = view
              \/ /\ client'[c].phase = "following" /\ client'[c].answer = client[c].answer
                 /\ m.seq = client[c].seq + 1 /\ client'[c].seq = m.seq
                 /\ view' = [view EXCEPT ![c] = Apply(@, m.k)]
              \/ /\ client'[c].phase = "asking" /\ client'[c].answer = NoAnswer /\ view' = view
           /\ UNCHANGED <<market, socket, listener, manager, known>> /\ NoFault
<1> DEFINE m == Head(client[c].mail)
<1>1. /\ client[c].phase = "following" /\ client[c].mail # <<>>
      /\ UNCHANGED <<market, socket, listener, manager, known>> /\ NoFault
    BY DEF OnRefresh
<1>2. /\ m \in RefreshMsg /\ m.seq \in Nat /\ Handled(c) \in ClientType
      /\ Handled(c).mail = Tail(client[c].mail) /\ Handled(c).phase = client[c].phase
      /\ Handled(c).seq = client[c].seq /\ Handled(c).answer = client[c].answer
    BY <1>1, HandledType DEF Next1, RefreshMsg
<1>3. \/ /\ client' = [client EXCEPT ![c] = Handled(c)] /\ UNCHANGED <<requests, view>>
      \/ /\ m.seq = client[c].seq + 1 /\ requests' = requests
         /\ client' = [client EXCEPT ![c] = [Handled(c) EXCEPT !.seq = m.seq]]
         /\ view' = [view EXCEPT ![c] = Apply(@, m.k)]
      \/ Ask(c, Handled(c)) /\ view' = view
    BY DEF OnRefresh, Next1
<1>4. client \in [Clients -> ClientType] /\ requests \in Seq(RequestMsg)
    BY DEF Types
<1> HIDE DEF m
<1>5. CASE client' = [client EXCEPT ![c] = Handled(c)] /\ UNCHANGED <<requests, view>>
  <2>1. /\ client' \in [Clients -> ClientType] /\ client'[c] = Handled(c)
        /\ \A d \in Clients \ {c} : client'[d] = client[d]
      BY <1>2, <1>4, <1>5
  <2> QED
      BY <1>1, <1>2, <1>4, <1>5, <2>1 DEF m
<1>6. CASE /\ m.seq = client[c].seq + 1 /\ requests' = requests
           /\ client' = [client EXCEPT ![c] = [Handled(c) EXCEPT !.seq = m.seq]]
           /\ view' = [view EXCEPT ![c] = Apply(@, m.k)]
  <2> DEFINE r == [Handled(c) EXCEPT !.seq = m.seq]
  <2>1. /\ r \in ClientType /\ r.phase = client[c].phase /\ r.seq = m.seq
        /\ r.answer = client[c].answer /\ r.mail = Tail(client[c].mail)
      BY <1>2 DEF ClientType
  <2>2. client' = [client EXCEPT ![c] = r]
      BY <1>6
  <2> HIDE DEF r
  <2>3. /\ client' \in [Clients -> ClientType] /\ client'[c] = r
        /\ \A d \in Clients \ {c} : client'[d] = client[d]
      BY <1>4, <2>1, <2>2
  <2> QED
      BY <1>1, <1>2, <1>4, <1>6, <2>1, <2>3 DEF m
<1>7. CASE Ask(c, Handled(c)) /\ view' = view
    BY <1>1, <1>2, <1>7, AskType DEF m
<1> QED
    BY <1>3, <1>5, <1>6, <1>7

\* A receiver asks for the first time, or again.
LEMMA OpenShape ==
    ASSUME Types, NEW c \in Clients, Open(c) \/ OnTimeout(c)
    PROVE  /\ client[c].phase \in {"none", "asking"} /\ client[c].mail = client'[c].mail
           /\ client' \in [Clients -> ClientType] /\ requests' \in Seq(RequestMsg)
           /\ \A d \in Clients \ {c} : client'[d] = client[d]
           /\ client'[c].phase = "asking" /\ client'[c].answer = NoAnswer
           /\ UNCHANGED <<market, socket, listener, manager, known, view>>
           /\ Fault \/ NoFault
<1>1. client[c] \in ClientType
    BY DEF Types
<1>2. /\ Ask(c, client[c]) /\ client[c].phase \in {"none", "asking"}
      /\ UNCHANGED <<market, socket, listener, manager, known, view>>
      /\ Fault \/ NoFault
    BY DEF Open, OnTimeout
<1> QED
    BY <1>1, <1>2, AskType

\* The receivers' steps keep the types.
LEMMA ReceiverTypes ==
    ASSUME Types, NEW c \in Clients, Receiver(c) \/ Open(c) \/ Close(c) \/ CloseOnTimeout(c)
    PROVE  Types'
<1>0. view \in [Clients -> Books]
    BY DEF Types
<1>1. CASE OnAnswer(c)
  <2>1. view' \in [Clients -> Books]
      BY <1>0, <1>1, OnAnswerShape
  <2> QED
      BY <1>1, <2>1, OnAnswerShape, CountTypes DEF Types
<1>2. CASE OnRefresh(c)
  <2>1. view' \in [Clients -> Books]
    <3>1. \A b \in Books : \A k \in 0..MaxUpdates : Apply(b, k) \in Books
        BY ApplyType
    <3>2. Head(client[c].mail).k \in 0..MaxUpdates
        BY <1>2, OnRefreshShape DEF RefreshMsg
    <3>3. Apply(view[c], Head(client[c].mail).k) \in Books
        BY <1>0, <3>1, <3>2
    <3> QED
        BY <1>0, <1>2, <3>3, OnRefreshShape
  <2> QED
      BY <1>2, <2>1, OnRefreshShape, CountTypes DEF Types
<1>3. CASE Open(c) \/ OnTimeout(c)
    BY <1>3, OpenShape, CountTypes DEF Types
<1>4. CASE Close(c) \/ CloseOnTimeout(c)
  <2>1. /\ Leave(c) /\ faults' \in 0..MaxFaults
        /\ UNCHANGED <<market, socket, listener, known, requests, view>>
      BY <1>4, MarketBounds DEF Close, CloseOnTimeout, Types
  <2> QED
      BY <2>1, LeaveShape DEF Types
<1> QED
    BY <1>1, <1>2, <1>3, <1>4 DEF Receiver

\* Every step keeps the types.
LEMMA TypesStep ==
    ASSUME Types, [Next]_vars PROVE Types'
<1>1. CASE UNCHANGED vars
    BY <1>1 DEF vars, Types
<1> QED
    BY <1>1, StreamTypes, ListenerTypes, ManagerTypes, ReceiverTypes DEF Next

\* The types hold at first.
LEMMA TypesInit ==
    ASSUME Init PROVE Types
<1>1. /\ <<>> \in Seq(RequestMsg) /\ <<>> \in Seq(RefreshMsg)
      /\ <<>> \in Seq(DepthMsg(MaxUpdates) \cup RequestMsg)
    BY EmptySeq
<1>2. listener \in ListenerType
    BY <1>1, MarketBounds DEF Init, ListenerType, ListenerPhases, Books
<1>3. client \in [Clients -> ClientType]
    BY <1>1 DEF Init, ClientType, ClientPhases, AnswerType, NoAnswer, Books
<1>4. view \in [Clients -> Books]
    BY DEF Init, Books
<1>5. market \in 0..MaxUpdates /\ faults \in 0..MaxFaults /\ closes \in 0..MaxCloses
    BY MarketBounds DEF Init
<1>6. socket \in SocketType /\ manager \in ManagerType /\ known \in BOOLEAN
    BY SocketTypes DEF Init
<1>7. requests \in Seq(RequestMsg)
    BY <1>1 DEF Init
<1> QED
    BY <1>2, <1>3, <1>4, <1>5, <1>6, <1>7 DEF Types
----------------------------------------------------------------------------
(***************************************************************************)
(* The subscriptions.                                                      *)
(***************************************************************************)

\* A request stays accepted while its client stays served, or leaves.
LEMMA AcceptedGrows ==
    ASSUME \A c \in Clients : Served(c) => Served(c)' \/ client'[c].phase = "closed",
           \A c \in Clients : client[c].phase = "closed" => client'[c].phase = "closed",
           NEW q \in Seq(DepthMsg(MaxUpdates) \cup Accepted)
    PROVE  q \in Seq(DepthMsg(MaxUpdates) \cup Accepted')
<1>1. Accepted \subseteq Accepted'
    BY DEF Accepted, RequestMsg
<1>2. DepthMsg(MaxUpdates) \cup Accepted \subseteq DepthMsg(MaxUpdates) \cup Accepted'
    BY <1>1
<1> QED
    BY <1>2, SeqMonotonic

\* Only messages the listener may have leave its mailbox.
LEMMA AcceptedMail ==
    ASSUME Subscriptions, listener.mail # <<>>
    PROVE  /\ Tail(listener.mail) \in Seq(DepthMsg(MaxUpdates) \cup Accepted)
           /\ Head(listener.mail) \in DepthMsg(MaxUpdates) \cup Accepted
<1>1. listener.mail \in Seq(DepthMsg(MaxUpdates) \cup Accepted)
    BY DEF Subscriptions
<1> QED
    BY <1>1, HeadTailProperties

\* A step that leaves the clients and the manager's list alone keeps them.
LEMMA SubscriptionsQuiet ==
    ASSUME Subscriptions, client' = client, known' = known,
           manager'.phase = manager.phase, manager'.subscribers = manager.subscribers,
           manager'.gone = manager.gone,
           \/ listener'.phase = listener.phase /\ listener'.mail = listener.mail
           \/ /\ listener.phase # "none"
              /\ listener'.mail \in Seq(DepthMsg(MaxUpdates) \cup Accepted)
    PROVE  Subscriptions'
<1>1. listener'.mail \in Seq(DepthMsg(MaxUpdates) \cup Accepted)
    BY DEF Subscriptions
<1>2. \A c \in Clients : Served(c)' = Served(c)
    BY DEF Served
<1>3. listener'.mail \in Seq(DepthMsg(MaxUpdates) \cup Accepted')
    BY <1>1, <1>2, AcceptedGrows
<1> QED
    BY <1>2, <1>3 DEF Subscriptions

\* The steps of the exchange and of the listener.
LEMMA SubscriptionsListener ==
    ASSUME Types, Subscriptions,
           Change \/ SocketFails \/ EventLost \/ SubscribeFails \/ Listener
    PROVE  Subscriptions'
<1> DEFINE S == DepthMsg(MaxUpdates) \cup Accepted
<1>0. listener.mail \in Seq(S)
    BY DEF Subscriptions
<1>1. CASE Change \/ SocketFails \/ EventLost
    BY <1>1, SubscriptionsQuiet DEF Change, SocketFails, EventLost
<1>2. CASE Connect \/ TakeSnapshot \/ RestartListener \/ CheckSockets \/ SubscribeFails
    BY <1>0, <1>2, PhaseShape, SubscriptionsQuiet
<1>3. CASE ReadMessage
  <2>1. Head(socket.q) \in S
      BY <1>3, MarketBounds, SocketRead DEF ReadMessage, Types, SocketType
  <2> HIDE DEF S
  <2>2. Append(listener.mail, Head(socket.q)) \in Seq(S)
      BY <1>0, <2>1, AppendProperties
  <2>3. listener'.mail \in Seq(S) /\ listener.phase # "none"
      BY <1>3, <2>2, ReadShape
  <2> QED
      BY <1>3, <2>3, SubscriptionsQuiet DEF ReadMessage, S
<1>4. CASE Sync
    BY <1>0, <1>4, SyncShape, SubscriptionsQuiet DEF Sync
<1>5. CASE OnDepthData
  <2>1. listener.phase = "running" /\ listener'.mail \in Seq(S)
      BY <1>5, DepthShape, AcceptedMail
  <2>2. /\ manager'.phase = manager.phase /\ manager'.subscribers = manager.subscribers
        /\ manager'.gone = manager.gone
    <3>1. Head(listener.mail).k \in 0..MaxUpdates /\ listener.seq + 1 \in Nat
        BY <1>5, DepthShape, MarketBounds DEF Types, ListenerType
    <3>2. Refresh(listener.seq + 1, Head(listener.mail).k) \in RefreshMsg
        BY <3>1, RefreshType
    <3> QED
        BY <1>5, <3>2, DepthShape, ToManagerType
  <2> QED
      BY <1>5, <2>1, <2>2, SubscriptionsQuiet DEF OnDepthData
<1>6. CASE Heartbeat
  <2>1. Refresh(listener.seq + 1, 0) \in RefreshMsg
      BY RefreshType, MarketBounds DEF Types, ListenerType
  <2> QED
      BY <1>0, <1>6, <2>1, HeartbeatShape, ToManagerType, SubscriptionsQuiet DEF Heartbeat
<1>7. CASE OnListenerRequest
  <2> DEFINE m == Head(listener.mail)
  <2>1. /\ listener.phase = "running" /\ listener.mail # <<>> /\ m \in RequestMsg
        /\ listener'.phase = listener.phase /\ listener'.mail = Tail(listener.mail)
        /\ \A c \in Clients : client'[c].phase = client[c].phase
      BY <1>7, AnswerShape, TakenType DEF OnListenerRequest
  <2>2. manager' = manager /\ known' = known
      BY <1>7 DEF OnListenerRequest
  <2>3. \A c \in Clients : Served(c)' = Served(c)
      BY <2>2 DEF Served
  <2>4. listener'.mail \in Seq(S)
      BY <2>1, AcceptedMail
  <2>5. listener'.mail \in Seq(DepthMsg(MaxUpdates) \cup Accepted')
      BY <2>1, <2>3, <2>4, AcceptedGrows
  <2>6. m \in Accepted
      BY <2>1, AcceptedMail DEF DepthMsg, RequestMsg
  <2>7. \A c \in Clients : /\ client'[c].phase = "following" => Served(c)'
                           /\ client'[c].answer # NoAnswer =>
                                 client'[c].phase = "asking" /\ Served(c)'
    <3> SUFFICES ASSUME NEW c \in Clients
                 PROVE  /\ client'[c].phase = "following" => Served(c)'
                        /\ client'[c].answer # NoAnswer =>
                              client'[c].phase = "asking" /\ Served(c)'
        OBVIOUS
    <3>1. CASE client'[c] = client[c]
        BY <2>3, <3>1 DEF Subscriptions
    <3>2. CASE c = m.c /\ client[c].phase = "asking"
      <4>1. Served(c)
          BY <2>6, <3>2 DEF Accepted
      <4> QED
          BY <2>1, <2>3, <3>2, <4>1
    <3> QED
        BY <1>7, <3>1, <3>2, AnswerShape
  <2>8. manager.gone \subseteq Clients
      BY DEF Types, ManagerType
  <2> QED
      BY <2>1, <2>2, <2>5, <2>7, <2>8 DEF Subscriptions
<1> QED
    BY <1>1, <1>2, <1>3, <1>4, <1>5, <1>6, <1>7 DEF Listener

\* The steps of the manager and of the executor.
LEMMA SubscriptionsManager ==
    ASSUME Types, Subscriptions, Manager \/ Executor
    PROVE  Subscriptions'
<1>0. listener.mail \in Seq(DepthMsg(MaxUpdates) \cup Accepted)
    BY DEF Subscriptions
<1>1. CASE OnManagerRequest
  <2> DEFINE S == DepthMsg(MaxUpdates) \cup Accepted'
  <2>0. PICK m \in RequestMsg : m = Head(manager.mail)
      BY <1>1, ManagerRequestShape
  <2>9. PICK c \in Clients : c = m.c
      BY DEF RequestMsg
  <2>1. /\ manager.phase = "running" /\ manager'.phase = "running"
        /\ known' = known /\ client' = client
        /\ manager'.subscribers = manager.subscribers \cup {c}
        /\ manager'.gone = IF client[c].phase = "closed" THEN manager.gone \cup {c}
                           ELSE manager.gone
        /\ listener'.mail = Append(listener.mail, m)
      BY <1>1, <2>0, <2>9, ManagerRequestShape
  <2>2. known
      BY <2>1 DEF Subscriptions
  <2>3. \A d \in Clients : Served(d) => Served(d)'
      BY <2>1 DEF Served
  <2>4. Served(c)'
      BY <2>1, <2>2 DEF Served
  <2>5. listener.mail \in Seq(S)
      BY <1>0, <2>1, <2>3, AcceptedGrows
  <2>6. m \in S
      BY <2>4, <2>9 DEF Accepted
  <2>7. listener'.mail \in Seq(S)
    <3> HIDE DEF S
    <3> QED
        BY <2>1, <2>5, <2>6, AppendProperties
  <2>8. \A d \in manager'.gone : client'[d].phase = "closed"
      BY <2>1 DEF Subscriptions
  <2> QED
      BY <2>1, <2>2, <2>3, <2>7, <2>8 DEF Subscriptions
<1>2. CASE OnIncrementalRefresh
  <2>1. /\ manager'.phase = manager.phase /\ manager'.subscribers = manager.subscribers
        /\ manager'.gone = manager.gone /\ listener' = listener /\ known' = known
        /\ \A c \in Clients : client'[c].phase = client[c].phase /\ client'[c].answer = client[c].answer
      BY <1>2, FanOutShape
  <2>2. \A c \in Clients : Served(c)' = Served(c)
      BY <2>1 DEF Served
  <2>3. listener'.mail \in Seq(DepthMsg(MaxUpdates) \cup Accepted')
      BY <1>0, <2>1, <2>2, AcceptedGrows
  <2>4. manager.gone \subseteq Clients
      BY DEF Types, ManagerType
  <2> QED
      BY <2>1, <2>2, <2>3, <2>4 DEF Subscriptions
<1>3. ASSUME NEW c \in Clients, OnSubscriberTerminated(c) PROVE Subscriptions'
  <2>1. /\ client[c].phase = "closed" /\ known' = known /\ client' = client
        /\ manager.phase = "running"
      BY <1>3, TerminatedShape DEF Subscriptions
  <2>2. CASE /\ manager.subscribers \ {c} = {} /\ manager'.phase = "stopping"
             /\ manager'.gone = {} /\ listener'.phase = "none" /\ listener'.mail = <<>>
    <3>1. \A d \in Clients : Served(d) => client[d].phase = "closed"
        BY <2>1, <2>2 DEF Served
    <3>2. \A d \in Clients : client[d].phase # "following" /\ client[d].answer = NoAnswer
        BY <3>1 DEF Subscriptions
    <3>3. listener'.mail \in Seq(DepthMsg(MaxUpdates) \cup Accepted')
        BY <2>2, EmptySeq
    <3> QED
        BY <2>1, <2>2, <3>2, <3>3 DEF Subscriptions
  <2>3. CASE /\ manager'.phase = "running" /\ listener' = listener
             /\ manager'.subscribers = manager.subscribers \ {c}
             /\ manager'.gone = manager.gone \ {c}
    <3>1. \A d \in Clients : Served(d) => Served(d)' \/ client'[d].phase = "closed"
        BY <2>1, <2>3 DEF Served
    <3>2. listener'.mail \in Seq(DepthMsg(MaxUpdates) \cup Accepted')
        BY <1>0, <2>1, <2>3, <3>1, AcceptedGrows
    <3> QED
        BY <2>1, <2>3, <3>1, <3>2 DEF Subscriptions
  <2> QED
      BY <1>3, <2>2, <2>3, TerminatedShape
<1>4. CASE ManagerStops \/ OnManagerTerminated
  <2>1. /\ manager.phase \in {"stopping", "stopped"} /\ listener' = listener /\ client' = client
        /\ manager'.gone \in {manager.gone, {}}
        /\ \/ manager'.phase = "stopped" /\ known' = known
           \/ manager'.phase = "none" /\ known' = FALSE
      BY <1>4, SocketTypes DEF ManagerStops, OnManagerTerminated, Types, ManagerType
  <2>2. \A c \in Clients : client[c].phase # "following" /\ client[c].answer = NoAnswer
      BY <2>1 DEF Subscriptions, Served
  <2>3. listener'.mail = <<>> /\ listener'.phase = "none"
      BY <2>1 DEF Subscriptions
  <2>4. listener'.mail \in Seq(DepthMsg(MaxUpdates) \cup Accepted')
      BY <2>3, EmptySeq
  <2> QED
      BY <2>1, <2>2, <2>3, <2>4 DEF Subscriptions
<1>5. CASE OnMarketDataRequest
  <2>1. CASE known
      BY <1>5, <2>1, RequestShape, SubscriptionsQuiet
  <2>2. CASE ~known
    <3>1. /\ known' = TRUE /\ manager'.phase = "running" /\ manager'.gone = {} /\ client' = client
          /\ listener'.mail = listener.mail
        BY <1>5, <2>2, RequestShape
    <3>2. \A c \in Clients : ~Served(c)
        BY <2>2 DEF Served
    <3>3. listener'.mail \in Seq(DepthMsg(MaxUpdates) \cup Accepted')
        BY <1>0, <3>1, <3>2, AcceptedGrows
    <3> QED
        BY <3>1, <3>2, <3>3 DEF Subscriptions
  <2> QED
      BY <2>1, <2>2
<1> QED
    BY <1>1, <1>2, <1>3, <1>4, <1>5 DEF Manager, Executor

\* The steps of the receivers.
LEMMA SubscriptionsReceiver ==
    ASSUME Types, Subscriptions, NEW c \in Clients,
           Receiver(c) \/ Open(c) \/ Close(c) \/ CloseOnTimeout(c)
    PROVE  Subscriptions'
<1>0. listener.mail \in Seq(DepthMsg(MaxUpdates) \cup Accepted)
    BY DEF Subscriptions
<1>1. CASE OnAnswer(c) \/ OnRefresh(c) \/ Open(c) \/ OnTimeout(c)
  <2>1. /\ UNCHANGED <<listener, manager, known>>
        /\ \A d \in Clients \ {c} : client'[d] = client[d]
        /\ client[c].phase # "closed"
      BY <1>1, OnAnswerShape, OnRefreshShape, OpenShape
  <2>2. /\ client'[c].phase = "following" => Served(c)
        /\ client'[c].phase \in {"following", "asking"} /\ client'[c].answer = NoAnswer
    <3>1. CASE OnAnswer(c)
        BY <3>1, OnAnswerShape DEF Subscriptions
    <3>2. CASE OnRefresh(c)
        BY <3>2, OnRefreshShape DEF Subscriptions
    <3>3. CASE Open(c) \/ OnTimeout(c)
        BY <3>3, OpenShape
    <3> QED
        BY <1>1, <3>1, <3>2, <3>3
  <2>3. \A d \in Clients : Served(d)' = Served(d)
      BY <2>1 DEF Served
  <2>4. \A d \in Clients : client'[d].phase = "closed" <=> client[d].phase = "closed"
      BY <2>1, <2>2
  <2>5. listener'.mail \in Seq(DepthMsg(MaxUpdates) \cup Accepted')
      BY <1>0, <2>1, <2>3, <2>4, AcceptedGrows
  <2>6. \A d \in Clients : /\ client'[d].phase = "following" => Served(d)'
                           /\ client'[d].answer # NoAnswer =>
                                 client'[d].phase = "asking" /\ Served(d)'
      BY <2>1, <2>2, <2>3 DEF Subscriptions
  <2>7. manager.gone \subseteq Clients
      BY DEF Types, ManagerType
  <2> QED
      BY <2>1, <2>4, <2>5, <2>6, <2>7 DEF Subscriptions
<1>2. CASE Close(c) \/ CloseOnTimeout(c)
  <2>1. Leave(c) /\ UNCHANGED <<listener, known>>
      BY <1>2 DEF Close, CloseOnTimeout
  <2>2. /\ \A d \in Clients \ {c} : client'[d] = client[d]
        /\ client'[c].phase = "closed" /\ client'[c].answer = NoAnswer
        /\ manager'.phase = manager.phase /\ manager'.subscribers = manager.subscribers
        /\ manager'.gone \in {manager.gone, manager.gone \cup {c}}
      BY <2>1, LeaveShape
  <2>3. \A d \in Clients : Served(d)' = Served(d)
      BY <2>1, <2>2 DEF Served
  <2>4. listener'.mail \in Seq(DepthMsg(MaxUpdates) \cup Accepted')
      BY <1>0, <2>1, <2>2, <2>3, AcceptedGrows
  <2>5. \A d \in Clients : /\ client'[d].phase = "following" => Served(d)'
                           /\ client'[d].answer # NoAnswer =>
                                 client'[d].phase = "asking" /\ Served(d)'
      BY <2>2, <2>3 DEF Subscriptions
  <2>6. manager.gone \subseteq Clients
      BY DEF Types, ManagerType
  <2>7. \A d \in manager'.gone : client'[d].phase = "closed"
      BY <2>2, <2>6 DEF Subscriptions
  <2> QED
      BY <2>1, <2>2, <2>4, <2>5, <2>7 DEF Subscriptions
<1> QED
    BY <1>1, <1>2 DEF Receiver

\* Every step keeps the subscriptions accounted for.
LEMMA SubscriptionsStep ==
    ASSUME Types, Subscriptions, [Next]_vars PROVE Subscriptions'
<1>1. CASE UNCHANGED vars
  <2>1. \A c \in Clients : Served(c)' = Served(c)
      BY <1>1 DEF vars, Served
  <2>2. listener'.mail \in Seq(DepthMsg(MaxUpdates) \cup Accepted')
      BY <1>1, <2>1, AcceptedGrows DEF vars, Subscriptions
  <2> QED
      BY <1>1, <2>1, <2>2 DEF vars, Subscriptions
<1> QED
    BY <1>1, SubscriptionsListener, SubscriptionsManager, SubscriptionsReceiver DEF Next

\* They are at first: nobody has asked.
LEMMA SubscriptionsInit ==
    ASSUME Init PROVE Subscriptions
<1>1. <<>> \in Seq(DepthMsg(MaxUpdates) \cup Accepted)
    BY EmptySeq
<1> QED
    BY <1>1, SocketTypes DEF Init, Subscriptions

\* Whatever is lost and whoever leaves when: a receiver that waits for refreshes is
\* subscribed at the manager that runs and that the executor knows.
THEOREM FollowersServed == Spec => []FollowersAreServed
<1>1. Init => Types /\ Subscriptions
    BY TypesInit, SubscriptionsInit
<1>2. Types /\ Subscriptions /\ [Next]_vars => Types' /\ Subscriptions'
    BY TypesStep, SubscriptionsStep
<1>3. Subscriptions => FollowersAreServed
    BY DEF Subscriptions, Served, FollowersAreServed
<1> QED
    BY <1>1, <1>2, <1>3, PTL DEF Spec
----------------------------------------------------------------------------
(***************************************************************************)
(* The listener's book.                                                    *)
(***************************************************************************)

\* The changes there are become more.
LEMMA DepthGrows ==
    ASSUME NEW m \in Nat, NEW n \in Nat, m <= n, NEW S, NEW q \in Seq(DepthMsg(m) \cup S)
    PROVE  q \in Seq(DepthMsg(n) \cup S)
<1>1. DepthMsg(m) \cup S \subseteq DepthMsg(n) \cup S
    BY DEF DepthMsg
<1> QED
    BY <1>1, SeqMonotonic

\* One more change, at the end of the queue.
LEMMA NoneMissingAppends ==
    ASSUME NEW m \in Nat, market = m, market' = m + 1, NEW b \in 0..m,
           NEW q \in Seq(DepthMsg(m)), NoneMissing(q, b),
           NEW r, r = Append(q, Depth(m + 1))
    PROVE  NoneMissing(r, b)'
<1>1. Depth(m + 1) \in DepthMsg(m + 1)
    BY DEF Depth, DepthMsg
<1>2. PICK d \in DepthMsg(m + 1) : d = Depth(m + 1) /\ d.k = m + 1
    BY <1>1 DEF Depth
<1>3. /\ Len(r) = Len(q) + 1 /\ r[Len(q) + 1] = d
      /\ \A i \in 1..Len(q) : r[i] = q[i]
    BY <1>2
<1>4. Len(q) \in Nat /\ Len(q) >= m - b
    BY DEF NoneMissing
<1>5. ASSUME NEW i \in 1..Len(r)
      PROVE  IF i > Len(r) - (m + 1 - b) THEN r[i].k = m + 1 - Len(r) + i ELSE r[i].k <= b
  <2>1. CASE i = Len(q) + 1
      BY <1>2, <1>3, <1>4, <2>1
  <2>2. CASE i \in 1..Len(q)
      BY <1>3, <1>4, <2>2 DEF NoneMissing
  <2> QED
      BY <1>3, <1>4, <2>1, <2>2
<1>6. Len(r) >= m + 1 - b
    BY <1>3, <1>4
<1> QED
    BY <1>5, <1>6 DEF NoneMissing

\* None is missing right after the snapshot; an event the snapshot covers is left out;
\* the first one it does not cover is the next change; without events there is
\* nothing to apply.
LEMMA NoneMissingStart ==
    ASSUME NEW m \in Nat, market = m, NEW q \in Seq(DepthMsg(m))
    PROVE  NoneMissing(q, m)
<1>0. \A i \in 1..Len(q) : q[i] \in DepthMsg(m)
    OBVIOUS
<1>1. \A i \in 1..Len(q) : q[i].k <= m
    BY <1>0 DEF DepthMsg
<1> QED
    BY <1>1 DEF NoneMissing

\* If no event is missing, the first that is newer than the book is the next one.
LEMMA NoneMissingHead ==
    ASSUME NEW m \in Nat, market = m, NEW b \in 0..m, NEW q \in Seq(DepthMsg(m)),
           NoneMissing(q, b)
    PROVE  /\ q # <<>> /\ Head(q).k > b => Head(q).k = b + 1 /\ b + 1 <= m
           /\ q # <<>> /\ Head(q).k <= b => NoneMissing(Tail(q), b)
           /\ q = <<>> => b = m
<1>1. Len(q) \in Nat /\ Len(q) >= m - b
    BY DEF NoneMissing
<1>2. CASE q = <<>>
    BY <1>1, <1>2
<1>3. CASE q # <<>>
  <2>1. Len(q) >= 1 /\ q[1] = Head(q)
      BY <1>3
  <2>2. IF 1 > Len(q) - (m - b) THEN Head(q).k = m - Len(q) + 1 ELSE Head(q).k <= b
      BY <2>1 DEF NoneMissing
  <2>3. Head(q).k \in 1..m
      BY <1>3, SocketRead
  <2>4. Head(q).k > b => Head(q).k = b + 1 /\ b + 1 <= m
      BY <1>1, <2>1, <2>2, <2>3
  <2>5. ASSUME Head(q).k <= b PROVE NoneMissing(Tail(q), b)
    <3>1. PICK r \in Seq(DepthMsg(m)) : r = Tail(q)
        BY <1>3, SocketRead
    <3>2. Len(r) = Len(q) - 1 /\ \A i \in 1..Len(r) : r[i] = q[i + 1]
        BY <1>3, <3>1
    <3>3. 1 <= Len(q) - (m - b)
        BY <1>1, <2>1, <2>2, <2>3, <2>5
    <3>4. ASSUME NEW i \in 1..Len(r)
          PROVE  IF i > Len(r) - (m - b) THEN r[i].k = m - Len(r) + i ELSE r[i].k <= b
      <4>1. PICK j \in 1..Len(q) : j = i + 1
          BY <1>1, <3>2
      <4>2. IF j > Len(q) - (m - b) THEN q[j].k = m - Len(q) + j ELSE q[j].k <= b
          BY <4>1 DEF NoneMissing
      <4>3. r[i] = q[j]
          BY <3>2, <4>1
      <4> QED
          BY <1>1, <3>2, <4>1, <4>2, <4>3
    <3>5. Len(r) >= m - b
        BY <1>1, <3>2, <3>3
    <3>6. NoneMissing(r, b)
        BY <3>4, <3>5 DEF NoneMissing
    <3> QED
        BY <3>1, <3>6
  <2> QED
      BY <1>3, <2>4, <2>5
<1> QED
    BY <1>2, <1>3

\* A change applied to the book it continues.
LEMMA ApplyNext ==
    ASSUME NEW b \in Nat, NEW k \in Nat, k = b + 1
    PROVE  Apply(b, k) = k
BY DEF Apply

\* What the listener's phases and messages have in common over a step.
LEMMA BookInvKeeps ==
    ASSUME Types, Types', BookInv, market' = market,
           listener'.book \in 0..market',
           socket'.q \in Seq(DepthMsg(market)), ~socket'.up => socket'.q = <<>>,
           listener'.mail \in Seq(DepthMsg(market) \cup RequestMsg),
           listener'.phase = "sync" => /\ listener'.last = Final(listener'.book)
                                       /\ socket'.up => NoneMissing(socket'.q, listener'.book),
           listener'.phase = "running" => listener'.last = Final(listener'.book) - 1
    PROVE  BookInv'
<1>1. PICK q \in Seq(DepthMsg(market)), b \in 0..market : q = socket'.q /\ b = listener'.book
    OBVIOUS
<1>2. NoneMissing(q, b) => NoneMissing(q, b)'
    BY DEF NoneMissing
<1>3. NoneMissing(socket'.q, listener'.book) <=> NoneMissing(socket.q, listener.book)'
    BY DEF NoneMissing
<1>4. DepthMsg(market)' = DepthMsg(market)
    BY DEF DepthMsg
<1> QED
    BY <1>3, <1>4 DEF BookInv

\* A change of the exchange's book is the newest event of an open socket.
LEMMA BookInvMarket ==
    ASSUME Types, Types', BookInv, Change
    PROVE  BookInv'
<1>1. /\ market \in Nat /\ market' = market + 1 /\ market' \in Nat /\ market <= market'
      /\ listener' = listener /\ socket \in SocketType /\ listener.book \in 0..market
      /\ socket.q \in Seq(DepthMsg(market))
    BY MarketBounds DEF Types, Change, BookInv
<1>2. listener'.mail \in Seq(DepthMsg(market') \cup RequestMsg)
    BY <1>1, DepthGrows DEF BookInv
<1>3. PICK r : r = Append(socket.q, Depth(market + 1))
    OBVIOUS
<1>4. r \in Seq(DepthMsg(market'))
  <2>1. Depth(market + 1) \in DepthMsg(market')
      BY <1>1 DEF Depth, DepthMsg
  <2>2. socket.q \in Seq(DepthMsg(market'))
    <3>1. DepthMsg(market) \subseteq DepthMsg(market')
        BY <1>1 DEF DepthMsg
    <3> QED
        BY <1>1, <3>1, SeqMonotonic
  <2> QED
      BY <1>3, <2>1, <2>2, AppendProperties
<1>5. CASE socket.up
  <2>1. socket'.up = socket.up /\ socket'.q = r
      BY <1>1, <1>3, <1>5 DEF Change, SocketType
  <2>2. PICK q \in Seq(DepthMsg(market)), m \in Nat, b \in 0..market :
           q = socket.q /\ m = market /\ b = listener.book
      BY <1>1
  <2>3. NoneMissing(q, b) => NoneMissing(r, b)'
      BY <1>1, <1>3, <2>2, NoneMissingAppends
  <2>4. listener'.phase = "sync" => NoneMissing(r, b)'
      BY <1>1, <1>5, <2>2, <2>3 DEF BookInv
  <2>5. NoneMissing(r, b)' => NoneMissing(socket.q, listener.book)'
      BY <1>1, <2>1, <2>2 DEF NoneMissing
  <2> QED
      BY <1>1, <1>2, <1>4, <1>5, <2>1, <2>4, <2>5 DEF BookInv
<1>6. CASE ~socket.up
  <2>1. socket' = socket /\ socket'.q = <<>>
      BY <1>6 DEF Change, BookInv
  <2>2. socket'.q \in Seq(DepthMsg(market'))
      BY <2>1, EmptySeq
  <2> QED
      BY <1>1, <1>2, <1>6, <2>1, <2>2 DEF BookInv
<1> QED
    BY <1>5, <1>6

\* The listener synchronises: the snapshot, and the first change it does not cover,
\* are one book.
LEMMA BookInvSync ==
    ASSUME Types, Types', BookInv, Sync
    PROVE  BookInv'
<1>1. /\ market \in Nat /\ MaxUpdates \in Nat /\ listener.book \in 0..market
      /\ socket.q \in Seq(DepthMsg(market)) /\ socket \in SocketType
      /\ socket.up /\ listener.phase = "sync" /\ market' = market
      /\ listener.last = Final(listener.book)
      /\ NoneMissing(socket.q, listener.book)
      /\ listener'.mail \in Seq(DepthMsg(market) \cup RequestMsg)
    BY SyncShape, MarketBounds DEF Types, BookInv, Sync
<1>2. PICK q \in Seq(DepthMsg(market)), b \in 0..market, m \in Nat :
         q = socket.q /\ b = listener.book /\ m = market
    BY <1>1
<1>3. listener.last = 2 * b /\ NoneMissing(q, b)
    BY <1>1, <1>2, FinalType
<1>4. CASE q # <<>>
  <2>1. PICK k \in 1..market, r \in Seq(DepthMsg(market)) : k = Head(q).k /\ r = Tail(q)
      BY <1>1, <1>4, SocketRead
  <2>2. socket' \in SocketType /\ socket'.q = r /\ socket'.up = TRUE
    <3>1. socket' = [socket EXCEPT !.q = Tail(@)]
        BY <1>2, <1>4, SyncShape
    <3> QED
        BY <1>1, <1>2, <2>1, <3>1 DEF SocketType, Types
  <2>3. Final(k) = 2 * k
      BY <1>1, FinalType
  <2>4. CASE k <= b
    <3>1. listener' = listener
        BY <1>1, <1>2, <1>3, <1>4, <2>1, <2>3, <2>4, SyncShape
    <3>2. NoneMissing(r, b)
        BY <1>2, <1>3, <1>4, <2>1, <2>4, NoneMissingHead
    <3> QED
        BY <1>1, <1>2, <2>2, <3>1, <3>2, BookInvKeeps
  <2>5. CASE k > b
    <3>1. k = b + 1 /\ b \in Nat /\ k \in Nat
      <4>1. Head(q).k > b
          BY <2>1, <2>5
      <4>2. Head(q).k = b + 1
          BY <1>1, <1>3, <1>4, <4>1, NoneMissingHead
      <4> QED
          BY <1>1, <2>1, <4>2
    <3>2. /\ listener'.phase = "running" /\ listener'.book = Apply(b, k)
          /\ listener'.last = Final(k) - 1
        BY <1>1, <1>2, <1>3, <1>4, <2>1, <2>3, <2>5, SyncShape
    <3>3. listener'.book = k
      <4>1. Apply(b, k) = k
          BY <3>1, ApplyNext
      <4> QED
          BY <3>2, <4>1
    <3> QED
        BY <1>1, <1>2, <2>1, <2>2, <3>2, <3>3, BookInvKeeps
  <2> QED
      BY <1>2, <2>1, <2>4, <2>5
<1>5. CASE q = <<>>
  <2>1. b = market
      BY <1>2, <1>3, <1>5, NoneMissingHead
  <2>2. /\ socket' = socket /\ listener'.phase = "running" /\ listener'.book = b
        /\ listener'.last = Final(market) - 1
      BY <1>2, <1>5, SyncShape
  <2> QED
      BY <1>1, <1>2, <2>1, <2>2, BookInvKeeps
<1> QED
    BY <1>4, <1>5

\* A change the listener takes continues its book, or its subscription starts anew.
LEMMA BookInvDepth ==
    ASSUME Types, Types', BookInv, OnDepthData
    PROVE  BookInv'
<1>1. /\ market \in Nat /\ MaxUpdates \in Nat /\ listener.book \in 0..market
      /\ socket' = socket /\ market' = market
      /\ listener.phase = "running" /\ listener.mail # <<>>
      /\ listener'.mail = Tail(listener.mail)
    BY DepthShape, MarketBounds DEF Types, BookInv, OnDepthData
<1>2. /\ socket'.q \in Seq(DepthMsg(market)) /\ (~socket'.up => socket'.q = <<>>)
      /\ listener.mail \in Seq(DepthMsg(market) \cup RequestMsg)
      /\ listener.last = Final(listener.book) - 1
    BY <1>1 DEF BookInv
<1>3. /\ Head(listener.mail) \in DepthMsg(market) \cup RequestMsg
      /\ Tail(listener.mail) \in Seq(DepthMsg(market) \cup RequestMsg)
    BY <1>1, <1>2, HeadTailProperties
<1>4. PICK k \in 1..market, b \in 0..market : k = Head(listener.mail).k /\ b = listener.book
    BY <1>1, <1>3, DepthShape DEF DepthMsg, RequestMsg
<1>9. k \in Int /\ b \in Int /\ k \in Nat /\ b \in Nat
    BY <1>1
<1>5. Final(b) = 2 * b /\ Previous(k) = 2 * k - 2 /\ Final(k) = 2 * k
    BY <1>9, FinalType
<1>6. ASSUME listener.last + 1 = Previous(k) PROVE Apply(listener.book, k) = k
  <2>1. (2 * b - 1) + 1 = 2 * k - 2
      BY <1>2, <1>4, <1>5, <1>6
  <2>2. k = b + 1
      BY <1>9, <2>1
  <2>3. Apply(b, k) = k
      BY <1>9, <2>2, ApplyNext
  <2> QED
      BY <1>4, <2>3
<1>7. \/ /\ listener'.phase = "running" /\ listener'.last = listener.last
         /\ listener'.book = listener.book
      \/ listener'.phase = "connect" /\ listener'.book = listener.book
      \/ /\ listener'.phase = "running" /\ listener'.last = Final(k) - 1
         /\ listener'.book = k
      \/ listener'.phase = "connect" /\ listener'.book = k
    BY <1>4, <1>6, DepthShape
<1>8. /\ listener'.phase = "running" \/ listener'.phase = "connect"
      /\ listener'.book \in 0..market
      /\ listener'.phase = "running" => listener'.last = Final(listener'.book) - 1
    BY <1>1, <1>2, <1>4, <1>7
<1> QED
    BY <1>1, <1>2, <1>3, <1>8, BookInvKeeps

\* Every other step.  Only with LossySync could an event be missing while the
\* listener synchronises.
LEMMA BookInvStep ==
    ASSUME LossySync = FALSE, Types, Types', BookInv, [Next]_vars
    PROVE  BookInv'
<1>0. /\ market \in Nat /\ listener.book \in 0..market
      /\ socket.q \in Seq(DepthMsg(market)) /\ (~socket.up => socket.q = <<>>)
      /\ listener.mail \in Seq(DepthMsg(market) \cup RequestMsg)
    BY MarketBounds DEF Types, BookInv
<1>1. CASE UNCHANGED <<market, socket, listener>>
    BY <1>0, <1>1, BookInvKeeps DEF BookInv
<1>2. CASE SocketFails
  <2>1. socket' = NoSocket /\ listener' = listener /\ market' = market
      BY <1>2 DEF SocketFails
  <2>2. socket'.up = FALSE /\ socket'.q = <<>> /\ socket'.q \in Seq(DepthMsg(market))
      BY <2>1, SocketTypes, EmptySeq
  <2> QED
      BY <1>0, <2>1, <2>2, BookInvKeeps DEF BookInv
<1>3. CASE EventLost
  <2>1. listener' = listener /\ market' = market /\ listener.phase # "sync"
      BY <1>3 DEF EventLost
  <2>2. PICK i \in 1..Len(socket.q) : socket' = [socket EXCEPT !.q = RemoveAt(@, i)]
      BY <1>3 DEF EventLost
  <2>3. RemoveAt(socket.q, i) \in Seq(DepthMsg(market))
      BY <1>0, Removal
  <2>4. socket'.up = socket.up /\ socket'.q = RemoveAt(socket.q, i)
      BY <2>2 DEF Types, SocketType
  <2>5. socket.up
      BY <1>0, <2>2
  <2> QED
      BY <1>0, <2>1, <2>3, <2>4, <2>5, BookInvKeeps DEF BookInv
<1>4. CASE Connect \/ RestartListener \/ CheckSockets \/ SubscribeFails \/ TakeSnapshot
  <2>1. /\ listener'.mail = listener.mail /\ market' = market
        /\ listener'.phase # "running"
        /\ listener'.phase = "sync" => TakeSnapshot
        /\ socket' = socket \/ socket' = NoSocket \/ socket' = [up |-> TRUE, q |-> <<>>]
      BY <1>4, PhaseShape
  <2>5. <<>> \in Seq(DepthMsg(market)) /\ NoSocket.q = <<>>
      BY SocketTypes, EmptySeq
  <2>6. socket' = [up |-> TRUE, q |-> <<>>] => socket'.up = TRUE /\ socket'.q = <<>>
      OBVIOUS
  <2>2. /\ socket'.q \in Seq(DepthMsg(market)) /\ (~socket'.up => socket'.q = <<>>)
      BY <1>0, <2>1, <2>5, <2>6
  <2>3. listener'.book \in 0..market'
      BY <1>0, <1>4, <2>1, PhaseShape
  <2>4. ASSUME TakeSnapshot
        PROVE  /\ listener'.last = Final(listener'.book)
               /\ NoneMissing(socket'.q, listener'.book)
    <3>1. listener'.book = market /\ listener'.last = Final(market) /\ socket' = socket
        BY <2>4, PhaseShape DEF TakeSnapshot
    <3>2. NoneMissing(socket.q, market)
        BY <1>0, NoneMissingStart
    <3> QED
        BY <3>1, <3>2
  <2> QED
      BY <1>0, <2>1, <2>2, <2>3, <2>4, BookInvKeeps
<1>5. CASE ReadMessage
  <2>1. /\ listener.phase \in {"running", "failed"} /\ market' = market
        /\ socket'.q = Tail(socket.q) /\ socket'.up = socket.up /\ socket.q # <<>>
        /\ listener'.mail = Append(listener.mail, Head(socket.q))
        /\ listener'.phase = listener.phase
        /\ listener'.last = listener.last /\ listener'.book = listener.book
      BY <1>5, ReadShape DEF ReadMessage
  <2>2. Head(socket.q) \in DepthMsg(market) /\ Tail(socket.q) \in Seq(DepthMsg(market))
      BY <1>0, <2>1, SocketRead
  <2>3. Append(listener.mail, Head(socket.q)) \in Seq(DepthMsg(market) \cup RequestMsg)
    <3>1. PICK S : S = DepthMsg(market) \cup RequestMsg
        OBVIOUS
    <3>2. Head(socket.q) \in S /\ listener.mail \in Seq(S)
        BY <1>0, <2>2, <3>1
    <3>3. Append(listener.mail, Head(socket.q)) \in Seq(S)
        BY <3>2, AppendProperties
    <3> QED
        BY <3>1, <3>3
  <2> QED
      BY <1>0, <2>1, <2>2, <2>3, BookInvKeeps DEF BookInv
<1>6. CASE OnListenerRequest
  <2>1. /\ market' = market /\ socket' = socket /\ listener.mail # <<>>
        /\ listener'.mail = Tail(listener.mail) /\ listener'.phase = listener.phase
        /\ listener'.last = listener.last /\ listener'.book = listener.book
      BY <1>6, AnswerShape, TakenType DEF OnListenerRequest
  <2>2. Tail(listener.mail) \in Seq(DepthMsg(market) \cup RequestMsg)
      BY <1>0, <2>1, HeadTailProperties
  <2> QED
      BY <1>0, <2>1, <2>2, BookInvKeeps DEF BookInv
<1>7. CASE Heartbeat
  <2>1. /\ market' = market /\ socket' = socket /\ listener.phase = "running"
        /\ listener'.mail = listener.mail /\ listener'.phase = "running"
        /\ listener'.last = listener.last /\ listener'.book = listener.book
      BY <1>7, HeartbeatShape DEF Heartbeat
  <2> QED
      BY <1>0, <2>1, BookInvKeeps DEF BookInv
<1>8. CASE OnManagerRequest
  <2> DEFINE m == Head(manager.mail)
             S == DepthMsg(market) \cup RequestMsg
  <2>1. /\ market' = market /\ socket' = socket /\ m \in RequestMsg
        /\ listener'.mail = Append(listener.mail, m) /\ listener'.phase = listener.phase
        /\ listener'.last = listener.last /\ listener'.book = listener.book
      BY <1>8, ManagerRequestShape
  <2>2. Append(listener.mail, m) \in Seq(S)
    <3>1. m \in S /\ listener.mail \in Seq(S)
        BY <1>0, <2>1
    <3> HIDE DEF S, m
    <3> QED
        BY <3>1, AppendProperties
  <2> QED
      BY <1>0, <2>1, <2>2, BookInvKeeps DEF BookInv
<1>9. ASSUME NEW c \in Clients, OnSubscriberTerminated(c) PROVE BookInv'
  <2>1. market' = market /\ listener'.book = listener.book
      BY <1>9, TerminatedShape
  <2>2. CASE listener'.phase = "none" /\ listener'.mail = <<>> /\ socket' = NoSocket
    <3>1. /\ socket'.q = <<>> /\ socket'.q \in Seq(DepthMsg(market))
          /\ listener'.mail \in Seq(DepthMsg(market) \cup RequestMsg)
        BY <2>2, SocketTypes, EmptySeq
    <3> QED
        BY <1>0, <2>1, <2>2, <3>1, BookInvKeeps
  <2>3. CASE UNCHANGED <<listener, socket>>
      BY <1>1, <2>1, <2>3
  <2> QED
      BY <1>9, <2>2, <2>3, TerminatedShape
<1>10. CASE OnMarketDataRequest
  <2>1. market' = market /\ socket' = socket
      BY <1>10, RequestShape
  <2>2. CASE listener' = listener
      BY <1>1, <2>1, <2>2
  <2>3. CASE listener'.phase = "connect"
      BY <1>0, <1>10, <2>1, <2>3, RequestShape, BookInvKeeps
  <2> QED
      BY <1>10, <2>2, <2>3, RequestShape
<1>11. CASE OnIncrementalRefresh \/ ManagerStops \/ OnManagerTerminated
  <2>1. UNCHANGED <<market, socket, listener>>
      BY <1>11 DEF OnIncrementalRefresh, ManagerStops, OnManagerTerminated
  <2> QED
      BY <1>1, <2>1
<1>12. ASSUME NEW c \in Clients, Receiver(c) \/ Open(c) \/ Close(c) \/ CloseOnTimeout(c)
       PROVE  BookInv'
  <2>1. UNCHANGED <<market, socket, listener>>
      BY <1>12 DEF Receiver, OnAnswer, OnRefresh, OnTimeout, Open, Close, CloseOnTimeout
  <2> QED
      BY <1>1, <2>1
<1>13. CASE UNCHANGED vars
    BY <1>1, <1>13 DEF vars
<1> QED
    BY <1>2, <1>3, <1>4, <1>5, <1>6, <1>7, <1>8, <1>9, <1>10, <1>11, <1>12, <1>13,
       BookInvMarket, BookInvSync, BookInvDepth DEF Next, Listener, Manager, Executor

\* It holds at first: there is no socket.
LEMMA BookInvInit ==
    ASSUME Init PROVE BookInv
<1>1. /\ <<>> \in Seq(DepthMsg(market)) /\ <<>> \in Seq(DepthMsg(market) \cup RequestMsg)
    BY EmptySeq
<1>2. listener.book \in 0..market /\ listener.phase = "none"
    BY DEF Init
<1> QED
    BY <1>1, <1>2, SocketTypes DEF Init, BookInv

\* What the listener answers to a client is a book the exchange had: if the stream
\* is whole while the listener synchronises, which it does not check itself.
THEOREM BookSound == ASSUME LossySync = FALSE PROVE Spec => []ListenerBookSound
<1>1. Init => Types /\ BookInv
    BY TypesInit, BookInvInit
<1>2. Types /\ BookInv /\ [Next]_vars => Types' /\ BookInv'
    BY TypesStep, BookInvStep
<1>3. Types /\ BookInv => ListenerBookSound
    BY MarketBounds DEF Types, BookInv, ListenerBookSound
<1> QED
    BY <1>1, <1>2, <1>3, PTL DEF Spec
----------------------------------------------------------------------------
(***************************************************************************)
(* The feed.  A sequence number stands for a book: f is that book, of every*)
(* number so far.                                                          *)
(***************************************************************************)
History == [Nat -> 0..MaxUpdates]

\* The refreshes that lead from the book before their number to the one at it.
GoodRefresh(f, s) ==
    {m \in RefreshMsg :
        /\ m.seq \in 1..s
        /\ \/ m.k = 0 /\ f[m.seq] = f[m.seq - 1]
           \/ m.k = f[m.seq] /\ m.k = f[m.seq - 1] + 1}

\* What a client has been told, and what it is being told, belongs to the number it
\* came with; nobody has a later book than the listener.
ClientFeed(f, c) ==
    /\ client[c].mail \in Seq(GoodRefresh(f, listener.seq))
    /\ view[c] \in {NoBook} \cup 0..listener.book
    /\ client[c].phase = "following" =>
          client[c].seq \in 0..listener.seq /\ f[client[c].seq] = view[c]
    /\ client[c].answer # NoAnswer =>
          /\ client[c].answer.seq \in 0..listener.seq
          /\ f[client[c].answer.seq] = client[c].answer.book
          /\ view[c] <= client[c].answer.book

FeedOf(f) ==
    /\ \A s \in 0..listener.seq : f[s] <= listener.book
    /\ listener.phase = "running" => f[listener.seq] = listener.book
    /\ manager.mail \in Seq(GoodRefresh(f, listener.seq) \cup RequestMsg)
    /\ \A c \in Clients : ClientFeed(f, c)

FeedInv == \E f \in History : FeedOf(f)

\* A history goes on: nothing said before changes.
Continues(g, f, s, b) == g = [f EXCEPT ![s + 1] = b]

\* A history that goes on keeps what it has, and so do the refreshes that are true of it.
LEMMA HistoryGoesOn ==
    ASSUME NEW f \in History, NEW s \in Nat, NEW b \in 0..MaxUpdates,
           NEW g, Continues(g, f, s, b)
    PROVE  /\ g \in History /\ g[s + 1] = b /\ \A i \in 0..s : g[i] = f[i]
           /\ GoodRefresh(f, s) \subseteq GoodRefresh(g, s + 1)
<1>1. g \in History /\ g[s + 1] = b /\ \A i \in 0..s : g[i] = f[i]
    BY DEF History, Continues
<1>2. ASSUME NEW m \in GoodRefresh(f, s) PROVE m \in GoodRefresh(g, s + 1)
  <2>1. m \in RefreshMsg /\ m.seq \in 1..s
      BY DEF GoodRefresh
  <2>2. PICK n \in 1..s : n = m.seq
      BY <2>1
  <2>3. n \in 1..(s + 1) /\ g[n] = f[n] /\ g[n - 1] = f[n - 1]
      BY <1>1, <2>2
  <2> QED
      BY <2>1, <2>2, <2>3 DEF GoodRefresh
<1> QED
    BY <1>1, <1>2

\* A client that does nothing agrees with the same history while the listener goes on.
LEMMA ClientFeedKeeps ==
    ASSUME Types, NEW f, NEW c \in Clients, ClientFeed(f, c),
           client'[c] = client[c], view'[c] = view[c],
           listener'.seq = listener.seq,
           listener.book \in Int, listener'.book \in Int, listener'.book >= listener.book
    PROVE  ClientFeed(f, c)'
<1>1. view'[c] \in {NoBook} \cup 0..listener'.book
    BY DEF ClientFeed
<1>2. GoodRefresh(f, listener.seq)' = GoodRefresh(f, listener.seq)
    BY DEF GoodRefresh
<1> QED
    BY <1>1, <1>2 DEF ClientFeed

\* A step that counts no number.
LEMMA FeedKeeps ==
    ASSUME Types, NEW f, FeedOf(f), listener'.seq = listener.seq,
           listener.book \in Int, listener'.book \in Int, listener'.book >= listener.book,
           listener'.phase = "running" =>
               listener.phase = "running" /\ listener'.book = listener.book,
           manager'.mail \in Seq(GoodRefresh(f, listener.seq) \cup RequestMsg),
           \A c \in Clients : ClientFeed(f, c)' \/ (client'[c] = client[c] /\ view'[c] = view[c]),
           f \in History
    PROVE  FeedOf(f)'
<1>1. \A c \in Clients : ClientFeed(f, c)'
    BY ClientFeedKeeps DEF FeedOf
<1>2. \A s \in 0..listener'.seq : f[s] <= listener'.book
  <2>1. SUFFICES ASSUME NEW s \in 0..listener.seq PROVE f[s] <= listener'.book
      OBVIOUS
  <2>2. f[s] <= listener.book /\ f[s] \in Int
    <3>1. s \in Nat
        BY DEF Types, ListenerType
    <3> QED
        BY <3>1, MarketBounds DEF FeedOf, History
  <2> QED
      BY <2>2
<1>3. (GoodRefresh(f, listener.seq) \cup RequestMsg)' = GoodRefresh(f, listener.seq) \cup RequestMsg
    BY DEF GoodRefresh
<1>4. listener'.phase = "running" => f[listener'.seq] = listener'.book
    BY DEF FeedOf
<1> QED
    BY <1>1, <1>2, <1>3, <1>4 DEF FeedOf

\* A step that counts a number: it stands for the book the listener now has.
LEMMA FeedGoesOn ==
    ASSUME Types, NEW f \in History, FeedOf(f), client' = client, view' = view,
           listener'.phase = "running", listener'.seq = listener.seq + 1,
           listener.book \in Nat, listener'.book \in 0..MaxUpdates,
           listener'.book >= listener.book,
           NEW g, Continues(g, f, listener.seq, listener'.book),
           manager'.mail \in Seq(GoodRefresh(g, listener.seq + 1) \cup RequestMsg)
    PROVE  FeedInv'
<1>1. PICK s \in Nat : s = listener.seq
    BY DEF Types, ListenerType
<1>2. PICK b \in 0..MaxUpdates : b = listener'.book
    OBVIOUS
<1>3. /\ g \in History /\ g[s + 1] = b /\ \A i \in 0..s : g[i] = f[i]
      /\ GoodRefresh(f, s) \subseteq GoodRefresh(g, s + 1)
  <2>1. Continues(g, f, s, b)
      BY <1>1, <1>2
  <2> QED
      BY <2>1, HistoryGoesOn
<1>4. GoodRefresh(f, s) \subseteq GoodRefresh(g, s + 1)
    BY <1>3
<1>5. \A i \in 0..(s + 1) : g[i] <= b
  <2>1. SUFFICES ASSUME NEW i \in 0..(s + 1) PROVE g[i] <= b
      OBVIOUS
  <2>2. CASE i = s + 1
      BY <1>2, <1>3, <2>2, MarketBounds
  <2>3. CASE i \in 0..s
    <3>1. g[i] = f[i] /\ f[i] <= listener.book
        BY <1>1, <1>3, <2>3 DEF FeedOf
    <3>2. i \in Nat /\ b \in Int
        BY <1>2, MarketBounds
    <3>3. f[i] \in Int
        BY <3>2, MarketBounds DEF History
    <3> QED
        BY <1>2, <3>1, <3>2, <3>3
  <2> QED
      BY <1>1, <2>2, <2>3
<1>6. ASSUME NEW c \in Clients PROVE ClientFeed(g, c)'
  <2>1. ClientFeed(f, c)
      BY DEF FeedOf
  <2>2. client[c].mail \in Seq(GoodRefresh(g, s + 1))
      BY <1>1, <1>4, <2>1, SeqMonotonic DEF ClientFeed
  <2>3. view[c] \in {NoBook} \cup 0..listener'.book
      BY <1>2, <2>1, MarketBounds DEF ClientFeed
  <2>4. client[c].phase = "following" =>
          client[c].seq \in 0..(s + 1) /\ g[client[c].seq] = view[c]
      BY <1>1, <1>3, <2>1 DEF ClientFeed
  <2>5. client[c].answer # NoAnswer =>
          /\ client[c].answer.seq \in 0..(s + 1)
          /\ g[client[c].answer.seq] = client[c].answer.book
          /\ view[c] <= client[c].answer.book
      BY <1>1, <1>3, <2>1 DEF ClientFeed
  <2>6. GoodRefresh(g, listener.seq)' = GoodRefresh(g, s + 1)
      BY <1>1 DEF GoodRefresh
  <2> QED
      BY <1>1, <2>2, <2>3, <2>4, <2>5, <2>6 DEF ClientFeed
<1>7. (GoodRefresh(g, listener.seq) \cup RequestMsg)' = GoodRefresh(g, s + 1) \cup RequestMsg
    BY <1>1 DEF GoodRefresh
<1>8. FeedOf(g)'
    BY <1>1, <1>2, <1>3, <1>5, <1>6, <1>7 DEF FeedOf
<1> QED
    BY <1>3, <1>8 DEF FeedInv

\* The listener sends the refresh of a new number, or loses it with the manager.
LEMMA FeedSends ==
    ASSUME Types, NEW f \in History, FeedOf(f), client' = client, view' = view,
           listener.phase = "running",
           listener'.phase = "running", listener'.seq = listener.seq + 1,
           listener.book \in Nat, listener'.book \in 0..MaxUpdates, NEW k \in 0..MaxUpdates,
           \/ k = 0 /\ listener'.book = listener.book
           \/ k = listener.book + 1 /\ listener'.book = k,
           ToManager(Refresh(listener.seq + 1, k))
    PROVE  FeedInv'
<1>1. PICK s \in Nat : s = listener.seq
    BY DEF Types, ListenerType
<1>2. PICK b \in 0..MaxUpdates : b = listener'.book
    OBVIOUS
<1>3. PICK g : Continues(g, f, s, b)
    BY DEF Continues
<1>4. /\ g \in History /\ g[s + 1] = b /\ \A i \in 0..s : g[i] = f[i]
      /\ GoodRefresh(f, s) \subseteq GoodRefresh(g, s + 1)
    BY <1>3, HistoryGoesOn
<1>5. f[s] = listener.book /\ g[s] = listener.book
    BY <1>1, <1>4 DEF FeedOf
<1>6. PICK m \in RefreshMsg : m = Refresh(s + 1, k) /\ m.seq = s + 1 /\ m.k = k
  <2>1. s + 1 \in Nat
      OBVIOUS
  <2>2. Refresh(s + 1, k) \in RefreshMsg /\ Refresh(s + 1, k).seq = s + 1
        /\ Refresh(s + 1, k).k = k
      BY <2>1, RefreshType
  <2> QED
      BY <2>2
<1>7. m \in GoodRefresh(g, s + 1)
  <2>1. m.seq \in 1..(s + 1) /\ m.seq - 1 = s
      BY <1>6
  <2>2. \/ m.k = 0 /\ g[m.seq] = g[m.seq - 1]
        \/ m.k = g[m.seq] /\ m.k = g[m.seq - 1] + 1
      BY <1>2, <1>4, <1>5, <1>6, <2>1
  <2> QED
      BY <2>1, <2>2 DEF GoodRefresh
<1>8. manager'.mail \in Seq(GoodRefresh(g, s + 1) \cup RequestMsg)
  <2>1. manager'.mail \in {manager.mail, Append(manager.mail, m)}
      BY <1>1, <1>6, ToManagerType
  <2>2. PICK S : S = GoodRefresh(g, s + 1) \cup RequestMsg
      OBVIOUS
  <2>3. manager.mail \in Seq(S) /\ m \in S
    <3>1. GoodRefresh(f, s) \cup RequestMsg \subseteq S
        BY <1>4, <2>2
    <3> QED
        BY <1>1, <1>7, <2>2, <3>1, SeqMonotonic DEF FeedOf
  <2>4. Append(manager.mail, m) \in Seq(S)
      BY <2>3, AppendProperties
  <2> QED
      BY <2>1, <2>2, <2>3, <2>4
<1>9. listener'.book >= listener.book
    BY MarketBounds
<1> QED
    BY <1>1, <1>2, <1>3, <1>8, <1>9, FeedGoesOn

\* The listener's book as BookInv has it.
LEMMA BookRange ==
    ASSUME Types, BookInv
    PROVE  /\ listener.book \in Nat /\ listener.book \in 0..MaxUpdates
           /\ listener.book <= market /\ market \in 0..MaxUpdates /\ market \in Nat
           /\ listener.seq \in Nat
BY MarketBounds DEF Types, BookInv, ListenerType

\* What leaves the manager's mailbox, and a client's.
LEMMA FeedMail ==
    ASSUME NEW f, FeedOf(f)
    PROVE  /\ manager.mail # <<>> =>
                 /\ Tail(manager.mail) \in Seq(GoodRefresh(f, listener.seq) \cup RequestMsg)
                 /\ Head(manager.mail) \in GoodRefresh(f, listener.seq) \cup RequestMsg
           /\ \A c \in Clients : client[c].mail # <<>> =>
                 /\ Tail(client[c].mail) \in Seq(GoodRefresh(f, listener.seq))
                 /\ Head(client[c].mail) \in GoodRefresh(f, listener.seq)
<1>1. manager.mail \in Seq(GoodRefresh(f, listener.seq) \cup RequestMsg)
    BY DEF FeedOf
<1>2. \A c \in Clients : client[c].mail \in Seq(GoodRefresh(f, listener.seq))
    BY DEF FeedOf, ClientFeed
<1> QED
    BY <1>1, <1>2, HeadTailProperties

\* The steps of the exchange and of the listener.
LEMMA FeedListener ==
    ASSUME Types, Types', BookInv, BookInv', NEW f \in History, FeedOf(f),
           Change \/ SocketFails \/ EventLost \/ SubscribeFails \/ Listener
    PROVE  FeedInv'
<1>0. /\ listener.book \in Nat /\ listener.book \in 0..MaxUpdates /\ listener.book \in Int
      /\ listener.book <= market /\ market \in 0..MaxUpdates /\ market \in Nat
      /\ listener.seq \in Nat
      /\ listener'.book \in 0..MaxUpdates /\ listener'.book \in Int
      /\ manager.mail \in Seq(GoodRefresh(f, listener.seq) \cup RequestMsg)
  <2>1. listener'.book \in 0..MaxUpdates
    <3>1. listener'.book \in 0..market' /\ market' \in 0..MaxUpdates
        BY DEF BookInv, Types
    <3> QED
        BY <3>1, MarketBounds
  <2> QED
      BY <2>1, BookRange, MarketBounds DEF FeedOf
<1>1. ASSUME FeedOf(f)' PROVE FeedInv'
    BY <1>1 DEF FeedInv
<1>2. CASE Change \/ SocketFails \/ EventLost
  <2>1. UNCHANGED <<listener, manager, client, view>>
      BY <1>2 DEF Change, SocketFails, EventLost
  <2> QED
      BY <1>0, <1>1, <2>1, FeedKeeps
<1>3. CASE Connect \/ TakeSnapshot \/ RestartListener \/ CheckSockets \/ SubscribeFails
  <2>1. /\ listener'.seq = listener.seq /\ listener'.phase # "running"
        /\ UNCHANGED <<manager, client, view>>
      BY <1>3, PhaseShape
  <2>2. listener'.book >= listener.book
      BY <1>0, <1>3, PhaseShape
  <2> QED
      BY <1>0, <1>1, <2>1, <2>2, FeedKeeps
<1>4. CASE ReadMessage
  <2>1. /\ listener'.phase = listener.phase /\ listener'.seq = listener.seq
        /\ listener'.book = listener.book /\ UNCHANGED <<manager, client, view>>
      BY <1>4, ReadShape DEF ReadMessage
  <2> QED
      BY <1>0, <1>1, <2>1, FeedKeeps
<1>5. CASE Sync
  <2>1. UNCHANGED <<manager, client, view>>
      BY <1>5 DEF Sync
  <2>2. CASE listener' = listener
      BY <1>0, <1>1, <2>1, <2>2, FeedKeeps
  <2>3. CASE listener' # listener
    <3>1. listener'.phase = "running" /\ listener'.seq = listener.seq + 1
        BY <1>5, <2>3, SyncShape
    <3>2. listener'.book >= listener.book
      <4>1. CASE socket.q = <<>>
          BY <1>0, <1>5, <4>1, SyncShape
      <4>2. CASE socket.q # <<>>
        <5>1. listener'.book = Apply(listener.book, Head(socket.q).k)
            BY <1>5, <2>3, <4>2, SyncShape
        <5>2. PICK k \in 1..MaxUpdates : k = Head(socket.q).k
            BY <4>2, SocketRead, MarketBounds DEF Types, SocketType
        <5> QED
            BY <1>0, <5>1, <5>2, MarketBounds DEF Apply, Corrupt
      <4> QED
          BY <4>1, <4>2
    <3>3. PICK g : Continues(g, f, listener.seq, listener'.book)
        BY DEF Continues
    <3>4. /\ g \in History
          /\ GoodRefresh(f, listener.seq) \subseteq GoodRefresh(g, listener.seq + 1)
      <4>1. PICK s \in Nat, b \in 0..MaxUpdates : s = listener.seq /\ b = listener'.book
          BY <1>0
      <4>2. Continues(g, f, s, b)
          BY <3>3, <4>1
      <4>3. /\ g \in History /\ g[s + 1] = b /\ \A i \in 0..s : g[i] = f[i]
            /\ GoodRefresh(f, s) \subseteq GoodRefresh(g, s + 1)
          BY <4>2, HistoryGoesOn
      <4> QED
          BY <4>1, <4>3
    <3>5. manager'.mail \in Seq(GoodRefresh(g, listener.seq + 1) \cup RequestMsg)
      <4>1. GoodRefresh(f, listener.seq) \cup RequestMsg
              \subseteq GoodRefresh(g, listener.seq + 1) \cup RequestMsg
          BY <3>4
      <4> QED
          BY <1>0, <2>1, <4>1, SeqMonotonic
    <3> QED
        BY <1>0, <2>1, <3>1, <3>2, <3>3, <3>5, FeedGoesOn
  <2> QED
      BY <2>2, <2>3
<1>6. CASE Heartbeat
  <2>1. /\ listener.phase = "running" /\ listener'.phase = "running"
        /\ listener'.seq = listener.seq + 1 /\ listener'.book = listener.book
        /\ ToManager(Refresh(listener.seq + 1, 0)) /\ UNCHANGED <<client, view>>
        /\ 0 \in 0..MaxUpdates
      BY <1>6, HeartbeatShape, MarketBounds DEF Heartbeat
  <2> QED
      BY <1>0, <2>1, FeedSends
<1>7. CASE OnDepthData
  <2>1. UNCHANGED <<client, view>> /\ listener.phase = "running"
      BY <1>7, DepthShape DEF OnDepthData
  <2>2. PICK k \in 1..MaxUpdates : k = Head(listener.mail).k
      BY <1>7, DepthShape
  <2>3. listener.last + 1 = Previous(k) => k = listener.book + 1 /\ Apply(listener.book, k) = k
    <3>1. SUFFICES ASSUME listener.last + 1 = Previous(k)
                   PROVE  k = listener.book + 1 /\ Apply(listener.book, k) = k
        OBVIOUS
    <3>2. PICK b \in Nat, n \in Nat : b = listener.book /\ n = k
        BY <1>0, MarketBounds
    <3>3. listener.last = Final(b) - 1 /\ Final(b) = 2 * b /\ Previous(n) = 2 * n - 2
      <4>1. b \in Int /\ n \in Int
          OBVIOUS
      <4>2. Final(b) = 2 * b /\ Previous(n) = 2 * n - 2
          BY <4>1, FinalType
      <4> QED
          BY <2>1, <3>2, <4>2 DEF BookInv
    <3>4. (2 * b - 1) + 1 = 2 * n - 2
        BY <3>1, <3>2, <3>3
    <3>5. n = b + 1
        BY <3>2, <3>4
    <3>6. Apply(b, n) = n
        BY <3>5, ApplyNext
    <3> QED
        BY <3>2, <3>5, <3>6
  <2>4. CASE manager' = manager
    <3>1. /\ listener'.seq = listener.seq
          /\ \/ listener'.phase = "running" /\ listener'.book = listener.book
             \/ listener'.phase = "connect" /\ listener'.book = listener.book
             \/ /\ listener'.phase = "connect" /\ listener.last + 1 = Previous(k)
                /\ listener'.book = Apply(listener.book, k)
          \/ /\ listener'.phase = "running" /\ listener.last + 1 = Previous(k)
             /\ listener'.seq = listener.seq + 1
             /\ listener'.book = Apply(listener.book, k)
             /\ ToManager(Refresh(listener.seq + 1, k))
        BY <1>7, <2>2, DepthShape
    <3>2. CASE /\ listener'.phase = "running" /\ listener.last + 1 = Previous(k)
               /\ listener'.seq = listener.seq + 1
               /\ listener'.book = Apply(listener.book, k)
               /\ ToManager(Refresh(listener.seq + 1, k))
        BY <1>0, <2>1, <2>3, <3>2, FeedSends, MarketBounds
    <3>3. CASE /\ listener'.seq = listener.seq
               /\ \/ listener'.phase = "running" /\ listener'.book = listener.book
                  \/ listener'.phase = "connect" /\ listener'.book = listener.book
                  \/ /\ listener'.phase = "connect" /\ listener.last + 1 = Previous(k)
                     /\ listener'.book = Apply(listener.book, k)
      <4>1. /\ listener'.book >= listener.book
            /\ listener'.phase = "running" => listener'.book = listener.book
          BY <1>0, <2>3, <3>3
      <4> QED
          BY <1>0, <1>1, <2>1, <2>4, <3>3, <4>1, FeedKeeps
    <3> QED
        BY <3>1, <3>2, <3>3
  <2>5. CASE manager' # manager
    <3>1. /\ listener'.phase = "running" /\ listener.last + 1 = Previous(k)
          /\ listener'.seq = listener.seq + 1
          /\ listener'.book = Apply(listener.book, k)
          /\ ToManager(Refresh(listener.seq + 1, k))
        BY <1>7, <2>2, <2>5, DepthShape
    <3>2. k \in 0..MaxUpdates /\ k = listener.book + 1 /\ listener'.book = k
        BY <2>3, <3>1, MarketBounds
    <3> QED
        BY <1>0, <2>1, <3>1, <3>2, FeedSends
  <2> QED
      BY <2>4, <2>5
<1>8. CASE OnListenerRequest
  <2>1. /\ listener.phase = "running" /\ UNCHANGED <<manager, view>>
        /\ listener'.seq = listener.seq /\ listener'.phase = "running"
        /\ listener'.book = listener.book
      BY <1>8, AnswerShape, TakenType DEF OnListenerRequest
  <2>2. ASSUME NEW c \in Clients
        PROVE  ClientFeed(f, c)' \/ (client'[c] = client[c] /\ view'[c] = view[c])
    <3>1. ASSUME client[c].phase = "asking",
                 client'[c].phase = client[c].phase,
                 client'[c].seq = client[c].seq, client'[c].mail = client[c].mail,
                 client'[c].answer = [seq |-> listener.seq, book |-> listener.book]
          PROVE  ClientFeed(f, c)'
      <4>1. PICK a : /\ a = [seq |-> listener.seq, book |-> listener.book]
                     /\ a.seq = listener.seq /\ a.book = listener.book
        <5>1. /\ [seq |-> listener.seq, book |-> listener.book].seq = listener.seq
              /\ [seq |-> listener.seq, book |-> listener.book].book = listener.book
            OBVIOUS
        <5> QED
            BY <5>1
      <4>2. f[listener.seq] = listener.book
          BY <2>1 DEF FeedOf
      <4>3. ClientFeed(f, c)
          BY DEF FeedOf
      <4>4. view[c] <= listener.book
          BY <1>0, <4>3 DEF ClientFeed, NoBook
      <4>5. GoodRefresh(f, listener.seq)' = GoodRefresh(f, listener.seq)
          BY <2>1 DEF GoodRefresh
      <4>6. a.seq \in 0..listener.seq
          BY <1>0, <4>1
      <4> QED
          BY <2>1, <3>1, <4>1, <4>2, <4>3, <4>4, <4>5, <4>6 DEF ClientFeed
    <3> QED
        BY <1>8, <2>1, <3>1, AnswerShape
  <2> QED
      BY <1>0, <1>1, <2>1, <2>2, FeedKeeps
<1> QED
    BY <1>2, <1>3, <1>4, <1>5, <1>6, <1>7, <1>8 DEF Listener

\* The steps of the manager and of the executor.
LEMMA FeedManager ==
    ASSUME Types, BookInv, NEW f \in History, FeedOf(f), Manager \/ Executor
    PROVE  FeedInv'
<1>0. /\ listener.book \in Int /\ listener.seq \in Nat
      /\ manager.mail \in Seq(GoodRefresh(f, listener.seq) \cup RequestMsg)
    BY BookRange DEF FeedOf
<1>1. ASSUME FeedOf(f)' PROVE FeedInv'
    BY <1>1 DEF FeedInv
<1>2. CASE OnManagerRequest
  <2>1. /\ listener'.phase = listener.phase /\ listener'.seq = listener.seq
        /\ listener'.book = listener.book /\ UNCHANGED <<client, view>>
        /\ manager.mail # <<>> /\ manager'.mail = Tail(manager.mail)
      BY <1>2, ManagerRequestShape
  <2>2. manager'.mail \in Seq(GoodRefresh(f, listener.seq) \cup RequestMsg)
      BY <2>1, FeedMail
  <2> QED
      BY <1>0, <1>1, <2>1, <2>2, FeedKeeps
<1>3. CASE OnIncrementalRefresh
  <2>0. PICK m \in RefreshMsg : m = Head(manager.mail)
      BY <1>3, FanOutShape
  <2>1. /\ UNCHANGED <<listener, view>>
        /\ manager.mail # <<>> /\ manager'.mail = Tail(manager.mail)
        /\ \A c \in Clients :
              /\ client'[c].phase = client[c].phase /\ client'[c].seq = client[c].seq
              /\ client'[c].answer = client[c].answer
              /\ client'[c].mail \in {client[c].mail, Append(client[c].mail, m)}
      BY <1>3, <2>0, FanOutShape
  <2>2. /\ manager'.mail \in Seq(GoodRefresh(f, listener.seq) \cup RequestMsg)
        /\ m \in GoodRefresh(f, listener.seq) \cup RequestMsg
      BY <2>0, <2>1, FeedMail
  <2>3. m \in GoodRefresh(f, listener.seq)
      BY <2>2 DEF RefreshMsg, RequestMsg
  <2>4. ASSUME NEW c \in Clients PROVE ClientFeed(f, c)'
    <3>1. ClientFeed(f, c)
        BY DEF FeedOf
    <3>2. Append(client[c].mail, m) \in Seq(GoodRefresh(f, listener.seq))
        BY <2>3, <3>1, AppendProperties DEF ClientFeed
    <3>3. client'[c].mail \in Seq(GoodRefresh(f, listener.seq))
        BY <2>1, <3>1, <3>2 DEF ClientFeed
    <3>4. GoodRefresh(f, listener.seq)' = GoodRefresh(f, listener.seq)
        BY <2>1 DEF GoodRefresh
    <3> QED
        BY <2>1, <3>1, <3>3, <3>4 DEF ClientFeed
  <2> QED
      BY <1>0, <1>1, <2>1, <2>2, <2>4, FeedKeeps
<1>4. ASSUME NEW c \in Clients, OnSubscriberTerminated(c) PROVE FeedInv'
  <2>1. /\ listener'.seq = listener.seq /\ listener'.book = listener.book
        /\ UNCHANGED <<client, view>>
        /\ \/ manager'.mail = <<>> /\ listener'.phase = "none"
           \/ manager'.mail = manager.mail /\ listener' = listener
      BY <1>4, TerminatedShape
  <2>2. manager'.mail \in Seq(GoodRefresh(f, listener.seq) \cup RequestMsg)
      BY <1>0, <2>1, EmptySeq
  <2> QED
      BY <1>0, <1>1, <2>1, <2>2, FeedKeeps
<1>5. CASE ManagerStops \/ OnManagerTerminated
  <2>1. UNCHANGED <<listener, client, view>> /\ manager'.mail \in {manager.mail, <<>>}
      BY <1>5, SocketTypes DEF ManagerStops, OnManagerTerminated, Types, ManagerType
  <2>2. manager'.mail \in Seq(GoodRefresh(f, listener.seq) \cup RequestMsg)
      BY <1>0, <2>1, EmptySeq
  <2> QED
      BY <1>0, <1>1, <2>1, <2>2, FeedKeeps
<1>6. CASE OnMarketDataRequest
  <2>1. /\ listener'.seq = listener.seq /\ listener'.book = listener.book
        /\ UNCHANGED <<client, view>>
        /\ listener' = listener \/ listener'.phase = "connect"
      BY <1>6, RequestShape
  <2>2. PICK m \in RequestMsg : manager'.mail \in {manager.mail, Append(manager.mail, m), <<m>>}
      BY <1>6, RequestShape
  <2>3. manager'.mail \in Seq(GoodRefresh(f, listener.seq) \cup RequestMsg)
    <3>1. PICK S : S = GoodRefresh(f, listener.seq) \cup RequestMsg
        OBVIOUS
    <3>2. m \in S /\ manager.mail \in Seq(S)
        BY <1>0, <3>1
    <3>3. Append(manager.mail, m) \in Seq(S) /\ <<m>> \in Seq(S)
        BY <3>2, AppendProperties, Singletons
    <3> QED
        BY <2>2, <3>1, <3>2, <3>3
  <2> QED
      BY <1>0, <1>1, <2>1, <2>3, FeedKeeps
<1> QED
    BY <1>2, <1>3, <1>4, <1>5, <1>6 DEF Manager, Executor

\* What a client gets next: the listener's book as it was when it answered, or the
\* next change.
LEMMA FeedView ==
    ASSUME Types, BookInv, NEW f \in History, FeedOf(f), NEW c \in Clients
    PROVE  /\ client[c].answer # NoAnswer =>
                 /\ client[c].answer.book \in 0..listener.book
                 /\ view[c] <= client[c].answer.book
           /\ client[c].phase = "following" /\ client[c].mail # <<>>
                 /\ Head(client[c].mail).seq = client[c].seq + 1 =>
                 LET m == Head(client[c].mail) IN
                 /\ m.seq \in 0..listener.seq
                 /\ Apply(view[c], m.k) = f[m.seq] /\ f[m.seq] \in 0..listener.book
                 /\ view[c] \in Nat
                 /\ f[m.seq] = view[c] \/ f[m.seq] = view[c] + 1
<1>0. ClientFeed(f, c) /\ listener.seq \in Nat /\ listener.book \in Nat
    BY BookRange DEF FeedOf
<1>1. \A s \in 0..listener.seq : f[s] \in 0..listener.book
  <2>1. SUFFICES ASSUME NEW s \in 0..listener.seq PROVE f[s] \in 0..listener.book
      OBVIOUS
  <2>2. s \in Nat /\ f[s] <= listener.book
      BY <1>0 DEF FeedOf
  <2>3. f[s] \in 0..MaxUpdates
      BY <2>2 DEF History
  <2> QED
      BY <1>0, <2>2, <2>3, MarketBounds
<1>2. client[c].answer # NoAnswer =>
         client[c].answer.book \in 0..listener.book /\ view[c] <= client[c].answer.book
    BY <1>0, <1>1 DEF ClientFeed
<1>3. ASSUME client[c].phase = "following", client[c].mail # <<>>,
             Head(client[c].mail).seq = client[c].seq + 1
      PROVE  LET m == Head(client[c].mail) IN
             /\ m.seq \in 0..listener.seq
             /\ Apply(view[c], m.k) = f[m.seq] /\ f[m.seq] \in 0..listener.book
             /\ view[c] \in Nat
             /\ f[m.seq] = view[c] \/ f[m.seq] = view[c] + 1
  <2>1. PICK m \in GoodRefresh(f, listener.seq) : m = Head(client[c].mail)
      BY <1>3, FeedMail
  <2>2. PICK s \in 0..listener.seq : s = client[c].seq /\ f[s] = view[c]
      BY <1>0, <1>3 DEF ClientFeed
  <2>3. m.seq = s + 1 /\ m.seq \in 1..listener.seq /\ m.k \in 0..MaxUpdates
      BY <1>3, <2>1, <2>2 DEF GoodRefresh, RefreshMsg
  <2>4. PICK n \in 1..listener.seq : n = m.seq /\ n - 1 = s
      BY <1>0, <2>2, <2>3
  <2>5. \/ m.k = 0 /\ f[n] = view[c]
        \/ m.k = f[n] /\ m.k = view[c] + 1
      BY <2>1, <2>2, <2>4 DEF GoodRefresh
  <2>6. view[c] \in Nat /\ f[n] \in 0..listener.book /\ n \in 0..listener.seq
      BY <1>0, <1>1, <2>2, <2>4
  <2>7. Apply(view[c], m.k) = f[n] /\ (f[n] = view[c] \/ f[n] = view[c] + 1)
      BY <2>3, <2>5, <2>6 DEF Apply
  <2> QED
      BY <2>1, <2>4, <2>6, <2>7
<1> QED
    BY <1>2, <1>3

\* The steps of the receivers.
LEMMA FeedReceiver ==
    ASSUME Types, BookInv, Subscriptions, NEW f \in History, FeedOf(f), NEW c \in Clients,
           Receiver(c) \/ Open(c) \/ Close(c) \/ CloseOnTimeout(c)
    PROVE  FeedInv'
<1>0. /\ listener.book \in Int /\ listener.seq \in Nat /\ listener.book \in Nat
      /\ manager.mail \in Seq(GoodRefresh(f, listener.seq) \cup RequestMsg)
      /\ ClientFeed(f, c) /\ view \in [Clients -> Books]
    BY BookRange DEF FeedOf, Types
<1>1. ASSUME listener' = listener, manager'.mail = manager.mail,
             \A d \in Clients \ {c} : client'[d] = client[d] /\ view'[d] = view[d],
             client'[c].mail \in Seq(GoodRefresh(f, listener.seq)),
             view'[c] \in {NoBook} \cup 0..listener.book,
             client'[c].phase = "following" =>
                client'[c].seq \in 0..listener.seq /\ f[client'[c].seq] = view'[c],
             client'[c].answer = NoAnswer
      PROVE  FeedInv'
  <2>1. GoodRefresh(f, listener.seq)' = GoodRefresh(f, listener.seq)
      BY <1>1 DEF GoodRefresh
  <2>2. ClientFeed(f, c)'
      BY <1>1, <2>1 DEF ClientFeed
  <2>3. \A d \in Clients : ClientFeed(f, d)' \/ (client'[d] = client[d] /\ view'[d] = view[d])
      BY <1>1, <2>2
  <2>4. FeedOf(f)'
      BY <1>0, <1>1, <2>3, FeedKeeps
  <2> QED
      BY <2>4 DEF FeedInv
<1>2. CASE OnAnswer(c)
  <2>1. /\ client[c].answer # NoAnswer /\ UNCHANGED <<listener, manager>>
        /\ \A d \in Clients \ {c} : client'[d] = client[d]
        /\ client'[c].seq = client[c].answer.seq
        /\ client'[c].answer = NoAnswer /\ client'[c].mail = client[c].mail
        /\ view' = [view EXCEPT ![c] = client[c].answer.book]
      BY <1>2, OnAnswerShape
  <2>2. view'[c] = client[c].answer.book /\ \A d \in Clients \ {c} : view'[d] = view[d]
      BY <1>0, <2>1
  <2>3. client[c].answer.book \in 0..listener.book
      BY <2>1, FeedView
  <2> QED
      BY <1>0, <1>1, <2>1, <2>2, <2>3 DEF ClientFeed
<1>3. CASE OnRefresh(c)
  <2> DEFINE m == Head(client[c].mail)
  <2>1. /\ client[c].phase = "following" /\ client[c].mail # <<>>
        /\ UNCHANGED <<listener, manager>>
        /\ \A d \in Clients \ {c} : client'[d] = client[d]
        /\ client'[c].mail = Tail(client[c].mail)
        /\ client[c].answer = NoAnswer /\ client'[c].answer = NoAnswer
      BY <1>3, OnRefreshShape DEF Subscriptions
  <2>2. Tail(client[c].mail) \in Seq(GoodRefresh(f, listener.seq))
      BY <2>1, FeedMail
  <2>3. \/ client'[c].phase = "following" /\ client'[c].seq = client[c].seq /\ view' = view
        \/ /\ m.seq = client[c].seq + 1 /\ client'[c].seq = m.seq
           /\ view' = [view EXCEPT ![c] = Apply(@, m.k)]
        \/ client'[c].phase = "asking" /\ view' = view
      BY <1>3, OnRefreshShape
  <2>4. CASE /\ m.seq = client[c].seq + 1 /\ client'[c].seq = m.seq
             /\ view' = [view EXCEPT ![c] = Apply(@, m.k)]
    <3>1. /\ m.seq \in 0..listener.seq
          /\ Apply(view[c], m.k) = f[m.seq] /\ f[m.seq] \in 0..listener.book
        BY <2>1, <2>4, FeedView
    <3>2. view'[c] = Apply(view[c], m.k) /\ \A d \in Clients \ {c} : view'[d] = view[d]
        BY <1>0, <2>4
    <3> QED
        BY <1>1, <2>1, <2>2, <2>4, <3>1, <3>2
  <2>5. CASE view' = view /\ (client'[c].phase = "asking" \/ client'[c].seq = client[c].seq)
      BY <1>0, <1>1, <2>1, <2>2, <2>5 DEF ClientFeed
  <2> QED
      BY <2>3, <2>4, <2>5
<1>4. CASE Open(c) \/ OnTimeout(c)
  <2>1. /\ client'[c].mail = client[c].mail /\ client'[c].phase = "asking"
        /\ client'[c].answer = NoAnswer /\ UNCHANGED <<listener, manager, view>>
        /\ \A d \in Clients \ {c} : client'[d] = client[d]
      BY <1>4, OpenShape
  <2> QED
      BY <1>0, <1>1, <2>1 DEF ClientFeed
<1>5. CASE Close(c) \/ CloseOnTimeout(c)
  <2>1. Leave(c) /\ UNCHANGED <<listener, view>>
      BY <1>5 DEF Close, CloseOnTimeout
  <2>2. /\ \A d \in Clients \ {c} : client'[d] = client[d]
        /\ client'[c].phase = "closed" /\ client'[c].answer = NoAnswer
        /\ client'[c].mail = <<>> /\ manager'.mail = manager.mail
      BY <2>1, LeaveShape
  <2>3. <<>> \in Seq(GoodRefresh(f, listener.seq))
      BY EmptySeq
  <2> QED
      BY <1>0, <1>1, <2>1, <2>2, <2>3 DEF ClientFeed
<1> QED
    BY <1>2, <1>3, <1>4, <1>5 DEF Receiver

\* All that is known of a state.
FullInv == Types /\ Subscriptions /\ BookInv /\ FeedInv

\* The three invariants together are inductive, where the stream loses nothing between snapshot and sync.
LEMMA FullStep ==
    ASSUME LossySync = FALSE, FullInv, [Next]_vars PROVE FullInv'
<1>1. Types' /\ Subscriptions' /\ BookInv'
    BY TypesStep, SubscriptionsStep, BookInvStep DEF FullInv
<1>2. PICK f \in History : FeedOf(f)
    BY DEF FullInv, FeedInv
<1>3. CASE UNCHANGED vars
  <2>1. GoodRefresh(f, listener.seq)' = GoodRefresh(f, listener.seq)
      BY <1>3 DEF GoodRefresh, vars
  <2>2. FeedOf(f)'
      BY <1>2, <1>3, <2>1 DEF FeedOf, ClientFeed, vars
  <2> QED
      BY <1>1, <2>2 DEF FullInv, FeedInv
<1> QED
    BY <1>1, <1>2, <1>3, FeedListener, FeedManager, FeedReceiver DEF FullInv, Next

\* They hold at first.
LEMMA FullInit ==
    ASSUME Init PROVE FullInv
<1>1. Types /\ Subscriptions /\ BookInv
    BY TypesInit, SubscriptionsInit, BookInvInit
<1>2. PICK f \in History : \A s \in Nat : f[s] = 0
  <2>1. [s \in Nat |-> 0] \in History
      BY MarketBounds DEF History
  <2> QED
      BY <2>1
<1>3. /\ <<>> \in Seq(GoodRefresh(f, listener.seq))
      /\ <<>> \in Seq(GoodRefresh(f, listener.seq) \cup RequestMsg)
    BY EmptySeq
<1>4. /\ listener.seq = 0 /\ listener.book = 0 /\ listener.phase = "none" /\ manager.mail = <<>>
      /\ \A c \in Clients : /\ client[c].mail = <<>> /\ client[c].phase = "none"
                            /\ client[c].answer = NoAnswer /\ view[c] = NoBook
    BY SocketTypes DEF Init
<1>5. \A c \in Clients : ClientFeed(f, c)
    BY <1>3, <1>4 DEF ClientFeed
<1>6. \A s \in 0..listener.seq : f[s] <= listener.book
  <2>1. \A s \in 0..listener.seq : s \in Nat
      BY <1>4
  <2> QED
      BY <1>2, <1>4, <2>1
<1>7. FeedOf(f)
    BY <1>3, <1>4, <1>5, <1>6 DEF FeedOf
<1> QED
    BY <1>1, <1>7 DEF FullInv, FeedInv

\* Every step is a step of the feed, or changes neither the book of the exchange nor
\* the books of the clients.
LEMMA FeedStep ==
    ASSUME FullInv, [Next]_vars PROVE [Feed!Next]_<<market, view>>
<1>0. Types /\ BookInv /\ listener.book <= market /\ listener.book \in Nat /\ market \in Nat
    BY BookRange DEF FullInv
<1>00. PICK f \in History : FeedOf(f)
    BY DEF FullInv, FeedInv
<1>1. CASE Change
    BY <1>1 DEF Change, Feed!Next, Feed!Change
<1>2. ASSUME NEW c \in Clients, OnAnswer(c) PROVE Feed!Next
  <2>1. PICK k \in 0..listener.book : k = client[c].answer.book /\ view[c] <= k
      BY <1>0, <1>00, <1>2, FeedView DEF OnAnswer
  <2>2. k \in 0..market /\ view' = [view EXCEPT ![c] = k] /\ market' = market
      BY <1>0, <1>2, <2>1 DEF OnAnswer
  <2>3. Feed!Snapshot(c)
      BY <2>1, <2>2 DEF Feed!Snapshot
  <2> QED
      BY <2>3 DEF Feed!Next
<1>3. ASSUME NEW c \in Clients, OnRefresh(c) PROVE [Feed!Next]_<<market, view>>
  <2> DEFINE m == Head(client[c].mail)
  <2>1. /\ client[c].phase = "following" /\ client[c].mail # <<>> /\ market' = market
        /\ \/ view' = view
           \/ /\ m.seq = client[c].seq + 1
              /\ view' = [view EXCEPT ![c] = Apply(@, m.k)]
      BY <1>0, <1>3, OnRefreshShape
  <2>2. CASE view' = view
      BY <2>1, <2>2
  <2>3. CASE m.seq = client[c].seq + 1 /\ view' = [view EXCEPT ![c] = Apply(@, m.k)]
    <3>1. PICK b \in 0..listener.book :
            /\ Apply(view[c], m.k) = b /\ view[c] \in Nat
            /\ b = view[c] \/ b = view[c] + 1
        BY <1>0, <1>00, <2>1, <2>3, FeedView
    <3>2. view' = [view EXCEPT ![c] = b] /\ view \in [Clients -> Books]
        BY <1>0, <2>3, <3>1 DEF Types
    <3>3. CASE b = view[c]
      <4>1. view' = view
          BY <3>2, <3>3
      <4> QED
          BY <2>1, <4>1
    <3>4. CASE b = view[c] + 1
      <4>1. view[c] < market /\ view[c] # -1
          BY <1>0, <3>1, <3>4
      <4>2. view' = [view EXCEPT ![c] = @ + 1]
          BY <3>2, <3>4
      <4>3. Feed!Update(c)
          BY <2>1, <4>1, <4>2 DEF Feed!Update, Feed!NoBook
      <4> QED
          BY <4>3 DEF Feed!Next
    <3> QED
        BY <3>1, <3>3, <3>4
  <2> QED
      BY <2>1, <2>2, <2>3
<1>4. CASE SocketFails \/ EventLost \/ SubscribeFails
    BY <1>4 DEF SocketFails, EventLost, SubscribeFails
<1>5. CASE Listener
    BY <1>5 DEF Listener, ReadMessage, Connect, TakeSnapshot, Sync, RestartListener,
         OnDepthData, OnListenerRequest, CheckSockets, Heartbeat
<1>6. CASE Manager \/ Executor
    BY <1>6 DEF Manager, Executor, OnManagerRequest, OnIncrementalRefresh, ManagerStops,
         OnSubscriberTerminated, OnMarketDataRequest, OnManagerTerminated
<1>7. ASSUME NEW c \in Clients, OnTimeout(c) \/ Open(c) \/ Close(c) \/ CloseOnTimeout(c)
      PROVE  UNCHANGED <<market, view>>
    BY <1>7 DEF OnTimeout, Open, Close, CloseOnTimeout
<1>8. CASE UNCHANGED vars
    BY <1>8 DEF vars
<1> QED
    BY <1>1, <1>2, <1>3, <1>4, <1>5, <1>6, <1>7, <1>8 DEF Next, Receiver

\* The initial states are initial states of the abstract feed.
LEMMA FeedInit ==
    ASSUME Init PROVE Feed!Init
BY DEF Init, Feed!Init, NoBook, Feed!NoBook

\* What a client gets is MarketFeed, whatever is lost, delayed or restarted on the
\* way, as long as the stream is whole while the listener synchronises.
THEOREM ImplementsFeed == ASSUME LossySync = FALSE PROVE Spec => FeedSpec
<1>1. Init => FullInv
    BY FullInit
<1>2. FullInv /\ [Next]_vars => FullInv'
    BY FullStep
<1>3. FullInv /\ [Next]_vars => [Feed!Next]_<<market, view>>
    BY FeedStep
<1>4. Init => Feed!Init
    BY FeedInit
<1> QED
    BY <1>1, <1>2, <1>3, <1>4, PTL DEF Spec, FeedSpec, Feed!Spec

\* The types, with the books that can be there.
THEOREM TypeCorrect == ASSUME LossySync = FALSE PROVE Spec => []TypeOK
<1>1. Init => FullInv
    BY FullInit
<1>2. FullInv /\ [Next]_vars => FullInv'
    BY FullStep
<1>3. ASSUME FullInv PROVE TypeOK
  <2>1. /\ Types /\ listener.book \in 0..MaxUpdates
      BY <1>3, BookRange DEF FullInv
  <2>2. PICK f \in History : FeedOf(f)
      BY <1>3 DEF FullInv, FeedInv
  <2>3. /\ socket.up \in BOOLEAN /\ \A i \in 1..Len(socket.q) : IsDepth(socket.q[i])
    <3>1. socket.q \in Seq(DepthMsg(MaxUpdates)) /\ socket.up \in BOOLEAN
        BY <2>1 DEF Types, SocketType
    <3>2. \A i \in 1..Len(socket.q) : socket.q[i] \in DepthMsg(MaxUpdates)
        BY <3>1, ElementOfSeq
    <3> QED
        BY <3>1, <3>2 DEF DepthMsg, IsDepth
  <2>4. \A i \in 1..Len(listener.mail) : IsDepth(listener.mail[i]) \/ IsRequest(listener.mail[i])
    <3>1. listener.mail \in Seq(DepthMsg(MaxUpdates) \cup RequestMsg)
        BY <2>1 DEF Types, ListenerType
    <3>2. \A i \in 1..Len(listener.mail) :
             listener.mail[i] \in DepthMsg(MaxUpdates) \/ listener.mail[i] \in RequestMsg
        BY <3>1, ElementOfSeq
    <3> QED
        BY <3>2 DEF DepthMsg, IsDepth, RequestMsg, IsRequest
  <2>5. \A i \in 1..Len(manager.mail) : IsRefresh(manager.mail[i]) \/ IsRequest(manager.mail[i])
    <3>1. manager.mail \in Seq(RefreshMsg \cup RequestMsg)
        BY <2>1 DEF Types, ManagerType
    <3>2. \A i \in 1..Len(manager.mail) :
             manager.mail[i] \in RefreshMsg \/ manager.mail[i] \in RequestMsg
        BY <3>1, ElementOfSeq
    <3> QED
        BY <3>2 DEF RefreshMsg, IsRefresh, RequestMsg, IsRequest
  <2>6. \A i \in 1..Len(requests) : IsRequest(requests[i])
    <3>1. \A i \in 1..Len(requests) : requests[i] \in RequestMsg
        BY <2>1, ElementOfSeq DEF Types
    <3> QED
        BY <3>1 DEF RequestMsg, IsRequest
  <2>7. ASSUME NEW c \in Clients
        PROVE  /\ client[c].phase \in {"none", "asking", "following", "closed"}
               /\ client[c].seq \in Nat /\ client[c].n \in Nat
               /\ client[c].answer.book \in 0..MaxUpdates \cup {NoBook}
               /\ \A i \in 1..Len(client[c].mail) : IsRefresh(client[c].mail[i])
    <3>1. client[c] \in ClientType /\ client[c].mail \in Seq(RefreshMsg)
        BY <2>1 DEF Types, ClientType
    <3>2. \A i \in 1..Len(client[c].mail) : client[c].mail[i] \in RefreshMsg
        BY <3>1, ElementOfSeq
    <3>3. client[c].answer.book \in 0..MaxUpdates \cup {NoBook}
      <4>1. CASE client[c].answer = NoAnswer
          BY <4>1 DEF NoAnswer
      <4>2. CASE client[c].answer # NoAnswer
        <5>1. client[c].answer.book \in 0..listener.book
            BY <1>3, <2>1, <2>2, <4>2, FeedView DEF FullInv
        <5> QED
            BY <2>1, <5>1, MarketBounds
      <4> QED
          BY <4>1, <4>2
    <3> QED
        BY <3>1, <3>2, <3>3 DEF ClientType, ClientPhases, RefreshMsg, IsRefresh
  <2>8. /\ listener.phase \in ListenerPhases /\ listener.seq \in Nat /\ listener.last \in Nat
        /\ listener.beaten \in BOOLEAN
        /\ manager.phase \in ManagerPhases
        /\ manager.subscribers \subseteq Clients /\ manager.gone \subseteq Clients
      BY <2>1 DEF Types, ListenerType, ManagerType
  <2>9. /\ market \in 0..MaxUpdates /\ known \in BOOLEAN /\ view \in [Clients -> Books]
        /\ faults \in 0..MaxFaults /\ closes \in 0..MaxCloses
      BY <2>1 DEF Types
  <2> QED
      BY <2>1, <2>3, <2>4, <2>5, <2>6, <2>7, <2>8, <2>9
         DEF TypeOK, All, ListenerPhases, ManagerPhases
<1>4. FullInv => TypeOK
    BY <1>3
<1> QED
    BY <1>1, <1>2, <1>4, PTL DEF Spec
=============================================================================
