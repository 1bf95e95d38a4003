----------------------------- MODULE MarketData -----------------------------
(***************************************************************************)
(* The market data of one security, from the exchange to the clients:      *)
(*                                                                         *)
(*   exchange --socket--> Listener --refreshes--> DataManager --> clients  *)
(*   exchange --REST----> Listener --the answer to a request--> client     *)
(*   client --request--> Executor --> DataManager --> Listener             *)
(*                                                                         *)
(*   exchanges/fbinance/listener.go    the Listener (L2 book of a socket)  *)
(*   exchanges/data_manager.go         one per security, spawns the        *)
(*                                     Listener, fans its refreshes out,   *)
(*                                     stops with its last subscriber      *)
(*   exchanges/executor.go             the map from securities to managers *)
(*   utils/md_receiver.go              the client: asks, then follows the  *)
(*                                     sequence numbers, restarts on a gap *)
(*                                                                         *)
(* Each actor has a mailbox and handles one message at a time; the answer  *)
(* to a request goes from the listener to the client's future, past the    *)
(* manager.  A manager and a listener that stop lose their mailboxes.      *)
(* Sequence numbers start at the nanoseconds of the clock whenever the     *)
(* listener subscribes: a base later than every number sent before.        *)
(* Request ids are unique, so a client stands for its subscription.        *)
(***************************************************************************)
EXTENDS Integers, Sequences, FiniteSets, SequencesExt

CONSTANTS
    Clients,
    MaxUpdates,     \* bound on the changes of the exchange's book
    MaxFaults,      \* bound on lost events, sockets, answers, snapshots
    MaxCloses,      \* bound on the subscriptions that end
    LossySync       \* whether events are lost while the listener synchronises

ASSUME MarketBounds ==
    LossySync \in BOOLEAN /\ MaxUpdates \in Nat \ {0} /\ MaxFaults \in Nat /\ MaxCloses \in Nat

NoBook  == -1       \* MarketFeed!NoBook
Corrupt == -2       \* a change applied to a book it does not continue
Books   == {NoBook, Corrupt} \cup 0..MaxUpdates
NoAnswer == [seq |-> 0, book |-> NoBook]

VARIABLES
    market,     \* external: the book at the exchange
    socket,     \* the listener's websocket, with the events not read yet
    listener,   \* the listener: phase, sequence number, book, mailbox
    manager,    \* the data manager: phase, subscribers, mailbox, terminations
    known,      \* the executor's map "instruments" has the manager
    requests,   \* the executor's mailbox
    client,     \* the receivers: phase, sequence number, request, mailbox
    view,       \* the book each receiver has written to its channel
    faults, closes

vars == <<market, socket, listener, manager, known, requests, client, view, faults, closes>>

\* FinalUpdateID and PreviousUpdateID of the k-th change.
Final(k)    == 2 * k
Previous(k) == Final(k - 1)

Apply(book, k) == IF k = 0 THEN book ELSE IF book = k - 1 THEN k ELSE Corrupt

Depth(k)       == [kind |-> "depth", k |-> k]
Request(c, n)  == [kind |-> "request", c |-> c, n |-> n]
Refresh(s, k)  == [kind |-> "refresh", seq |-> s, k |-> k]

IsRequest(m) ==
    m.kind = "request" /\ m.c \in Clients /\ m.n \in Nat
IsRefresh(m) ==
    m.kind = "refresh" /\ m.seq \in Nat /\ m.k \in 0..MaxUpdates
IsDepth(m) ==
    m.kind = "depth" /\ m.k \in 1..MaxUpdates

All(q, P(_)) == \A i \in 1..Len(q) : P(q[i])

TypeOK ==
    /\ market \in 0..MaxUpdates
    /\ socket.up \in BOOLEAN /\ All(socket.q, IsDepth)
    /\ listener.phase \in {"none", "connect", "snapshot", "sync", "running", "failed"}
    /\ listener.seq \in Nat /\ listener.last \in Nat /\ listener.book \in 0..MaxUpdates
    /\ listener.beaten \in BOOLEAN
    /\ All(listener.mail, LAMBDA m : IsDepth(m) \/ IsRequest(m))
    /\ manager.phase \in {"none", "running", "stopping", "stopped"}
    /\ manager.subscribers \subseteq Clients /\ manager.gone \subseteq Clients
    /\ All(manager.mail, LAMBDA m : IsRefresh(m) \/ IsRequest(m))
    /\ known \in BOOLEAN
    /\ All(requests, IsRequest)
    /\ \A c \in Clients :
        /\ client[c].phase \in {"none", "asking", "following", "closed"}
        /\ client[c].seq \in Nat /\ client[c].n \in Nat
        /\ client[c].answer.book \in 0..MaxUpdates \cup {NoBook}
        /\ All(client[c].mail, IsRefresh)
    /\ view \in [Clients -> Books]
    /\ faults \in 0..MaxFaults /\ closes \in 0..MaxCloses

NoSocket  == [up |-> FALSE, q |-> <<>>]
NoManager == [phase |-> "none", subscribers |-> {}, mail |-> <<>>, gone |-> {}]

Init ==
    /\ market = 0
    /\ socket = NoSocket
    /\ listener = [phase |-> "none", seq |-> 0, last |-> 0, book |-> 0, beaten |-> FALSE,
                   mail |-> <<>>]
    /\ manager = NoManager
    /\ known = FALSE /\ requests = <<>>
    /\ client = [c \in Clients |-> [phase |-> "none", seq |-> 0, n |-> 0,
                                    answer |-> NoAnswer, mail |-> <<>>]]
    /\ view = [c \in Clients |-> NoBook]
    /\ faults = 0 /\ closes = 0

Fault == faults < MaxFaults /\ faults' = faults + 1 /\ closes' = closes
NoFault == UNCHANGED <<faults, closes>>
----------------------------------------------------------------------------
(***************************************************************************)
(* External: the exchange and its stream.                                  *)
(***************************************************************************)
Change ==
    /\ market < MaxUpdates /\ market' = market + 1
    /\ socket' = IF socket.up THEN [socket EXCEPT !.q = Append(@, Depth(market'))] ELSE socket
    /\ UNCHANGED <<listener, manager, known, requests, client, view>> /\ NoFault

SocketFails ==
    /\ socket.up /\ socket' = NoSocket
    /\ Fault
    /\ UNCHANGED <<market, listener, manager, known, requests, client, view>>

\* The stream leaves out a change.  While the listener synchronises it does so
\* only with LossySync: Sync would not notice.  (The next one reveals it; the loss of the
\* last would be revealed beyond the bound.)
EventLost ==
    /\ listener.phase = "sync" => LossySync
    /\ \E i \in 1..Len(socket.q) :
        /\ socket.q[i].k # MaxUpdates
        /\ socket' = [socket EXCEPT !.q = RemoveAt(@, i)]
    /\ Fault
    /\ UNCHANGED <<market, listener, manager, known, requests, client, view>>
----------------------------------------------------------------------------
(***************************************************************************)
(* The listener.                                                           *)
(***************************************************************************)

\* The goroutine of the socket.
ReadMessage ==
    /\ listener.phase \in {"running", "failed"} /\ socket.q # <<>>
    /\ listener' = [listener EXCEPT !.mail = Append(@, Head(socket.q))]
    /\ socket' = [socket EXCEPT !.q = Tail(@)]
    /\ UNCHANGED <<market, manager, known, requests, client, view>> /\ NoFault

\* subscribeInstrument blocks the actor: the socket first, five seconds later
\* the snapshot, then the events up to the first that is later than it.
Connect ==
    /\ listener.phase = "connect"
    /\ listener' = [listener EXCEPT !.phase = "snapshot"]
    /\ socket' = [up |-> TRUE, q |-> <<>>]
    /\ UNCHANGED <<market, manager, known, requests, client, view>> /\ NoFault

TakeSnapshot ==
    /\ listener.phase = "snapshot"
    /\ listener' = [listener EXCEPT !.phase = "sync", !.book = market, !.last = Final(market)]
    /\ UNCHANGED <<market, socket, manager, known, requests, client, view>> /\ NoFault

\* The sequence starts again, at the clock.
Synced(l) == [l EXCEPT !.phase = "running", !.seq = l.seq + 1, !.beaten = FALSE]

\* The first event after the snapshot is applied unchecked.  (It may lie beyond
\* the bound: then nothing is left to apply.)
Sync ==
    /\ listener.phase = "sync" /\ socket.up
    /\ \/ /\ socket.q # <<>>
          /\ socket' = [socket EXCEPT !.q = Tail(@)]
          /\ LET k == Head(socket.q).k IN
             listener' = IF Final(k) <= listener.last THEN listener
                         ELSE Synced([listener EXCEPT !.book = Apply(@, k), !.last = Final(k) - 1])
       \/ /\ socket.q = <<>> /\ market = MaxUpdates
          /\ listener' = Synced([listener EXCEPT !.last = Final(market) - 1])
          /\ socket' = socket
    /\ UNCHANGED <<market, manager, known, requests, client, view>> /\ NoFault

\* The socket cannot be connected or read, or the snapshot is refused.
SubscribeFails ==
    /\ listener.phase \in {"connect", "snapshot", "sync"}
    /\ listener' = [listener EXCEPT !.phase = "failed"]
    /\ IF listener.phase = "sync" /\ ~socket.up THEN NoFault ELSE Fault
    /\ UNCHANGED <<market, socket, manager, known, requests, client, view>>

\* The manager restarts it and its mailbox is kept.  (A book found crossed makes
\* the listener subscribe at once after a first failure; the pause is the same.)
RestartListener ==
    /\ listener.phase = "failed"
    /\ listener' = [listener EXCEPT !.phase = "connect"]
    /\ socket' = NoSocket
    /\ UNCHANGED <<market, manager, known, requests, client, view>> /\ NoFault

Received(kind) ==
    /\ listener.phase = "running"
    /\ listener.mail # <<>> /\ Head(listener.mail).kind = kind

Taken == [listener EXCEPT !.mail = Tail(@)]

ToManager(m) ==
    manager' = IF manager.phase = "running" THEN [manager EXCEPT !.mail = Append(@, m)]
               ELSE manager

\* Mutant: the continuity of the changes is not checked.
OnDepthDataUnchecked ==
    /\ Received("depth")
    /\ LET k == Head(listener.mail).k IN
       IF Final(k) <= listener.last THEN listener' = Taken /\ manager' = manager
       ELSE /\ listener' = [Taken EXCEPT !.book = Apply(@, k), !.last = Final(k) - 1, !.seq = @ + 1]
            /\ ToManager(Refresh(listener.seq + 1, k))
    /\ UNCHANGED <<market, socket, known, requests, client, view>> /\ NoFault

\* Mutant: a crossed book is only logged.
OnDepthDataCrossed ==
    /\ Received("depth")
    /\ LET k == Head(listener.mail).k
           next == [Taken EXCEPT !.book = Apply(@, k)]
           continues == Final(k) > listener.last /\ listener.last + 1 = Previous(k)
       IN  \/ /\ ~continues
              /\ listener' = IF Final(k) <= listener.last THEN Taken
                             ELSE [Taken EXCEPT !.phase = "connect"]
              /\ manager' = manager /\ NoFault
           \/ /\ continues
              /\ listener' = [next EXCEPT !.last = Final(k) - 1, !.seq = @ + 1]
              /\ ToManager(Refresh(listener.seq + 1, k)) /\ NoFault
           \/ continues /\ listener' = next /\ manager' = manager /\ Fault
    /\ UNCHANGED <<market, socket, known, requests, client, view>>

\* A change older than the book is skipped, one that does not continue it makes
\* the listener subscribe again, and so does one that crosses the book (which
\* only a fault explains; lastUpdateID then stays behind the book).
OnDepthData ==
    /\ Received("depth")
    /\ LET k == Head(listener.mail).k
           next == [Taken EXCEPT !.book = Apply(@, k)]
       IN  \/ /\ Final(k) <= listener.last
              /\ listener' = Taken /\ manager' = manager /\ NoFault
           \/ /\ Final(k) > listener.last /\ listener.last + 1 # Previous(k)
              /\ listener' = [Taken EXCEPT !.phase = "connect"]
              /\ manager' = manager /\ NoFault
           \/ /\ Final(k) > listener.last /\ listener.last + 1 = Previous(k)
              /\ listener' = [next EXCEPT !.last = Final(k) - 1, !.seq = @ + 1]
              /\ ToManager(Refresh(listener.seq + 1, k))
              /\ NoFault
           \/ /\ Final(k) > listener.last /\ listener.last + 1 = Previous(k)
              /\ listener' = [next EXCEPT !.phase = "connect"]
              /\ manager' = manager /\ Fault
    /\ UNCHANGED <<market, socket, known, requests, client, view>>

\* The answer reaches the future of the request, if it is still waited for.
OnListenerRequest ==
    /\ Received("request")
    /\ listener' = Taken
    /\ LET m == Head(listener.mail) IN
       client' = IF client[m.c].phase = "asking" /\ client[m.c].n = m.n
                 THEN [client EXCEPT ![m.c].answer = [seq |-> listener.seq, book |-> listener.book]]
                 ELSE client
    /\ UNCHANGED <<market, socket, manager, known, requests, view>> /\ NoFault

CheckSockets ==
    /\ listener.phase = "running" /\ ~socket.up
    /\ listener' = [listener EXCEPT !.phase = "connect"]
    /\ UNCHANGED <<market, socket, manager, known, requests, client, view>> /\ NoFault

\* An empty refresh; trades, liquidations and funding rates are refreshes of
\* this kind as well.  One per subscription is enough here.
Heartbeat ==
    /\ listener.phase = "running" /\ ~listener.beaten
    /\ listener' = [listener EXCEPT !.seq = @ + 1, !.beaten = TRUE]
    /\ ToManager(Refresh(listener.seq + 1, 0))
    /\ UNCHANGED <<market, socket, known, requests, client, view>> /\ NoFault
----------------------------------------------------------------------------
(***************************************************************************)
(* The data manager.                                                       *)
(***************************************************************************)
Managed(kind) ==
    /\ manager.phase = "running"
    /\ manager.mail # <<>> /\ Head(manager.mail).kind = kind

\* Mutant: the subscriber is not watched.
OnManagerRequestUnwatched ==
    /\ Managed("request")
    /\ LET m == Head(manager.mail) IN
       /\ manager' = [manager EXCEPT !.mail = Tail(@), !.subscribers = @ \cup {m.c}]
       /\ listener' = [listener EXCEPT !.mail = Append(@, m)]
    /\ UNCHANGED <<market, socket, known, requests, client, view>> /\ NoFault

\* Mutant: an answer makes the subscriber, the manager does not.
OnManagerRequestLate ==
    /\ Managed("request")
    /\ LET m == Head(manager.mail) IN
       /\ manager' = [manager EXCEPT !.mail = Tail(@)]
       /\ listener' = [listener EXCEPT !.mail = Append(@, m)]
    /\ UNCHANGED <<market, socket, known, requests, client, view>> /\ NoFault

\* To watch a client that is gone is to be told so at once.
OnManagerRequest ==
    /\ Managed("request")
    /\ LET m == Head(manager.mail) IN
       /\ manager' = [manager EXCEPT !.mail = Tail(@), !.subscribers = @ \cup {m.c},
                        !.gone = IF client[m.c].phase = "closed" THEN @ \cup {m.c} ELSE @]
       /\ listener' = [listener EXCEPT !.mail = Append(@, m)]
    /\ UNCHANGED <<market, socket, known, requests, client, view>> /\ NoFault

OnIncrementalRefresh ==
    /\ Managed("refresh")
    /\ manager' = [manager EXCEPT !.mail = Tail(@)]
    /\ client' = [c \in Clients |->
                    IF c \in manager.subscribers /\ client[c].phase # "closed"
                    THEN [client[c] EXCEPT !.mail = Append(@, Head(manager.mail))]
                    ELSE client[c]]
    /\ UNCHANGED <<market, socket, listener, known, requests, view>> /\ NoFault

\* The last subscriber gone, the manager stops itself and its listener.
OnSubscriberTerminated(c) ==
    /\ manager.phase = "running" /\ c \in manager.gone
    /\ IF manager.subscribers \ {c} = {}
       THEN /\ manager' = [NoManager EXCEPT !.phase = "stopping"]
            /\ listener' = [listener EXCEPT !.phase = "none", !.mail = <<>>]
            /\ socket' = NoSocket
       ELSE /\ manager' = [manager EXCEPT !.subscribers = @ \ {c}, !.gone = @ \ {c}]
            /\ UNCHANGED <<listener, socket>>
    /\ UNCHANGED <<market, known, requests, client, view>> /\ NoFault

ManagerStops ==
    /\ manager.phase = "stopping" /\ manager' = [manager EXCEPT !.phase = "stopped"]
    /\ UNCHANGED <<market, socket, listener, known, requests, client, view>> /\ NoFault
----------------------------------------------------------------------------
(***************************************************************************)
(* The executor.                                                           *)
(***************************************************************************)

\* A request forwarded to a manager that is stopping or has stopped is lost.
OnMarketDataRequest ==
    /\ requests # <<>> /\ requests' = Tail(requests)
    /\ known' = TRUE
    /\ IF known
       THEN ToManager(Head(requests)) /\ listener' = listener
       ELSE /\ manager' = [NoManager EXCEPT !.phase = "running", !.mail = <<Head(requests)>>]
            /\ listener' = [listener EXCEPT !.phase = "connect"]
    /\ UNCHANGED <<market, socket, client, view>> /\ NoFault

\* Mutant: the map keeps managers that stopped.
OnManagerTerminatedKept ==
    /\ manager.phase = "stopped"
    /\ manager' = NoManager
    /\ UNCHANGED <<market, socket, listener, known, requests, client, view>> /\ NoFault

OnManagerTerminated ==
    /\ manager.phase = "stopped"
    /\ known' = FALSE /\ manager' = NoManager
    /\ UNCHANGED <<market, socket, listener, requests, client, view>> /\ NoFault
----------------------------------------------------------------------------
(***************************************************************************)
(* The receivers.  One that panics is restarted and asks again; it keeps   *)
(* its mailbox and its subscription.                                       *)
(***************************************************************************)
InFlight == ToSet(requests) \cup ToSet(manager.mail) \cup ToSet(listener.mail)

\* A future of its own for each request: a number no request in flight has.
Fresh(c) == CHOOSE n \in 1..Cardinality(InFlight) + 1 : Request(c, n) \notin InFlight

Ask(c, r) ==
    /\ client' = [client EXCEPT ![c] = [r EXCEPT !.phase = "asking", !.n = Fresh(c),
                                                 !.answer = NoAnswer]]
    /\ requests' = Append(requests, Request(c, Fresh(c)))

Open(c) ==
    /\ client[c].phase = "none"
    /\ Ask(c, client[c])
    /\ UNCHANGED <<market, socket, listener, manager, known, view>> /\ NoFault

OnAnswer(c) ==
    /\ client[c].phase = "asking" /\ client[c].answer # NoAnswer
    /\ client' = [client EXCEPT ![c].phase = "following", ![c].seq = client[c].answer.seq,
                                ![c].answer = NoAnswer]
    /\ view' = [view EXCEPT ![c] = client[c].answer.book]
    /\ UNCHANGED <<market, socket, listener, manager, known, requests>> /\ NoFault

Pending(c) == Request(c, client[c].n) \in InFlight

Leave(c) ==
    /\ client' = [client EXCEPT ![c].phase = "closed", ![c].mail = <<>>, ![c].answer = NoAnswer]
    /\ manager' = IF c \in manager.subscribers THEN [manager EXCEPT !.gone = @ \cup {c}] ELSE manager
    /\ closes < MaxCloses /\ closes' = closes + 1

\* A minute without an answer: the request was lost, or its answer is late.
\* The receiver asks again, unless it has been closed meanwhile.
OnTimeout(c) ==
    /\ client[c].phase = "asking" /\ client[c].answer = NoAnswer
    /\ IF Pending(c) THEN Fault ELSE NoFault
    /\ Ask(c, client[c])
    /\ UNCHANGED <<market, socket, listener, manager, known, view>>

CloseOnTimeout(c) ==
    /\ client[c].phase = "asking" /\ client[c].answer = NoAnswer
    /\ Pending(c) => faults < MaxFaults
    /\ faults' = IF Pending(c) THEN faults + 1 ELSE faults
    /\ Leave(c)
    /\ UNCHANGED <<market, socket, listener, known, requests, view>>

Next1(c) == Head(client[c].mail)
Handled(c) == [client[c] EXCEPT !.mail = Tail(@)]

\* Mutant: a gap in the sequence goes unnoticed.
OnRefreshGapless(c) ==
    /\ client[c].phase = "following" /\ client[c].mail # <<>>
    /\ LET m == Next1(c) IN
       IF m.seq <= client[c].seq
       THEN client' = [client EXCEPT ![c] = Handled(c)] /\ view' = view
       ELSE /\ client' = [client EXCEPT ![c] = [Handled(c) EXCEPT !.seq = m.seq]]
            /\ view' = [view EXCEPT ![c] = Apply(@, m.k)]
    /\ UNCHANGED <<market, socket, listener, manager, known, requests>> /\ NoFault

\* Refreshes the snapshot covers are skipped, a gap makes the receiver panic.
OnRefresh(c) ==
    /\ client[c].phase = "following" /\ client[c].mail # <<>>
    /\ LET m == Next1(c) IN
       \/ /\ m.seq <= client[c].seq
          /\ client' = [client EXCEPT ![c] = Handled(c)]
          /\ UNCHANGED <<requests, view>>
       \/ /\ m.seq = client[c].seq + 1
          /\ client' = [client EXCEPT ![c] = [Handled(c) EXCEPT !.seq = m.seq]]
          /\ view' = [view EXCEPT ![c] = Apply(@, m.k)]
          /\ requests' = requests
       \/ /\ m.seq > client[c].seq + 1
          /\ Ask(c, Handled(c))
          /\ view' = view
    /\ UNCHANGED <<market, socket, listener, manager, known>> /\ NoFault

Close(c) ==
    /\ client[c].phase = "following" /\ Leave(c) /\ faults' = faults
    /\ UNCHANGED <<market, socket, listener, known, requests, view>>
----------------------------------------------------------------------------
Listener ==
    \/ ReadMessage \/ Connect \/ TakeSnapshot \/ Sync \/ RestartListener
    \/ OnDepthData \/ OnListenerRequest \/ CheckSockets \/ Heartbeat

Manager ==
    \/ OnManagerRequest \/ OnIncrementalRefresh \/ ManagerStops
    \/ \E c \in Clients : OnSubscriberTerminated(c)

Executor == OnMarketDataRequest \/ OnManagerTerminated

Receiver(c) == OnAnswer(c) \/ OnRefresh(c) \/ OnTimeout(c)

Next ==
    \/ Change \/ SocketFails \/ EventLost \/ SubscribeFails
    \/ Listener \/ Manager \/ Executor
    \/ \E c \in Clients : Receiver(c) \/ Open(c) \/ Close(c) \/ CloseOnTimeout(c)

\* The market moves, the actors and the goroutine of the socket are scheduled,
\* tickers tick and futures time out.  Nobody has to subscribe or to leave.
Fairness ==
    /\ WF_vars(Change)
    /\ WF_vars(ReadMessage) /\ WF_vars(Connect) /\ WF_vars(TakeSnapshot) /\ WF_vars(Sync)
    /\ WF_vars(SubscribeFails /\ faults' = faults) /\ WF_vars(RestartListener)
    /\ WF_vars(OnDepthData /\ faults' = faults) /\ WF_vars(OnListenerRequest)
    /\ WF_vars(CheckSockets) /\ WF_vars(Heartbeat)
    /\ WF_vars(OnManagerRequest) /\ WF_vars(OnIncrementalRefresh) /\ WF_vars(ManagerStops)
    /\ WF_vars(OnMarketDataRequest) /\ WF_vars(OnManagerTerminated)
    /\ \A c \in Clients : WF_vars(OnSubscriberTerminated(c))
    /\ \A c \in Clients :
        WF_vars(OnAnswer(c)) /\ WF_vars(OnRefresh(c)) /\ WF_vars(OnTimeout(c) /\ faults' = faults)

Spec == Init /\ [][Next]_vars /\ Fairness
----------------------------------------------------------------------------
(***************************************************************************)
(* Properties.                                                             *)
(***************************************************************************)

\* A receiver that waits for refreshes is subscribed at a manager that runs,
\* and the executor sends new clients to that same manager: no receiver is left
\* behind by a manager that stopped or was replaced.
FollowersAreServed ==
    \A c \in Clients :
        client[c].phase = "following" =>
            known /\ manager.phase = "running" /\ c \in manager.subscribers

\* The listener's book and its place in the stream belong together, also across
\* subscriptions that fail half way: what it answers to a client is a book the
\* exchange had.
ListenerBookSound ==
    listener.phase = "running" =>
        listener.book <= market /\ listener.last = Final(listener.book) - 1

\* What a client gets is the feed: a snapshot, then every change once and in
\* order; a later snapshot is never older than what the client has.
Feed == INSTANCE MarketFeed WITH Clients <- Clients, MaxUpdates <- MaxUpdates, market <- market, view <- view
FeedSpec == Feed!Spec

\* A client that stays gets everything in the end, whatever was lost.
ClientsCatchUp ==
    \A c \in Clients :
        <>[](client[c].phase \in {"none", "closed"} \/ view[c] = MaxUpdates)

\* A manager nobody listens to stops: no subscription outlives its client.
ManagerIsReleased ==
    (\A c \in Clients : client[c].phase = "closed") ~> manager.phase = "none"
=============================================================================
