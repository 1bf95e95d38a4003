----------------------------- MODULE VenueBook -----------------------------
(***************************************************************************)
(* The order book a market-data listener keeps of its exchange, for the    *)
(* listeners that module Venues tabulates: the socket, the book it starts  *)
(* with, the messages that are applied to it, and a follower that applies  *)
(* the refreshes.                                                          *)
(*                                                                         *)
(* A book has three levels: a bid and an ask, crossed when both are there  *)
(* (the bid is above the ask), and one deeper down.  Change k sets a level *)
(* to k, or removes it (0).  The k-th book of the exchange is              *)
(* history[k + 1]; a message names its k.                                  *)
(***************************************************************************)
EXTENDS Venues, Integers, Sequences, SequencesExt

CONSTANTS
    Names,          \* the venues of the instance
    Sides,          \* the levels that cross each other, bid and ask
    Deep,           \* a level behind them
    MaxChanges,     \* bound on the changes of the exchange's book
    MaxFaults,      \* bound on lost messages, failed sockets and requests
    Patience        \* crossings in a row that are waited for (20 in the code)

ASSUME VenueBounds ==
    /\ Names \subseteq DOMAIN Venue /\ Sides # {}
    /\ MaxChanges \in Nat /\ MaxFaults \in Nat /\ Patience \in Nat

Levels   == Sides \cup {Deep}
None     == -1
Books    == [Levels -> 0..MaxChanges]
NoLevels == [s \in Levels |-> None]
Empty    == [s \in Levels |-> 0]

VARIABLES
    rules,      \* of the venue
    history,    \* external: the books the exchange has had
    socket,     \* the connection, with the messages not read yet
    mail,       \* the websocket messages in the listener's mailbox
    listener,   \* phase, book, last number, deltas held back, crossings;
                \* "missed" (not in the code): it has passed over a change
    follower,   \* a client: whether its sequence numbers follow, its book
    faults

vars == <<rules, history, socket, mail, listener, follower, faults>>

Market  == Len(history) - 1
Book(k) == history[k + 1]
Crossed(book) == \A s \in Sides : book[s] # 0

Update(book, levels) == [s \in Levels |-> IF levels[s] = None THEN book[s] ELSE levels[s]]

\* What message k sets.
Content(k) ==
    IF rules.onMessage.body = "book" THEN Book(k)
    ELSE [s \in Levels |-> IF Book(k)[s] = Book(k - 1)[s] THEN None ELSE Book(k)[s]]

Message(kind, k, n) == [kind |-> kind, k |-> k, n |-> n, foreign |-> FALSE]

IsMessage(m) ==
    /\ m.kind \in {"book", "change", "trade", "pong"}
    /\ m.k \in 0..MaxChanges /\ m.n \in Nat /\ m.foreign \in BOOLEAN

TypeOK ==
    /\ \A i \in 1..Len(history) : history[i] \in Books
    /\ socket.up \in BOOLEAN /\ socket.booked \in BOOLEAN /\ socket.sent \in Nat
    /\ \A i \in 1..Len(socket.q) : IsMessage(socket.q[i]) /\ ~socket.q[i].foreign
    /\ \A i \in 1..Len(mail) : IsMessage(mail[i])
    /\ listener.phase \in {"connect", "snapshot", "align", "running", "failed"}
    /\ listener.book \in Books /\ listener.last \in Nat
    /\ listener.held \in [Levels -> 0..MaxChanges \cup {None}]
    /\ listener.crossings \in 0..Patience /\ listener.missed \in BOOLEAN
    /\ follower.follows \in BOOLEAN /\ follower.book \in Books
    /\ faults \in 0..MaxFaults

NoSocket == [up |-> FALSE, booked |-> FALSE, sent |-> 0, q |-> <<>>]

Init ==
    /\ rules \in {Venue[v] : v \in Names}
    /\ history = <<Empty>>
    /\ socket = NoSocket /\ mail = <<>>
    /\ listener = [phase |-> "connect", book |-> Empty, last |-> 0, held |-> NoLevels,
                   crossings |-> 0, missed |-> FALSE]
    /\ follower = [follows |-> FALSE, book |-> Empty]
    /\ faults = 0

Fault   == faults < MaxFaults /\ faults' = faults + 1
NoFault == faults' = faults
----------------------------------------------------------------------------
(***************************************************************************)
(* External: the exchange and its stream.                                  *)
(***************************************************************************)
InMessages == rules.onMessage.order = "message"
HoldsBack  == rules.onMessage.crossed # "subscribe"

Sent(kind, k) ==
    socket' = [socket EXCEPT !.sent = @ + 1, !.booked = @ \/ kind = "book",
                  !.q = Append(@, Message(kind, k, IF InMessages THEN socket.sent + 1 ELSE k))]

\* The exchange's book is not crossed; where the code expects it, one message
\* crosses it and the next one does not leave it so.
MayBecome(book) ==
    ~Crossed(book) \/ (HoldsBack /\ ~Crossed(Book(Market)) /\ Market + 1 < MaxChanges)

\* Changes are sent once the book has been sent (or is requested); earlier ones
\* are usual where the code expects them.
Change(s) ==
    /\ Market < MaxChanges
    /\ \E v \in {0, Market + 1} :
        LET book == [Book(Market) EXCEPT ![s] = v] IN
        /\ book # Book(Market) /\ MayBecome(book)
        /\ history' = Append(history, book)
    /\ \/ socket.up /\ (socket.booked \/ rules.subscribe.align \in {"search", "buffer"})
          /\ Sent("change", Market + 1) /\ NoFault
       \/ socket.up /\ ~socket.booked /\ rules.subscribe.align \in {"first", "patient"}
          /\ Sent("change", Market + 1) /\ Fault
       \/ ~(socket.up /\ socket.booked) /\ rules.subscribe.align \notin {"search", "buffer"}
          /\ UNCHANGED socket /\ NoFault
       \/ ~socket.up /\ rules.subscribe.align \in {"search", "buffer"}
          /\ UNCHANGED socket /\ NoFault
    /\ UNCHANGED <<rules, mail, listener, follower>>

SendBook ==
    /\ socket.up /\ ~socket.booked /\ Sent("book", Market)
    /\ UNCHANGED <<rules, history, mail, listener, follower>> /\ NoFault

\* Trades, and the answers to pings; once the book was sent they matter only
\* where they are numbered.
SendOther ==
    /\ socket.up /\ (InMessages \/ ~socket.booked)
    /\ Sent("trade", 0) \/ (rules.checkSockets.probe = "ping" /\ Sent("pong", 0))
    /\ Fault
    /\ UNCHANGED <<rules, history, mail, listener, follower>>

\* The stream leaves out a change.  (Not where changes have no numbers, nor where
\* the first change is applied unchecked: nothing in the code could tell.  The
\* loss of the last change would be revealed beyond the bound.)
ChangeLost ==
    /\ rules.onMessage.order # "none"
    /\ ~(listener.phase = "align" /\ rules.subscribe.align = "next")
    /\ \E i \in 1..Len(socket.q) :
        /\ socket.q[i].kind = "change" /\ socket.q[i].k # MaxChanges
        /\ socket' = [socket EXCEPT !.q = RemoveAt(@, i)]
    /\ Fault
    /\ UNCHANGED <<rules, history, mail, listener, follower>>

SocketFails ==
    /\ socket.up /\ socket' = NoSocket /\ Fault
    /\ UNCHANGED <<rules, history, mail, listener, follower>>
----------------------------------------------------------------------------
(***************************************************************************)
(* subscribeInstrument: the actor is blocked, its mailbox waits.           *)
(***************************************************************************)

\* What is in the mailbox comes from an earlier socket now.
Connect ==
    /\ listener.phase = "connect"
    /\ socket' = [NoSocket EXCEPT !.up = TRUE, !.booked = rules.subscribe.source = "rest"]
    /\ mail' = [i \in DOMAIN mail |-> [mail[i] EXCEPT !.foreign = TRUE]]
    /\ listener' = [listener EXCEPT
                      !.phase = IF rules.subscribe.source = "rest" THEN "snapshot" ELSE "align"]
    /\ UNCHANGED <<rules, history, follower>> /\ NoFault

\* The book of message or request k, and a new sequence: followers ask again.
Starts(l, k, n) ==
    [l EXCEPT !.phase = "running", !.book = Book(k), !.last = n, !.missed = FALSE,
              !.held = IF rules.subscribe.clears THEN NoLevels ELSE @]

\* Mutant: the sequence goes on.
LeavesUnnoticed == follower' = follower

Leaves == follower' = [follower EXCEPT !.follows = FALSE]

\* The answer may be a change old, where what follows it is checked.
TakeSnapshot ==
    /\ listener.phase = "snapshot"
    /\ \E k \in 0..Market :
        /\ \/ k = Market /\ NoFault
           \/ k = Market - 1 /\ rules.subscribe.align \in {"exact", "cover"} /\ Fault
        /\ IF rules.subscribe.align = "none"
           THEN listener' = Starts(listener, k, k) /\ Leaves
           ELSE /\ listener' = [listener EXCEPT !.phase = "align", !.book = Book(k), !.last = k]
                /\ UNCHANGED follower
    /\ UNCHANGED <<rules, history, socket, mail>>

Read == socket' = [socket EXCEPT !.q = Tail(@)]

\* One message of the loop that looks for the book in the stream.
AlignStream ==
    /\ listener.phase = "align" /\ rules.subscribe.source = "stream" /\ socket.q # <<>>
    /\ LET m == Head(socket.q)
           align == rules.subscribe.align
       IN  \/ /\ m.kind = "book"
              /\ listener' = Starts(listener, m.k, m.n) /\ Leaves /\ UNCHANGED mail
           \/ /\ m.kind # "book" /\ (align = "first" \/ (align = "patient" /\ m.kind = "change"))
              /\ listener' = [listener EXCEPT !.phase = "failed"] /\ UNCHANGED <<mail, follower>>
           \/ /\ m.kind # "book" /\ (align \in {"search", "buffer"} \/ (align = "patient" /\ m.kind # "change"))
              /\ mail' = IF align = "buffer" THEN Append(mail, m) ELSE mail
              /\ UNCHANGED <<listener, follower>>
    /\ Read
    /\ UNCHANGED <<rules, history>> /\ NoFault

Later(k) == Starts(listener, k, k)

\* One message of the loop that looks for the change that follows the book.
AlignRest ==
    /\ listener.phase = "align" /\ rules.subscribe.source = "rest" /\ socket.q # <<>>
    /\ LET m == Head(socket.q)
           align == rules.subscribe.align
           skips == m.kind # "change" \/ m.k < listener.last \/ (m.k = listener.last /\ align # "exact")
       IN  \/ skips /\ Read /\ UNCHANGED <<listener, follower>>
           \/ /\ ~skips /\ align = "exact" /\ m.k = listener.last
              /\ listener' = Later(m.k) /\ Leaves /\ Read
           \/ /\ ~skips /\ align = "exact" /\ m.k > listener.last
              /\ listener' = [listener EXCEPT !.phase = "failed"] /\ Read /\ UNCHANGED follower
           \/ /\ ~skips /\ align = "cover" /\ m.k > listener.last + 1
              /\ listener' = [listener EXCEPT !.phase = "snapshot"] /\ UNCHANGED <<socket, follower>>
           \/ /\ ~skips /\ (align = "next" \/ (align = "cover" /\ m.k = listener.last + 1))
              /\ listener' = [Later(m.k) EXCEPT !.book = Update(listener.book, Content(m.k))]
              /\ Leaves /\ Read
    /\ UNCHANGED <<rules, history, mail>> /\ NoFault

\* The change it waits for lies beyond the bound; it shows that an older book
\* does not reach it.
AlignAtBound ==
    /\ listener.phase = "align" /\ rules.subscribe.source = "rest"
    /\ socket.up /\ socket.q = <<>> /\ Market = MaxChanges
    /\ \/ listener.last = Market /\ listener' = Later(Market) /\ Leaves
       \/ /\ listener.last < Market
          /\ listener' = [listener EXCEPT
                !.phase = IF rules.subscribe.align = "cover" THEN "snapshot" ELSE "failed"]
          /\ UNCHANGED follower
    /\ UNCHANGED <<rules, history, socket, mail>> /\ NoFault

\* The socket or the request fails; the actor panics and is restarted.
SubscribeFails ==
    /\ listener.phase \in {"connect", "snapshot", "align"}
    /\ IF listener.phase = "align" /\ ~socket.up THEN NoFault ELSE Fault
    /\ listener' = [listener EXCEPT !.phase = "failed"]
    /\ UNCHANGED <<rules, history, socket, mail, follower>>

\* Clean and Initialize: the instrument's data are made anew, the mailbox stays.
Restart ==
    /\ listener.phase = "failed"
    /\ listener' = [listener EXCEPT !.phase = "connect", !.held = NoLevels, !.crossings = 0]
    /\ socket' = NoSocket
    /\ UNCHANGED <<rules, history, mail, follower>> /\ NoFault
----------------------------------------------------------------------------
(***************************************************************************)
(* The listener runs.                                                      *)
(***************************************************************************)
ReadMessage ==
    /\ listener.phase = "running" /\ socket.q # <<>>
    /\ mail' = Append(mail, Head(socket.q)) /\ Read
    /\ UNCHANGED <<rules, history, listener, follower>> /\ NoFault

Subscribe == listener' = [listener EXCEPT !.phase = "connect"] /\ UNCHANGED <<socket, follower>>

OnGap ==
    \/ rules.onMessage.gap = "subscribe" /\ Subscribe
    \/ /\ rules.onMessage.gap = "fail"
       /\ listener' = [listener EXCEPT !.phase = "failed"] /\ UNCHANGED <<socket, follower>>
    \/ /\ rules.onMessage.gap = "disconnect"
       /\ socket' = NoSocket /\ UNCHANGED <<listener, follower>>

\* Refreshes go to the followers through the manager (module MarketData).
Post(levels) ==
    follower' = IF follower.follows THEN [follower EXCEPT !.book = Update(@, levels)] ELSE follower

\* Mutant: a change is taken for the whole book.
AppliedWhole(m) ==
    [listener EXCEPT !.book = Content(m.k), !.held = Update(@, Content(m.k)), !.last = m.n]

\* Unnumbered, a change of an earlier socket passes for one of this socket; a
\* later message with every level makes up for it.
Applied(m) ==
    LET levels == Content(m.k) IN
    [listener EXCEPT !.book = Update(@, levels), !.held = Update(@, levels), !.last = m.n,
        !.missed = IF rules.onMessage.order = "none" /\ m.foreign /\ rules.onMessage.foreign = "taken" THEN TRUE
                   ELSE @ /\ rules.onMessage.body = "change"]

Creates(m) == \E s \in Levels : Content(m.k)[s] > 0

Apply(m) ==
    LET l == Applied(m)
        crossed == rules.onMessage.crossed
    IN  IF crossed = "create" /\ Crossed(listener.book) /\ Creates(m) THEN Subscribe
        ELSE IF ~Crossed(l.book)
        THEN /\ listener' = [l EXCEPT !.held = NoLevels, !.crossings = 0]
             /\ Post(l.held) /\ UNCHANGED socket
        ELSE IF crossed = "subscribe" THEN Subscribe
        ELSE IF crossed = "patience" /\ l.crossings = Patience
        THEN listener' = [l EXCEPT !.phase = "connect"] /\ UNCHANGED <<socket, follower>>
        ELSE /\ listener' = [l EXCEPT !.crossings = IF crossed = "patience" THEN @ + 1 ELSE @]
             /\ UNCHANGED <<socket, follower>>

Ignore == UNCHANGED <<listener, socket, follower>>

OnChange(m) ==
    LET on == rules.onMessage IN
    IF on.order = "none" THEN Apply(m)
    ELSE IF m.n <= listener.last /\ on.old = "skipped" THEN Ignore
    ELSE IF m.n # listener.last + 1 THEN OnGap
    ELSE Apply(m)

\* Where every message is numbered a trade is one of them, and the answer to a
\* ping sets the number whatever it is.
OnOther(m) ==
    IF ~InMessages THEN Ignore
    ELSE IF m.kind = "trade" /\ m.n # listener.last + 1 THEN OnGap
    ELSE /\ listener' = [listener EXCEPT !.last = m.n, !.missed = @ \/ m.n # listener.last + 1]
         /\ UNCHANGED <<socket, follower>>

\* Mutant: nobody looks which socket a message is of.
OnWebsocketMessageOfAny ==
    /\ listener.phase = "running" /\ mail # <<>> /\ mail' = Tail(mail)
    /\ LET m == Head(mail) IN
       IF m.kind = "change" \/ (m.kind = "book" /\ rules.onMessage.body = "book") THEN OnChange(m)
       ELSE IF m.kind = "book" THEN Ignore
       ELSE OnOther(m)
    /\ UNCHANGED <<rules, history>> /\ NoFault

OnWebsocketMessage ==
    /\ listener.phase = "running" /\ mail # <<>> /\ mail' = Tail(mail)
    /\ LET m == Head(mail) IN
       IF m.foreign /\ rules.onMessage.foreign = "skipped" THEN Ignore
       ELSE IF m.kind = "change" \/ (m.kind = "book" /\ rules.onMessage.body = "book") THEN OnChange(m)
       ELSE IF m.kind = "book" THEN Ignore
       ELSE OnOther(m)
    /\ UNCHANGED <<rules, history>> /\ NoFault

\* Mutant: the check of a failed socket only sends a heartbeat.
CheckSocketsIdle ==
    /\ listener.phase = "running" /\ ~socket.up
    /\ UNCHANGED <<rules, history, mail, listener, socket, follower>> /\ NoFault

CheckSockets ==
    /\ listener.phase = "running"
    /\ \/ ~socket.up /\ NoFault
       \/ socket.up /\ rules.checkSockets.probe = "list" /\ Fault
    /\ Subscribe
    /\ UNCHANGED <<rules, history, mail>>

\* A follower that finds a gap in the sequence, or a new one, asks for the book;
\* a listener that holds deltas back refuses while the book is crossed.
OnMarketDataRequest ==
    /\ listener.phase = "running" /\ ~follower.follows
    /\ ~(HoldsBack /\ Crossed(listener.book))
    /\ follower' = [follows |-> TRUE, book |-> listener.book]
    /\ UNCHANGED <<rules, history, socket, mail, listener>> /\ NoFault

Next ==
    \/ \E s \in Levels : Change(s)
    \/ SendBook \/ SendOther \/ ChangeLost \/ SocketFails
    \/ Connect \/ TakeSnapshot \/ AlignStream \/ AlignRest \/ AlignAtBound
    \/ SubscribeFails \/ Restart
    \/ ReadMessage \/ OnWebsocketMessage \/ CheckSockets \/ OnMarketDataRequest

Spec == Init /\ [][Next]_vars

\* The exchange sends and trades on, the actor system delivers and restarts, the
\* check of the sockets is a timer, a follower's refreshes or heartbeats tell it.
Fairness ==
    /\ WF_vars(\E s \in Levels : Change(s)) /\ WF_vars(SendBook)
    /\ WF_vars(Connect) /\ WF_vars(TakeSnapshot) /\ WF_vars(AlignStream)
    /\ WF_vars(AlignRest) /\ WF_vars(AlignAtBound) /\ WF_vars(Restart)
    /\ WF_vars(listener.phase = "align" /\ ~socket.up /\ SubscribeFails)
    /\ WF_vars(ReadMessage) /\ WF_vars(OnWebsocketMessage) /\ WF_vars(~socket.up /\ CheckSockets)
    /\ WF_vars(OnMarketDataRequest)

FairSpec == Spec /\ Fairness
----------------------------------------------------------------------------
(***************************************************************************)
(* Properties.                                                             *)
(***************************************************************************)
Running == listener.phase = "running"

\* Everything is read, the last change too (which is not lost).
UpToDate ==
    /\ Running /\ ~listener.missed /\ Market = MaxChanges
    /\ socket.up /\ socket.q = <<>> /\ mail = <<>>

\* A listener that has read and applied everything has the exchange's book:
\* whatever was lost, failed or left over from earlier sockets has been noticed.
\* (Not if it has taken a message of an earlier socket for one of this socket,
\* or skipped a number with the answer to a ping: "missed".)  Where the changes are
\* numbered, the book is at every moment the one the exchange had at the last
\* number, also while messages are under way.
BookSound ==
    /\ UpToDate => listener.book = Book(Market)
    /\ Running /\ rules.onMessage.order = "change" => listener.book = Book(listener.last)

\* A follower in sequence has the listener's book, deltas held back aside.
FollowerAgrees ==
    Running /\ follower.follows => listener.book = Update(follower.book, listener.held)

\* exchanges/tests/utils.go: "crossed OB" fails the test of a venue's listener.
FollowerNotCrossed == follower.follows => ~Crossed(follower.book)

\* What followers are told of the listener's book, where deltas held back do not
\* outlive the book they belong to.
FollowerSound == rules.subscribe.clears => FollowerAgrees /\ FollowerNotCrossed

\* In the end the listener runs with the exchange's book, and so does the follower.
CatchesUp ==
    <>[](Running /\ (listener.missed \/ (/\ listener.book = Book(Market) /\ follower.follows
                                         /\ rules.subscribe.clears => follower.book = listener.book)))
=============================================================================
