----------------------------- MODULE MarketFeed -----------------------------
(***************************************************************************)
(* What a subscription to market data promises (utils/md_receiver.go with  *)
(* everything behind it): a client has the order book the exchange had at  *)
(* some moment, and from there on every change, once and in order.  A new  *)
(* snapshot may replace the book at any time, never by an older one.       *)
(*                                                                         *)
(* The book is the number of changes that made it.                         *)
(***************************************************************************)
EXTENDS Integers

CONSTANTS
    Clients,
    MaxUpdates      \* bound on the changes of the exchange's book

NoBook == -1

VARIABLES market, view

Init == market = 0 /\ view = [c \in Clients |-> NoBook]

Change == market < MaxUpdates /\ market' = market + 1 /\ view' = view

Snapshot(c) ==
    /\ \E k \in 0..market : view[c] <= k /\ view' = [view EXCEPT ![c] = k]
    /\ market' = market

Update(c) ==
    /\ view[c] # NoBook /\ view[c] < market
    /\ view' = [view EXCEPT ![c] = @ + 1]
    /\ market' = market

Next == Change \/ \E c \in Clients : Snapshot(c) \/ Update(c)

Spec == Init /\ [][Next]_<<market, view>>
=============================================================================
