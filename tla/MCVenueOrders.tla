--------------------------- MODULE MCVenueOrders ---------------------------
(* The listeners of six venues, with small orders and few requests. *)
EXTENDS VenueOrders
MCVenues == {fbinance, binance, bitmex, krakenf, bybitl, dydx}
=============================================================================
