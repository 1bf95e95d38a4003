--------------------------- MODULE MCVenueTrades ---------------------------
(* Small instances of VenueTrades. *)
EXTENDS VenueTrades
=============================================================================
