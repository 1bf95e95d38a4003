---------------------------- MODULE MCVenueBook ----------------------------
(* Small instances of VenueBook. *)
EXTENDS VenueBook

\* Bid and ask are alike in the model, but a run that checks liveness must not use
\* symmetry: instead, the first change is not on the ask side.
CONSTANT ask
FirstAtBid == Len(history) = 1 /\ Len(history') = 2 => history'[2][ask] = 0
=============================================================================
