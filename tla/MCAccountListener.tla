-------------------------- MODULE MCAccountListener --------------------------
(* Small instances of AccountListener: all of them with one order. *)
EXTENDS AccountListener
=============================================================================
