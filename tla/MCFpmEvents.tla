---------------------------- MODULE MCFpmEvents ----------------------------
(* Model values for FpmEvents. *)
EXTENDS FpmEvents

CONSTANTS a1, a2, p1, p2, p3
============================================================================
