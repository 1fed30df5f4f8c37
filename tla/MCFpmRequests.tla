-------------------------- MODULE MCFpmRequests --------------------------
(* Model values for FpmRequests. *)
EXTENDS FpmRequests

CONSTANTS p1, p2
============================================================================
