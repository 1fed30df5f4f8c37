---------------------------- MODULE MCFpmMaster ----------------------------
(* Small instances of FpmMaster.                                            *)
EXTENDS FpmMaster, TLC

CONSTANTS A, B, c1, c2, c3, c4

PidSymmetry == Permutations(Pids)

One == A :> 1
Two == A :> 2
Three == A :> 3
Zero == A :> 0

(* One pool of each style. *)
Static == A :> "static"
Dynamic == A :> "dynamic"
OnDemand == A :> "ondemand"

(* A static and an on-demand pool. *)
MixedPm == A :> "static" @@ B :> "ondemand"
MixedMax == A :> 1 @@ B :> 2
MixedNone == A :> 0 @@ B :> 0
============================================================================
