---------------------------- MODULE FpmService -----------------------------
(***************************************************************************)
(* What an operator of php-fpm relies on, without signals, lists, timers   *)
(* or the event loop: which phase the service is in and which worker       *)
(* processes exist.  FpmMaster is shown to implement it.                   *)
(*                                                                         *)
(*  - Workers are started in phase NORMAL only.                            *)
(*  - A request to stop can make the end faster, never slower, and is      *)
(*    never forgotten while workers remain.                                *)
(*  - The service leaves a phase of ending at the moment its last worker   *)
(*    is reaped: not earlier, and it does not stay with nobody to wait for.*)
(*  - Only a reload comes back, and it comes back without workers.         *)
(***************************************************************************)

CONSTANT Pids

VARIABLES
  phase,    \* see Phases
  workers   \* the worker processes that exist, until they are reaped

Ending == {"RELOADING", "FINISHING", "TERMINATING"}
Phases == {"NORMAL", "RESTARTING", "STOPPED"} \cup Ending

(* The phases that may follow on request. *)
Stronger ==
  [NORMAL      |-> Ending,
   RELOADING   |-> {"FINISHING", "TERMINATING"},
   FINISHING   |-> {"TERMINATING"},
   TERMINATING |-> {},
   RESTARTING  |-> {},
   STOPPED     |-> {}]

AtMostOne(W) == \A q, r \in W : q = r

Init == phase = "NORMAL" /\ workers = {}

(* Workers are started, die and are replaced. *)
Manage ==
  /\ phase = "NORMAL" /\ phase' = "NORMAL"
  /\ workers' \subseteq Pids

(* The service begins to end: the workers there are remain. *)
Begin ==
  /\ phase = "NORMAL" /\ phase' \in Ending
  /\ workers' \subseteq Pids /\ workers' # {}

(* A stronger request replaces the one being served. *)
Hasten ==
  /\ phase \in Ending /\ phase' \in Stronger[phase]
  /\ workers' = workers /\ workers # {}

(* A worker that is not the last one is reaped, and not replaced. *)
Reap ==
  /\ phase \in Ending /\ phase' = phase
  /\ \E q \in workers : workers' = workers \ {q}
  /\ workers' # {}

(* Nobody is left: the new image is executed, or the service stops.  When the *)
(* new image cannot be executed, a reload stops the service too.              *)
Leave ==
  /\ phase \in {"NORMAL"} \cup Ending /\ AtMostOne(workers)
  /\ phase' \in IF phase \in {"NORMAL", "RELOADING"} THEN {"RESTARTING", "STOPPED"}
                ELSE {"STOPPED"}
  /\ workers' = {}

(* The new image is up, or cannot start. *)
Return ==
  /\ phase = "RESTARTING" /\ phase' \in {"NORMAL", "STOPPED"}
  /\ workers = {} /\ workers' = {}

Next == Manage \/ Begin \/ Hasten \/ Reap \/ Leave \/ Return

Spec == Init /\ [][Next]_<<phase, workers>>
============================================================================
