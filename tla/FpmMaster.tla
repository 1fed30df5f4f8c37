----------------------------- MODULE FpmMaster -----------------------------
(***************************************************************************)
(* The php-fpm master process and the worker processes it controls:       *)
(* signals to the master and their self-pipe, the process-control state    *)
(* machine and its escalation timer, forking, idle maintenance, the        *)
(* on-demand accept event, burying dead children, and reload by exec.      *)
(*                                                                         *)
(* Sources (under sapi/fpm/fpm): fpm_process_ctl.c, fpm_children.c,        *)
(* fpm_events.c, fpm_signals.c, fpm.c, fpm_request.c, fastcgi.c and        *)
(* fpm_main.c for the steps of a worker, fpm_conf.c for the assumptions.   *)
(*                                                                         *)
(* A handler of the master runs to completion in one step, except where    *)
(* another process can act in between and change the outcome: the waitpid  *)
(* loop (master = "bury") and the gap between choosing an idle child and   *)
(* signalling it (master = "kill").  Time is abstracted: an armed timer    *)
(* may fire at any moment.                                                 *)
(***************************************************************************)
EXTENDS Integers, Sequences, FiniteSets

CONSTANTS
  Pools,          \* the worker pools
  Pids,           \* process ids the kernel may hand out
  None,           \* "no process"
  Pm,             \* pool -> "static" | "dynamic" | "ondemand"
  PmMaxChildren,  \* pool -> pm.max_children
  PmStartServers, \* pool -> pm.start_servers   (dynamic)
  PmMinSpare,     \* pool -> pm.min_spare_servers (dynamic)
  PmMaxSpare,     \* pool -> pm.max_spare_servers (dynamic)
  ProcessMax,     \* process.max, 0 for no limit
  EmergencyRestart, \* are emergency_restart_threshold and _interval set?
  ExtSignals,     \* the signals an operator sends to the master
  MaxSignals,     \* bound: how many of them
  MaxFaults,      \* bound: crashes and failed initialisations of children
  MaxForkFails,   \* bound: failures of fork() or of preparing a child
  MaxBacklog,     \* bound: connections waiting on a listening socket
  MaxSp           \* bound: bytes in the signal socketpair

Styles == {"static", "dynamic", "ondemand"}
Signals == {"INT", "TERM", "QUIT", "USR1", "USR2", "CHLD"}

(* What fpm_conf_process_all_pools accepts. *)
ASSUME ConfAssumption ==
  /\ Pm \in [Pools -> Styles]
  /\ PmMaxChildren \in [Pools -> Nat]
  /\ PmStartServers \in [Pools -> Nat]
  /\ PmMinSpare \in [Pools -> Nat]
  /\ PmMaxSpare \in [Pools -> Nat]
  /\ \A p \in Pools :
       /\ PmMaxChildren[p] >= 1
       /\ Pm[p] = "dynamic" =>
            /\ 1 <= PmMinSpare[p]
            /\ PmMinSpare[p] <= PmStartServers[p]
            /\ PmStartServers[p] <= PmMaxSpare[p]
            /\ PmMaxSpare[p] <= PmMaxChildren[p]
  /\ ProcessMax \in Nat

ASSUME ModelAssumption ==
  /\ IsFiniteSet(Pids)
  /\ None \notin Pids
  /\ EmergencyRestart \in BOOLEAN
  /\ ExtSignals \subseteq Signals \ {"CHLD"}
  /\ MaxSignals \in Nat /\ MaxFaults \in Nat
  /\ MaxForkFails \in Nat /\ MaxBacklog \in Nat
  /\ MaxSp \in Nat \ {0}

FPM_MAX_SPAWN_RATE == 32

VARIABLES
  master,          \* where the master is, see MasterStates
  todo,            \* pools whose initial children are not created yet
  victim,          \* idle child about to be sent SIGQUIT, or None
  fpm_state,       \* process-control state
  fpm_signal_sent, \* last signal sent to all children, "0" if none
  timers,          \* {"pctl_event"} when it is in fpm_event_queue_timer
  pending,         \* signals generated for the master, not yet delivered
  sp,              \* bytes in the signal socketpair, one per signal
  in_shutdown,     \* the flag of fastcgi.c in the master, inherited by children
  children,        \* pool -> its list of children
  older,           \* child -> children of its pool linked before it
  idle_kill,       \* children whose idle_kill flag is set
  idle_spawn_rate, \* pool -> spawn rate of the idle maintenance
  proc,            \* pid -> state of the process
  stage,           \* child -> request stage in its scoreboard slot
  quitting,        \* workers whose in_shutdown flag sig_soft_quit has set
  backlog,         \* pool -> connections waiting on the listening socket
  edge,            \* pool -> edge-triggered event ready (ondemand)
  sigs, faults, forkfails  \* what the environment may still do

masterVars == <<master, todo, victim, in_shutdown>>
pctlVars == <<fpm_state, fpm_signal_sent, timers>>
poolVars == <<children, older, idle_kill, idle_spawn_rate>>
procVars == <<proc, stage, quitting>>
sockVars == <<backlog, edge>>
envVars == <<sigs, faults, forkfails>>
vars == <<masterVars, pctlVars, pending, sp, poolVars, procVars, sockVars, envVars>>

(* "exec" and "boot": a freshly exec'ed image before fcgi_init, and after it  *)
(* but before fpm_signals_init_main; "start": fpm_run; "loop", "bury", "kill": *)
(* the event loop, inside fpm_children_bury, inside the idle maintenance.      *)
MasterStates == {"exec", "boot", "start", "loop", "bury", "kill", "exited", "killed"}
Catching == {"start", "loop", "bury", "kill"}
Gone == {"exited", "killed"}
States == {"NORMAL", "RELOADING", "FINISHING", "TERMINATING"}
Dead == {"exited", "termed", "killed", "faulted"}
Heeding == {"ready", "run"}     \* fpm_signals_init_child has been executed
Living == {"init"} \cup Heeding
ProcStates == {"none"} \cup Living \cup Dead

AllOf(cs) == UNION {cs[p] : p \in Pools}
Linked == AllOf(children)
PoolOf(q) == CHOOSE p \in Pools : q \in children[p]
Zombie(q) == proc[q] \in Dead
Smallest(a, b) == IF a <= b THEN a ELSE b
Positive(a) == IF a <= 0 THEN 0 ELSE a

----------------------------------------------------------------------------
(* Process control. *)

(* fpm_pctl_action_last: every child is gone; exec the new image (execvp may *)
(* fail, and then the master exits) or exit. *)
fpm_pctl_action_last(st) ==
  master' \in IF st = "RELOADING" THEN {"exec", "exited"} ELSE {"exited"}

(* Mutant: the counter of one pool is taken for the one of all pools. *)
MutNoChild(cs) == \E p \in Pools : cs[p] = {}

(* fpm_globals.running_children = 0 *)
NoChild(cs) == AllOf(cs) = {}

(* Mutants: a graceful stop begins with SIGTERM; SIGKILL is never used. *)
MutNextSignalHasty(st, sent) ==
  IF sent = "0" THEN "TERM" ELSE "KILL"
MutNextSignalMild(st, sent) ==
  IF sent = "0" /\ st # "TERMINATING" THEN "QUIT" ELSE "TERM"

NextSignal(st, sent) ==
  IF sent = "0" THEN (IF st = "TERMINATING" THEN "TERM" ELSE "QUIT")
  ELSE IF sent = "QUIT" THEN "TERM" ELSE "KILL"

(* The state of process q after kill(q, sig).  Until fpm_signals_init_child a *)
(* child has the master's sig_handler, which returns at once in a child.      *)
Signalled(pr, q, sig) ==
  IF sig = "KILL" /\ pr[q] \in Living THEN "killed"
  ELSE IF sig = "TERM" /\ pr[q] \in Heeding THEN "termed"
  ELSE pr[q]

fpm_pctl_kill_all(cs, pr, sig) ==
  LET after == [q \in Pids |-> IF q \in AllOf(cs) THEN Signalled(pr, q, sig) ELSE pr[q]]
  IN  /\ proc' = after
      /\ quitting' = (quitting \cap AllOf(cs)) \cup
                     {q \in AllOf(cs) : sig = "QUIT" /\ pr[q] \in Heeding}
      /\ pending' = IF after = pr THEN pending ELSE pending \cup {"CHLD"}

(* fpm_event_queue_add does nothing for an event already in the queue. *)
fpm_event_queue_add(q) == q \cup {"pctl_event"}

(* The event loop first fires a timer that is due, then unlinks it. *)
fpm_event_trigger(q) == fpm_event_queue_add(q) \ {"pctl_event"}

(* fpm_pctl_action_next in state st, after signal sent, with children cs and  *)
(* processes pr; the master goes on in `back' with timer queue tq.            *)
fpm_pctl_action_next(st, sent, cs, pr, back, tq) ==
  /\ fpm_state' = st
  /\ IF NoChild(cs)
     THEN /\ fpm_pctl_action_last(st)
          /\ fpm_signal_sent' = sent
          /\ proc' = pr
          /\ quitting' = {}
          /\ UNCHANGED <<timers, pending>>
     ELSE /\ master' = back
          /\ fpm_signal_sent' = NextSignal(st, sent)
          /\ fpm_pctl_kill_all(cs, pr, NextSignal(st, sent))
          /\ timers' = tq

CanOverride(st, new) ==
  \/ st = "NORMAL" /\ new # "NORMAL"
  \/ st = "RELOADING" /\ new \in {"FINISHING", "TERMINATING"}
  \/ st = "FINISHING" /\ new = "TERMINATING"

(* fpm_pctl(new, FPM_PCTL_ACTION_SET) *)
fpm_pctl_set(new, cs, pr, back) ==
  IF CanOverride(fpm_state, new)
  THEN fpm_pctl_action_next(new, "0", cs, pr, back, fpm_event_queue_add(timers))
  ELSE /\ master' = back
       /\ proc' = pr
       /\ UNCHANGED <<pctlVars, quitting, pending>>

----------------------------------------------------------------------------
(* Forking. *)

(* Mutants: process.max is not looked at; the loop runs once too often; it    *)
(* forks in every state.                                                      *)
MutMissingNoMax(p, cs, max) ==
  IF fpm_state # "NORMAL" THEN 0 ELSE Positive(max - Cardinality(cs[p]))
MutMissingOneMore(p, cs, max) ==
  IF fpm_state # "NORMAL" THEN 0 ELSE Positive(max + 1 - Cardinality(cs[p]))

MutMissingAnyState(p, cs, max) ==
  LET room == max - Cardinality(cs[p])
      free == ProcessMax - Cardinality(AllOf(cs))
  IN  Positive(IF ProcessMax < 1 THEN room ELSE Smallest(room, free))

(* How many children the loop of fpm_children_make still has to fork for the *)
(* pool to have max of them.                                                 *)
Missing(p, cs, max) ==
  LET room == max - Cardinality(cs[p])
      free == ProcessMax - Cardinality(AllOf(cs))
  IN  IF fpm_state # "NORMAL" THEN 0
      ELSE Positive(IF ProcessMax < 1 THEN room ELSE Smallest(room, free))

(* Mutant: a static pool replaces a dead child one for one. *)
MutSpawnTarget(p, cs, n) == Cardinality(cs[p]) + n

(* The limit fpm_children_make works towards in the event loop. *)
SpawnTarget(p, cs, n) ==
  IF Pm[p] = "static" THEN PmMaxChildren[p] ELSE Cardinality(cs[p]) + n

(* The limit fpm_children_make works towards at startup. *)
StartTarget(p) ==
  CASE Pm[p] = "static" -> PmMaxChildren[p]
    [] Pm[p] = "dynamic" -> PmStartServers[p]
    [] Pm[p] = "ondemand" -> 0

(* Mutant: a new child is not linked. *)
MutForkUnlinked(p, new, cs, pr) ==
  /\ new \subseteq {q \in Pids : pr[q] = "none"}
  /\ children' = cs
  /\ proc' = [q \in Pids |-> IF q \in new THEN "init" ELSE pr[q]]
  /\ UNCHANGED <<older, idle_kill, quitting>>

(* The new processes are linked; each takes its scoreboard slot as it was     *)
(* left.  A record of a child that is no longer linked is freed.              *)
Fork(p, new, cs, pr) ==
  /\ new \subseteq {q \in Pids : pr[q] = "none"}
  /\ children' = [cs EXCEPT ![p] = @ \cup new]
  /\ proc' = [q \in Pids |-> IF q \in new THEN "init" ELSE pr[q]]
  /\ older' = [q \in Pids |-> IF q \in new THEN cs[p] ELSE older[q] \cap AllOf(cs)]
  /\ idle_kill' = idle_kill \cap AllOf(cs)
  /\ quitting' = quitting \cap AllOf(cs)

(* fpm_children_make: fork all the missing children, or stop early because    *)
(* fpm_resources_prepare or fork failed.                                      *)
MakeAll(p, cs, pr, max) ==
  /\ \E new \in SUBSET Pids :
       Cardinality(new) = Missing(p, cs, max) /\ Fork(p, new, cs, pr)
  /\ UNCHANGED forkfails

MakeFails(p, cs, pr, max) ==
  /\ forkfails > 0
  /\ forkfails' = forkfails - 1
  /\ \E new \in SUBSET Pids :
       Cardinality(new) < Missing(p, cs, max) /\ Fork(p, new, cs, pr)

fpm_children_make(p, cs, pr, max) ==
  MakeAll(p, cs, pr, max) \/ MakeFails(p, cs, pr, max)

----------------------------------------------------------------------------
(* Start, reload and the signals of the master. *)

(* fpm_children_create_initial for one pool of fpm_run; adding the listening  *)
(* socket of an on-demand pool to epoll reports it if it is readable.         *)
StartPool(p) ==
  /\ master = "start" /\ p \in todo
  /\ todo' = todo \ {p}
  /\ MakeAll(p, children, proc, StartTarget(p))
  /\ edge' = [edge EXCEPT ![p] = Pm[p] = "ondemand" /\ backlog[p] > 0]
  /\ UNCHANGED <<master, victim, in_shutdown, pctlVars, pending, sp, idle_spawn_rate,
                 stage, backlog, sigs, faults>>

(* A failure there makes fpm_run terminate FPM: fpm_pctl(TERMINATING), then   *)
(* the event loop, from which fpm_run never returns to the other pools.  The  *)
(* children forked so far are signalled at once.                              *)
StartPoolFails(p) ==
  /\ master = "start" /\ p \in todo /\ forkfails > 0
  /\ forkfails' = forkfails - 1
  /\ \E new \in SUBSET {q \in Pids : proc[q] = "none"} :
       LET cs == [children EXCEPT ![p] = @ \cup new]
           pr == [q \in Pids |-> IF q \in new THEN "init" ELSE proc[q]]
       IN  /\ Cardinality(new) < Missing(p, children, StartTarget(p))
           /\ children' = cs
           /\ older' = [q \in Pids |-> IF q \in new THEN children[p] ELSE older[q]]
           /\ fpm_pctl_set("TERMINATING", cs, pr, "loop")
  /\ UNCHANGED <<todo, victim, in_shutdown, sp, idle_kill, idle_spawn_rate, stage,
                 sockVars, sigs, faults>>

(* All pools are started: fpm_event_loop. *)
EnterLoop ==
  /\ master = "start" /\ todo = {}
  /\ master' = "loop"
  /\ UNCHANGED <<todo, victim, in_shutdown, pctlVars, pending, sp, poolVars, procVars,
                 sockVars, envVars>>

(* main() of the exec'ed image up to fcgi_init. *)
FcgiInit ==
  /\ master = "exec"
  /\ master' = "boot"
  /\ in_shutdown' = FALSE
  /\ UNCHANGED <<todo, victim, pctlVars, pending, sp, poolVars, procVars, sockVars, envVars>>

(* fpm_init of the exec'ed image: fresh globals, a fresh socketpair (the old  *)
(* one was close-on-exec) and the master's signal handlers.                   *)
FpmInit ==
  /\ master = "boot"
  /\ master' = "start"
  /\ todo' = Pools
  /\ fpm_state' = "NORMAL" /\ fpm_signal_sent' = "0" /\ timers' = {}
  /\ sp' = <<>>
  /\ idle_spawn_rate' = [p \in Pools |-> 1]
  /\ edge' = [p \in Pools |-> FALSE]
  /\ UNCHANGED <<victim, in_shutdown, pending, children, older, idle_kill, procVars,
                 backlog, envVars>>

(* fpm_init fails, for example on an edited configuration: main() returns.    *)
FpmInitFails ==
  /\ master = "boot"
  /\ master' = "exited"
  /\ UNCHANGED <<todo, victim, in_shutdown, pctlVars, pending, sp, poolVars, procVars,
                 sockVars, envVars>>

(* The kernel delivers a pending signal to the master.  sig_handler writes a  *)
(* byte to the socketpair.  exec has reset all handlers to the default action *)
(* and fcgi_init installs fcgi_signal_handler for SIGTERM and SIGUSR1.        *)
Deliver(s) ==
  /\ s \in pending /\ master \notin Gone
  /\ pending' = pending \ {s}
  /\ \/ /\ master \in Catching /\ Len(sp) < MaxSp
        /\ sp' = Append(sp, s)
        /\ UNCHANGED <<master, in_shutdown>>
     \/ /\ master = "boot" /\ s \in {"TERM", "USR1"}
        /\ in_shutdown' = TRUE
        /\ UNCHANGED <<master, sp>>
     \/ /\ master \in {"exec", "boot"} /\ s = "CHLD"
        /\ UNCHANGED <<master, in_shutdown, sp>>
     \/ /\ master \in {"exec", "boot"} /\ s # "CHLD"
        /\ ~(master = "boot" /\ s \in {"TERM", "USR1"})
        /\ master' = "killed"
        /\ UNCHANGED <<in_shutdown, sp>>
  /\ UNCHANGED <<todo, victim, pctlVars, poolVars, procVars, sockVars, envVars>>

Requested(s) ==
  CASE s \in {"INT", "TERM"} -> "TERMINATING"
    [] s = "QUIT" -> "FINISHING"
    [] s = "USR2" -> "RELOADING"

(* One byte read by fpm_got_signal.  SIGUSR1 only re-opens the logs. *)
fpm_got_signal ==
  /\ master = "loop" /\ sp # <<>>
  /\ sp' = Tail(sp)
  /\ \/ /\ Head(sp) = "CHLD"
        /\ master' = "bury"
        /\ UNCHANGED <<pctlVars, pending, proc, quitting>>
     \/ /\ Head(sp) \in {"INT", "TERM", "QUIT", "USR2"}
        /\ fpm_pctl_set(Requested(Head(sp)), children, proc, "loop")
     \/ /\ Head(sp) = "USR1"
        /\ UNCHANGED <<master, pctlVars, pending, proc, quitting>>
  /\ UNCHANGED <<todo, victim, in_shutdown, poolVars, stage, sockVars, envVars>>

(* The pctl_event timer is due: fpm_pctl_action, then the event is unlinked.  *)
fpm_pctl_action ==
  /\ master = "loop" /\ "pctl_event" \in timers
  /\ fpm_pctl_action_next(fpm_state, fpm_signal_sent, children, proc, "loop",
                          fpm_event_trigger(timers))
  /\ UNCHANGED <<todo, victim, in_shutdown, sp, poolVars, stage, sockVars, envVars>>

----------------------------------------------------------------------------
(* Process management: the maintenance heartbeat and the on-demand event. *)

(* fpm_request_is_idle: what the scoreboard says, whatever the process does.  *)
Idle(p) == {q \in children[p] : stage[q] = "accepting"}

(* Mutant: any idle child may be chosen. *)
MutLastIdle(p) == Idle(p)

(* last_idle_child: the idle child that was started first.                    *)
LastIdle(p) == {q \in Idle(p) : older[q] \cap Idle(p) = {}}

(* Choose an idle child and set its idle_kill flag; SIGQUIT follows.          *)
ChooseVictim(p) ==
  /\ \E q \in LastIdle(p) : victim' = q /\ idle_kill' = idle_kill \cup {q}
  /\ master' = "kill"
  /\ UNCHANGED <<children, older, proc, quitting, forkfails>>

(* Mutant: the rate is reset one too low. *)
MutSetSpawnRate(p, r) == idle_spawn_rate' = [idle_spawn_rate EXCEPT ![p] = r - 1]

SetSpawnRate(p, r) == idle_spawn_rate' = [idle_spawn_rate EXCEPT ![p] = r]

(* Mutant: one child too few. *)
MutToFork(p) ==
  Smallest(idle_spawn_rate[p], PmMinSpare[p] - Cardinality(Idle(p)) - 1)

(* children_to_fork *)
ToFork(p) ==
  Smallest(Smallest(idle_spawn_rate[p], PmMinSpare[p] - Cardinality(Idle(p))),
           PmMaxChildren[p] - Cardinality(children[p]))

(* One pool's turn in fpm_pctl_perform_idle_server_maintenance.  There is no  *)
(* clock: the last idle child of an on-demand pool may at any time be past    *)
(* pm.process_idle_timeout, whether or not a connection waits for it.         *)
Maintenance(p) ==
  /\ master = "loop" /\ fpm_state = "NORMAL"
  /\ \/ /\ Pm[p] = "ondemand" /\ ChooseVictim(p)
        /\ UNCHANGED idle_spawn_rate
     \/ /\ Pm[p] = "dynamic" /\ Cardinality(Idle(p)) > PmMaxSpare[p]
        /\ ChooseVictim(p)
        /\ SetSpawnRate(p, 1)
     \/ /\ Pm[p] = "dynamic" /\ Cardinality(Idle(p)) < PmMinSpare[p]
        /\ Cardinality(children[p]) < PmMaxChildren[p]
        /\ fpm_children_make(p, children, proc, SpawnTarget(p, children, ToFork(p)))
        /\ LET r == idle_spawn_rate[p]
           IN  SetSpawnRate(p, IF r < FPM_MAX_SPAWN_RATE THEN 2 * r ELSE r)
        /\ UNCHANGED <<master, victim>>
     \/ /\ Pm[p] = "dynamic" /\ Cardinality(Idle(p)) <= PmMaxSpare[p]
        /\ \/ Cardinality(Idle(p)) >= PmMinSpare[p]
           \/ Cardinality(children[p]) >= PmMaxChildren[p]
        /\ SetSpawnRate(p, 1)
        /\ UNCHANGED <<master, victim, children, older, idle_kill, proc, quitting, forkfails>>
  /\ UNCHANGED <<todo, in_shutdown, pctlVars, pending, sp, stage, sockVars, sigs, faults>>

(* fpm_pctl_kill(last_idle_child->pid, FPM_PCTL_QUIT) *)
IdleKill ==
  /\ master = "kill"
  /\ master' = "loop" /\ victim' = None
  /\ quitting' = IF proc[victim] \in Heeding THEN quitting \cup {victim} ELSE quitting
  /\ UNCHANGED <<todo, in_shutdown, pctlVars, pending, sp, poolVars, proc, stage,
                 sockVars, envVars>>

(* fpm_pctl_on_socket_accept: the edge is consumed whatever is decided.       *)
fpm_pctl_on_socket_accept(p) ==
  /\ master = "loop" /\ edge[p]
  /\ edge' = [edge EXCEPT ![p] = FALSE]
  /\ \/ /\ \/ Cardinality(children[p]) >= PmMaxChildren[p]
           \/ Idle(p) # {}
        /\ UNCHANGED <<children, older, idle_kill, proc, quitting, forkfails>>
     \/ /\ Cardinality(children[p]) < PmMaxChildren[p]
        /\ Idle(p) = {}
        /\ fpm_children_make(p, children, proc, SpawnTarget(p, children, 1))
  /\ UNCHANGED <<masterVars, pctlVars, pending, sp, idle_spawn_rate, stage, backlog,
                 sigs, faults>>

----------------------------------------------------------------------------
(* Burying the dead. *)

(* Mutant: the slot keeps the request stage of the dead child. *)
MutProcFree(q) == stage

fpm_scoreboard_proc_free(q) == [stage EXCEPT ![q] = "none"]

(* A child that was told to quit by the process management and did exit is    *)
(* not replaced.                                                              *)
RestartChild(q) == ~(q \in idle_kill /\ proc[q] = "exited")

(* One round of the waitpid loop of fpm_children_bury.                        *)
BuryOne(q) ==
  LET p == PoolOf(q)
      cs == [children EXCEPT ![p] = @ \ {q}]
      pr == [proc EXCEPT ![q] = "none"]
      emergency == EmergencyRestart /\ proc[q] = "faulted"
  IN  /\ master = "bury" /\ Zombie(q) /\ q \in Linked
      /\ stage' = fpm_scoreboard_proc_free(q)
      /\ \/ (* fpm_pctl_child_exited: it was the last one *)
            /\ fpm_state # "NORMAL" /\ NoChild(cs)
            /\ fpm_pctl_action_last(fpm_state)
            /\ proc' = pr /\ quitting' = {}
            /\ UNCHANGED <<pctlVars, pending>>
            /\ children' = cs /\ idle_kill' = {}
            /\ older' = [c \in Pids |-> older[c] \ {q}]
            /\ UNCHANGED forkfails
         \/ (* too many SIGSEGV or SIGBUS in the interval *)
            /\ emergency /\ fpm_state = "NORMAL"
            /\ fpm_pctl_set("RELOADING", cs, pr, "bury")
            /\ children' = cs /\ idle_kill' = idle_kill \ {q}
            /\ older' = [c \in Pids |-> older[c] \ {q}]
            /\ UNCHANGED forkfails
         \/ /\ fpm_state = "NORMAL" \/ ~NoChild(cs)
            /\ fpm_children_make(p, cs, pr,
                 IF RestartChild(q) THEN SpawnTarget(p, cs, 1) ELSE Cardinality(cs[p]))
            /\ UNCHANGED <<master, pctlVars, pending>>
      /\ UNCHANGED <<todo, victim, in_shutdown, sp, idle_spawn_rate, sockVars, sigs, faults>>

(* Mutant: waitpid is called once for each SIGCHLD. *)
MutBuryDone ==
  /\ master = "bury"
  /\ master' = "loop"
  /\ UNCHANGED <<todo, victim, in_shutdown, pctlVars, pending, sp, poolVars, procVars,
                 sockVars, envVars>>

(* waitpid finds no more dead children.                                       *)
BuryDone ==
  /\ master = "bury" /\ \A q \in Pids : ~Zombie(q)
  /\ master' = "loop"
  /\ UNCHANGED <<todo, victim, in_shutdown, pctlVars, pending, sp, poolVars, procVars,
                 sockVars, envVars>>

----------------------------------------------------------------------------
(* The workers. *)

Stopping(q) == in_shutdown \/ q \in quitting

Step(q, pr, st) ==
  /\ proc' = [proc EXCEPT ![q] = pr]
  /\ stage' = [stage EXCEPT ![q] = st]
  /\ UNCHANGED <<masterVars, pctlVars, sp, poolVars, quitting, sigs, forkfails>>

(* The process ends and the kernel generates SIGCHLD for the master.          *)
Exit(q, how) ==
  /\ Step(q, how, stage[q])
  /\ pending' = pending \cup {"CHLD"}

(* fpm_child_init up to fpm_signals_init_child, in the forked child.          *)
ChildInit(q) ==
  /\ proc[q] = "init"
  /\ Step(q, "ready", stage[q])
  /\ UNCHANGED <<pending, sockVars, faults>>

(* A failed initialisation: exit(FPM_EXIT_SOFTWARE).                          *)
ChildInitFails(q) ==
  /\ proc[q] \in {"init", "ready"}
  /\ faults > 0 /\ faults' = faults - 1
  /\ Exit(q, "exited")
  /\ UNCHANGED sockVars

(* fcgi_accept_request: leave if in_shutdown, else fpm_request_accepting.     *)
ChildAccepting(q) ==
  /\ proc[q] = "ready"
  /\ \/ Stopping(q) /\ Exit(q, "exited")
     \/ ~Stopping(q) /\ Step(q, "run", "accepting") /\ UNCHANGED pending
  /\ UNCHANGED <<sockVars, faults>>

(* accept() returns a connection: fpm_request_reading_headers, or the         *)
(* connection is closed at once because fcgi_is_allowed refuses the client.   *)
ChildAccept(q) ==
  /\ proc[q] = "run" /\ stage[q] = "accepting" /\ ~Stopping(q)
  /\ backlog[PoolOf(q)] > 0
  /\ backlog' = [backlog EXCEPT ![PoolOf(q)] = @ - 1]
  /\ Step(q, "run", "busy") \/ Step(q, "run", "accepting")
  /\ UNCHANGED <<pending, edge, faults>>

(* sig_soft_quit has replaced the listening socket: accept() fails.           *)
ChildAcceptFails(q) ==
  /\ proc[q] = "run" /\ stage[q] = "accepting" /\ Stopping(q)
  /\ Exit(q, "exited")
  /\ UNCHANGED <<sockVars, faults>>

(* The request is done; the loop of main() comes back to fcgi_accept_request. *)
ChildRequestDone(q) ==
  /\ proc[q] = "run" /\ stage[q] = "busy"
  /\ \/ Stopping(q) /\ Exit(q, "exited")
     \/ ~Stopping(q) /\ Step(q, "run", "accepting") /\ UNCHANGED pending
  /\ UNCHANGED <<sockVars, faults>>

(* The request was number pm.max_requests, or php_request_startup failed.     *)
ChildLastRequest(q) ==
  /\ proc[q] = "run" /\ stage[q] = "busy"
  /\ Exit(q, "exited")
  /\ UNCHANGED <<sockVars, faults>>

(* The request ends in SIGSEGV or SIGBUS.                                     *)
ChildFault(q) ==
  /\ proc[q] = "run" /\ stage[q] = "busy"
  /\ faults > 0 /\ faults' = faults - 1
  /\ Exit(q, "faulted")
  /\ UNCHANGED sockVars

----------------------------------------------------------------------------
(* The environment: clients and the operator. *)

(* The listening socket of an on-demand pool is in the epoll set, for the     *)
(* readable edge, once fpm_children_create_initial has added it.              *)
Watched(p) == Pm[p] = "ondemand" /\ master \in Catching /\ p \notin todo

Connect(p) ==
  /\ master \notin Gone /\ backlog[p] < MaxBacklog
  /\ backlog' = [backlog EXCEPT ![p] = @ + 1]
  /\ edge' = [edge EXCEPT ![p] = Watched(p)]
  /\ UNCHANGED <<masterVars, pctlVars, pending, sp, poolVars, procVars, envVars>>

SendSignal(s) ==
  /\ master \notin Gone /\ sigs > 0
  /\ sigs' = sigs - 1
  /\ pending' = pending \cup {s}
  /\ UNCHANGED <<masterVars, pctlVars, sp, poolVars, procVars, sockVars, faults, forkfails>>

(* FPM has stopped.  Nothing is left to do.                                   *)
Stopped ==
  /\ master \in Gone
  /\ UNCHANGED vars

----------------------------------------------------------------------------
Init ==
  /\ master = "start" /\ todo = Pools /\ victim = None /\ in_shutdown = FALSE
  /\ fpm_state = "NORMAL" /\ fpm_signal_sent = "0" /\ timers = {}
  /\ pending = {} /\ sp = <<>>
  /\ children = [p \in Pools |-> {}]
  /\ older = [q \in Pids |-> {}]
  /\ idle_kill = {}
  /\ idle_spawn_rate = [p \in Pools |-> 1]
  /\ proc = [q \in Pids |-> "none"]
  /\ stage = [q \in Pids |-> "none"]
  /\ quitting = {}
  /\ backlog = [p \in Pools |-> 0]
  /\ edge = [p \in Pools |-> FALSE]
  /\ sigs = MaxSignals /\ faults = MaxFaults /\ forkfails = MaxForkFails

MasterStep ==
  \/ \E p \in Pools : StartPool(p) \/ StartPoolFails(p)
  \/ EnterLoop \/ FcgiInit \/ FpmInit \/ FpmInitFails
  \/ \E s \in Signals : Deliver(s)
  \/ fpm_got_signal \/ fpm_pctl_action
  \/ \E p \in Pools : Maintenance(p) \/ fpm_pctl_on_socket_accept(p)
  \/ IdleKill
  \/ \E q \in Pids : BuryOne(q)
  \/ BuryDone

ChildStep(q) ==
  \/ ChildInit(q) \/ ChildInitFails(q) \/ ChildAccepting(q)
  \/ ChildAccept(q) \/ ChildAcceptFails(q)
  \/ ChildRequestDone(q) \/ ChildLastRequest(q) \/ ChildFault(q)

Environment ==
  \/ \E p \in Pools : Connect(p)
  \/ \E s \in ExtSignals : SendSignal(s)

Next ==
  \/ MasterStep
  \/ \E q \in Pids : ChildStep(q)
  \/ Environment
  \/ Stopped

Spec == Init /\ [][Next]_vars

(* What the scheduling of the processes and of the event loop guarantees.     *)
(* Every iteration of the loop reads the socketpair and visits all events and *)
(* timers (strong fairness: burying in between disables them), a delivered    *)
(* signal finds room in the socketpair again and again, and the waitpid loop  *)
(* is faster than the workers die.  Nothing is assumed of failures, of the    *)
(* environment, or of how long a request takes.                               *)
Boot == (\E p \in Pools : StartPool(p) \/ StartPoolFails(p)) \/ EnterLoop \/ FcgiInit \/ FpmInit
Run(q) == ChildInit(q) \/ ChildAccepting(q) \/ ChildAccept(q) \/ ChildAcceptFails(q)

Fairness ==
  /\ WF_vars(Boot)
  /\ \A s \in ExtSignals \cup {"CHLD"} : SF_vars(Deliver(s))
  /\ SF_vars(fpm_got_signal) /\ SF_vars(fpm_pctl_action)
  /\ WF_vars(IdleKill) /\ SF_vars(BuryDone)
  /\ \A q \in Pids : WF_vars(BuryOne(q)) /\ WF_vars(Run(q))

(* For serving: the heartbeat and the listening sockets are visited too, and  *)
(* scripts end by themselves.                                                 *)
Serving ==
  /\ \A p \in Pools : SF_vars(Maintenance(p)) /\ SF_vars(fpm_pctl_on_socket_accept(p))
  /\ \A q \in Pids : WF_vars(ChildRequestDone(q) \/ ChildLastRequest(q))

FairSpec == Spec /\ Fairness
ServingSpec == FairSpec /\ Serving

----------------------------------------------------------------------------
(* Properties. *)

(* Every variable keeps its type. *)
TypeOK ==
  /\ master \in MasterStates
  /\ todo \subseteq Pools
  /\ victim \in Pids \cup {None}
  /\ in_shutdown \in BOOLEAN
  /\ fpm_state \in States
  /\ fpm_signal_sent \in {"0", "QUIT", "TERM", "KILL"}
  /\ timers \subseteq {"pctl_event"}
  /\ pending \subseteq Signals
  /\ sp \in Seq(Signals)
  /\ children \in [Pools -> SUBSET Pids]
  /\ older \in [Pids -> SUBSET Pids]
  /\ idle_kill \subseteq Pids
  /\ idle_spawn_rate \in [Pools -> Nat \ {0}]
  /\ proc \in [Pids -> ProcStates]
  /\ stage \in [Pids -> {"none", "accepting", "busy"}]
  /\ quitting \subseteq Pids
  /\ backlog \in [Pools -> Nat]
  /\ edge \in [Pools -> BOOLEAN]
  /\ sigs \in Nat /\ faults \in Nat /\ forkfails \in Nat

(* SIGCHLD is not queued: children that die while one is pending share it.    *)
(* Even so, whenever the master is not in the middle of fpm_children_bury and *)
(* some child is dead, another fpm_children_bury is on its way.               *)
ZombieNoticed ==
  (master \in {"start", "loop", "kill"} /\ \E q \in Pids : Zombie(q)) =>
    "CHLD" \in pending \/ \E i \in 1 .. Len(sp) : sp[i] = "CHLD"

(* The master neither exits nor execs a new image, and is not killed while    *)
(* the new image starts, before all its children are gone and reaped.         *)
NoOrphans ==
  master \in {"exec", "boot", "exited", "killed"} => \A q \in Pids : proc[q] = "none"

(* The lists of the pools hold exactly the existing child processes, each in  *)
(* one list.                                                                  *)
ListsExact ==
  /\ Linked = {q \in Pids : proc[q] # "none"}
  /\ \A p1, p2 \in Pools : p1 # p2 => children[p1] \cap children[p2] = {}

(* However deaths, forks, maintenance and reloads interleave, no pool exceeds *)
(* pm.max_children and all pools together do not exceed process.max.          *)
WithinLimits ==
  /\ \A p \in Pools : Cardinality(children[p]) <= PmMaxChildren[p]
  /\ ProcessMax >= 1 => Cardinality(Linked) <= ProcessMax

(* A child whose idle_kill flag is set really quits: it has had its own       *)
(* signal handlers when SIGQUIT was sent.  A child that ignored the signal    *)
(* would serve on and not be replaced when it dies later.                     *)
IdleKillHeeded ==
  \A q \in idle_kill \ {victim} : q \in quitting \/ Zombie(q)

(* php-fpm.conf says of dynamic pools that "there will be always at least 1   *)
(* children": while no fork fails, the idle maintenance never chooses the     *)
(* last child that it can still count on.                                     *)
DynamicKeepsOne ==
  (fpm_state = "NORMAL" /\ master \in {"loop", "kill"} /\ forkfails = MaxForkFails) =>
    \A p \in Pools : Pm[p] = "dynamic" => children[p] \ idle_kill # {}

(* In a graceful stop or reload no child is terminated by SIGTERM before all  *)
(* children were sent SIGQUIT, nor by SIGKILL before SIGTERM.                 *)
Escalation ==
  [][\A q \in Pids : proc'[q] # proc[q] /\ fpm_state' # "NORMAL" =>
        /\ proc'[q] = "termed" =>
             fpm_state' = "TERMINATING" \/ fpm_signal_sent = "QUIT"
        /\ proc'[q] = "killed" => fpm_signal_sent \in {"TERM", "KILL"}]_vars

(* fpm_children_make stops at a failed fork and nothing retries it for a      *)
(* static pool.  The pool stays short until its next dead child is reaped,    *)
(* and then the loop makes up for all the children missing, not only for that *)
(* one, whether or not the kernel gives the pid out again.                    *)
StaticRefilled ==
  [][\A p \in Pools :
       /\ Pm[p] = "static" /\ ProcessMax = 0
       /\ fpm_state = "NORMAL" /\ fpm_state' = "NORMAL"
       /\ \E q \in children[p] : Zombie(q) /\ ~Zombie(q)'
       /\ forkfails' = forkfails
       => Cardinality(children'[p]) = PmMaxChildren[p]]_vars

(* The abstract service: its phase is fpm_state as long as the image that     *)
(* holds it runs, and its workers are the processes that were not reaped yet. *)
Phase ==
  IF master \in Gone THEN "STOPPED"
  ELSE IF master \in {"exec", "boot"} THEN "RESTARTING" ELSE fpm_state
Existing == {q \in Pids : proc[q] # "none"}
Service == INSTANCE FpmService WITH phase <- Phase, workers <- Existing

(* The master implements FpmService: no interleaving of signals, deaths,      *)
(* timers and failed forks starts a worker after a stop or reload began,      *)
(* weakens or forgets a request, leaves workers behind, or leaves the master  *)
(* waiting for workers that do not exist.                                     *)
ImplementsService == Service!Spec

(* A termination, once begun, ends: whatever scripts do and whichever child   *)
(* missed SIGTERM because its handlers were not installed yet.                *)
TerminationEnds == fpm_state = "TERMINATING" ~> master \in Gone

(* Every dead child is reaped. *)
ZombiesReaped == \A q \in Pids : Zombie(q) ~> ~Zombie(q)

(* A waiting connection is accepted as long as FPM is not asked to stop or    *)
(* reload.                                                                    *)
Served(p) == backlog[p] > 0 ~> (backlog[p] = 0 \/ fpm_state # "NORMAL")

(* A dynamic pool serves on whichever children crash, exit after              *)
(* pm.max_requests or are stopped as idle, and whichever fork fails.          *)
DynamicServed == \A p \in Pools : Pm[p] = "dynamic" => Served(p)

(* While a connection waits, no child able to accept it is found past         *)
(* pm.process_idle_timeout: accept() takes less than a second.                *)
AcceptInTime ==
  master = "kill" =>
    \A p \in Pools : victim \in children[p] => backlog[p] = 0

(* fpm_pctl_on_socket_accept: "if there is at least on idle child, it will    *)
(* handle the connection".  Even children that accept in time do not.         *)
OnDemandServed ==
  []AcceptInTime => \A p \in Pools : Pm[p] = "ondemand" => Served(p)

(* SIGUSR2: "graceful reload of all workers" (php-fpm.8). *)
ReloadEnds == fpm_state = "RELOADING" ~> fpm_state # "RELOADING" \/ master \in Gone

(* SIGUSR2 never ends FPM by killing the master. *)
ReloadSurvives == master # "killed"

(* SIGTERM: "immediate termination" (php-fpm.8). *)
TermObeyed == "TERM" \in pending ~> master \in Gone
============================================================================
