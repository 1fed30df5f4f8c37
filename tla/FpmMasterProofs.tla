-------------------------- MODULE FpmMasterProofs --------------------------
(***************************************************************************)
(* Safety of the php-fpm master for every configuration, every number of   *)
(* pools and processes, and every number of signals and failures: types,   *)
(* the lists and the deaths of children, and the idle children that are    *)
(* told to quit.  FpmPoolProofs and FpmServiceProofs build on the          *)
(* invariants of this module.                                              *)
(***************************************************************************)
EXTENDS FpmMaster, TLAPS

----------------------------------------------------------------------------
(* Types. *)

PctlStates == {"RELOADING", "FINISHING", "TERMINATING"}
SentSignals == {"0", "QUIT", "TERM", "KILL"}

(* TypeOK is inductive once the chosen idle child is known to be a process.   *)
TypeInv ==
  /\ TypeOK
  /\ master = "kill" => victim \in Pids

LEMMA ActionNextType ==
  ASSUME TypeOK,
         NEW st \in States, NEW sent \in SentSignals,
         NEW cs \in [Pools -> SUBSET Pids], NEW pr \in [Pids -> ProcStates],
         NEW back \in MasterStates, NEW tq \in SUBSET {"pctl_event"},
         fpm_pctl_action_next(st, sent, cs, pr, back, tq)
  PROVE  /\ master' \in {back, "exec", "exited"}
         /\ fpm_state' \in States
         /\ fpm_signal_sent' \in SentSignals
         /\ timers' \subseteq {"pctl_event"}
         /\ pending' \subseteq Signals
         /\ proc' \in [Pids -> ProcStates]
         /\ quitting' \subseteq Pids
  <1>1. AllOf(cs) \subseteq Pids
    BY DEF AllOf
  <1>2. NextSignal(st, sent) \in {"QUIT", "TERM", "KILL"}
    BY DEF NextSignal
  <1>3. \A q \in Pids, sig \in {"QUIT", "TERM", "KILL"} : Signalled(pr, q, sig) \in ProcStates
    BY DEF Signalled, ProcStates, Dead
  <1>4. CASE NoChild(cs)
    BY <1>4, Zenon DEF fpm_pctl_action_next, fpm_pctl_action_last, TypeOK, SentSignals
  <1>5. CASE ~NoChild(cs)
    <2>1. fpm_pctl_kill_all(cs, pr, NextSignal(st, sent))
      BY <1>5 DEF fpm_pctl_action_next
    <2>2. proc' \in [Pids -> ProcStates] /\ quitting' \subseteq Pids /\ pending' \subseteq Signals
      BY <2>1, <1>1, <1>2, <1>3 DEF fpm_pctl_kill_all, TypeOK, Signals
    <2> QED
      BY <2>2, <1>2, <1>5, Zenon DEF fpm_pctl_action_next, SentSignals
  <1> QED
    BY <1>4, <1>5

LEMMA SetType ==
  ASSUME TypeOK,
         NEW new \in PctlStates,
         NEW cs \in [Pools -> SUBSET Pids], NEW pr \in [Pids -> ProcStates],
         NEW back \in MasterStates,
         fpm_pctl_set(new, cs, pr, back)
  PROVE  /\ master' \in {back, "exec", "exited"}
         /\ fpm_state' \in States
         /\ fpm_signal_sent' \in SentSignals
         /\ timers' \subseteq {"pctl_event"}
         /\ pending' \subseteq Signals
         /\ proc' \in [Pids -> ProcStates]
         /\ quitting' \subseteq Pids
  <1>1. CASE CanOverride(fpm_state, new)
    <2>1. fpm_pctl_action_next(new, "0", cs, pr, back, fpm_event_queue_add(timers))
      BY <1>1 DEF fpm_pctl_set
    <2>2. /\ new \in States /\ "0" \in SentSignals
          /\ fpm_event_queue_add(timers) \in SUBSET {"pctl_event"}
      BY DEF PctlStates, States, SentSignals, fpm_event_queue_add, TypeOK
    <2> QED
      BY <2>1, <2>2, ActionNextType
  <1>2. CASE ~CanOverride(fpm_state, new)
    BY <1>2, Zenon DEF fpm_pctl_set, pctlVars, TypeOK, SentSignals
  <1> QED
    BY <1>1, <1>2

LEMMA ForkType ==
  ASSUME TypeOK,
         NEW p \in Pools, NEW new,
         NEW cs \in [Pools -> SUBSET Pids], NEW pr \in [Pids -> ProcStates],
         Fork(p, new, cs, pr)
  PROVE  /\ children' \in [Pools -> SUBSET Pids]
         /\ older' \in [Pids -> SUBSET Pids]
         /\ proc' \in [Pids -> ProcStates]
         /\ idle_kill' \subseteq Pids
         /\ quitting' \subseteq Pids
  <1>1. AllOf(cs) \subseteq Pids /\ new \subseteq Pids
    BY DEF AllOf, Fork
  <1>2. children' \in [Pools -> SUBSET Pids]
    BY <1>1 DEF Fork
  <1>3. older' \in [Pids -> SUBSET Pids]
    BY <1>1 DEF Fork, TypeOK
  <1>4. proc' \in [Pids -> ProcStates]
    BY <1>1 DEF Fork, ProcStates, Living
  <1> QED
    BY <1>1, <1>2, <1>3, <1>4 DEF Fork

LEMMA MakeType ==
  ASSUME TypeOK,
         NEW p \in Pools, NEW max,
         NEW cs \in [Pools -> SUBSET Pids], NEW pr \in [Pids -> ProcStates],
         fpm_children_make(p, cs, pr, max)
  PROVE  /\ children' \in [Pools -> SUBSET Pids]
         /\ older' \in [Pids -> SUBSET Pids]
         /\ proc' \in [Pids -> ProcStates]
         /\ idle_kill' \subseteq Pids
         /\ quitting' \subseteq Pids
         /\ forkfails' \in Nat
  <1>1. \E new \in SUBSET Pids : Fork(p, new, cs, pr)
    BY DEF fpm_children_make, MakeAll, MakeFails
  <1>2. forkfails' \in Nat
    BY DEF fpm_children_make, MakeAll, MakeFails, TypeOK
  <1> QED
    BY <1>1, <1>2, ForkType

(* A step of a worker makes it ready, ends it, or goes on serving.            *)
Begins(q) ==
  /\ proc[q] = "init" /\ proc' = [proc EXCEPT ![q] = "ready"]
  /\ UNCHANGED <<stage, pending>>
Ends(q) ==
  /\ proc[q] \in Living
  /\ \E how \in {"exited", "faulted"} : proc' = [proc EXCEPT ![q] = how]
  /\ pending' = pending \cup {"CHLD"}
  /\ UNCHANGED stage
Serves(q) ==
  /\ proc[q] \in Heeding /\ proc' = [proc EXCEPT ![q] = "run"]
  /\ \E st \in {"accepting", "busy"} : stage' = [stage EXCEPT ![q] = st]
  /\ UNCHANGED pending

LEMMA ChildCases ==
  ASSUME TypeOK, NEW q \in Pids, ChildStep(q)
  PROVE  /\ Begins(q) \/ Ends(q) \/ Serves(q)
         /\ UNCHANGED <<masterVars, pctlVars, sp, poolVars, quitting, sigs, forkfails, edge>>
         /\ backlog' \in [Pools -> Nat] /\ faults' \in Nat
  <1>0. /\ stage = [stage EXCEPT ![q] = stage[q]]
        /\ backlog \in [Pools -> Nat] /\ faults \in Nat
    BY DEF TypeOK
  <1> DEFINE Rest == UNCHANGED <<masterVars, pctlVars, sp, poolVars, quitting, sigs, forkfails>>
  <1>1. ASSUME NEW how \in {"exited", "faulted"}, proc[q] \in Living, Exit(q, how)
        PROVE  Ends(q) /\ Rest
    BY <1>0, <1>1, Zenon DEF Exit, Step, Ends
  <1>2. ASSUME NEW st \in {"accepting", "busy"}, proc[q] \in Heeding, Step(q, "run", st),
               UNCHANGED pending
        PROVE  Serves(q) /\ Rest
    BY <1>2, Zenon DEF Step, Serves
  <1>3. CASE ChildInit(q)
    <2>1. Begins(q) /\ Rest
      BY <1>3, <1>0 DEF ChildInit, Step, Begins
    <2> QED
      BY <1>0, <1>3, <2>1 DEF ChildInit, sockVars
  <1>4. CASE ChildInitFails(q)
    <2>1. Ends(q) /\ Rest
      BY <1>4, <1>1 DEF ChildInitFails, Living, Heeding
    <2> QED
      BY <1>0, <1>4, <2>1 DEF ChildInitFails, sockVars
  <1>5. CASE ChildAccepting(q)
    <2>1. (Ends(q) \/ Serves(q)) /\ Rest
      BY <1>5, <1>1, <1>2 DEF ChildAccepting, Living, Heeding
    <2> QED
      BY <1>0, <1>5, <2>1 DEF ChildAccepting, sockVars
  <1>6. CASE ChildAccept(q)
    <2>1. Serves(q) /\ Rest
      BY <1>6, <1>2 DEF ChildAccept, Heeding
    <2>2. backlog' \in [Pools -> Nat]
      <3> DEFINE x == PoolOf(q)
      <3>1. backlog[x] > 0 /\ backlog' = [backlog EXCEPT ![x] = backlog[x] - 1]
        BY <1>6 DEF ChildAccept
      <3> HIDE DEF x
      <3>2. CASE x \in Pools
        <4>1. backlog[x] - 1 \in Nat
          BY <1>0, <3>1, <3>2
        <4> QED
          BY <1>0, <3>1, <4>1, Zenon
      <3>3. CASE x \notin Pools
        BY <1>0, <3>1, <3>3, Zenon
      <3> QED
        BY <3>2, <3>3
    <2> QED
      BY <1>0, <1>6, <2>1, <2>2 DEF ChildAccept
  <1>7. CASE ChildAcceptFails(q)
    <2>1. Ends(q) /\ Rest
      BY <1>7, <1>1 DEF ChildAcceptFails, Living, Heeding
    <2> QED
      BY <1>0, <1>7, <2>1 DEF ChildAcceptFails, sockVars
  <1>8. CASE ChildRequestDone(q)
    <2>1. (Ends(q) \/ Serves(q)) /\ Rest
      BY <1>8, <1>1, <1>2 DEF ChildRequestDone, Living, Heeding
    <2> QED
      BY <1>0, <1>8, <2>1 DEF ChildRequestDone, sockVars
  <1>9. CASE ChildLastRequest(q)
    <2>1. Ends(q) /\ Rest
      BY <1>9, <1>1 DEF ChildLastRequest, Living, Heeding
    <2> QED
      BY <1>0, <1>9, <2>1 DEF ChildLastRequest, sockVars
  <1>10. CASE ChildFault(q)
    <2>1. Ends(q) /\ Rest
      BY <1>10, <1>1 DEF ChildFault, Living, Heeding
    <2> QED
      BY <1>0, <1>10, <2>1 DEF ChildFault, sockVars
  <1> QED
    BY <1>3, <1>4, <1>5, <1>6, <1>7, <1>8, <1>9, <1>10 DEF ChildStep

LEMMA TypeInit == Init => TypeInv
  <1> SUFFICES ASSUME Init PROVE TypeInv
    OBVIOUS
  <1>1. sp \in Seq(Signals)
    BY DEF Init
  <1>2. sigs \in Nat /\ faults \in Nat /\ forkfails \in Nat
    BY ModelAssumption DEF Init
  <1>3. in_shutdown \in BOOLEAN /\ edge \in [Pools -> BOOLEAN]
    BY Zenon DEF Init
  <1>4. /\ children \in [Pools -> SUBSET Pids]
        /\ older \in [Pids -> SUBSET Pids]
        /\ proc \in [Pids -> ProcStates]
        /\ stage \in [Pids -> {"none", "accepting", "busy"}]
        /\ idle_spawn_rate \in [Pools -> Nat \ {0}]
        /\ backlog \in [Pools -> Nat]
    BY DEF Init, ProcStates
  <1> QED
    BY <1>1, <1>2, <1>3, <1>4 DEF Init, TypeInv, TypeOK, MasterStates, States

LEMMA TypeNext == TypeInv /\ [Next]_vars => TypeInv'
  <1> SUFFICES ASSUME TypeInv, [Next]_vars PROVE TypeInv'
    OBVIOUS
  <1>t. TypeOK
    BY DEF TypeInv
  <1>p. children \in [Pools -> SUBSET Pids] /\ proc \in [Pids -> ProcStates]
    BY <1>t DEF TypeOK
  <1>1. ASSUME NEW p \in Pools, StartPool(p) PROVE TypeInv'
    <2>1. fpm_children_make(p, children, proc, StartTarget(p))
      BY <1>1 DEF StartPool, fpm_children_make
    <2>2. TypeOK'
      BY <1>1, <1>t, <1>p, <2>1, MakeType, Zenon DEF StartPool, TypeOK, pctlVars
    <2> QED
      BY <1>1, <2>2 DEF StartPool, TypeInv
  <1>2. ASSUME NEW p \in Pools, StartPoolFails(p) PROVE TypeInv'
    <2>1. PICK new \in SUBSET {q \in Pids : proc[q] = "none"} :
            /\ children' = [children EXCEPT ![p] = @ \cup new]
            /\ older' = [q \in Pids |-> IF q \in new THEN children[p] ELSE older[q]]
            /\ fpm_pctl_set("TERMINATING", [children EXCEPT ![p] = @ \cup new],
                 [q \in Pids |-> IF q \in new THEN "init" ELSE proc[q]], "loop")
      BY <1>2, Zenon DEF StartPoolFails
    <2>2. [children EXCEPT ![p] = @ \cup new] \in [Pools -> SUBSET Pids]
      BY <1>p
    <2>3. [q \in Pids |-> IF q \in new THEN "init" ELSE proc[q]] \in [Pids -> ProcStates]
      BY <1>p DEF ProcStates, Living
    <2>4. "TERMINATING" \in PctlStates /\ "loop" \in MasterStates
      BY DEF PctlStates, MasterStates
    <2>5. older' \in [Pids -> SUBSET Pids]
      BY <2>1, <1>p, <1>t DEF TypeOK
    <2>6. /\ master' \in {"loop", "exec", "exited"}
          /\ fpm_state' \in States
          /\ fpm_signal_sent' \in SentSignals
          /\ timers' \subseteq {"pctl_event"}
          /\ pending' \subseteq Signals
          /\ proc' \in [Pids -> ProcStates]
          /\ quitting' \subseteq Pids
      BY <2>1, <2>2, <2>3, <2>4, <1>t, SetType, Zenon
    <2>7. TypeOK'
      BY <1>2, <2>1, <2>2, <2>5, <2>6, <1>t
         DEF StartPoolFails, TypeOK, SentSignals, MasterStates, sockVars
    <2> QED
      BY <2>6, <2>7 DEF TypeInv
  <1>3. CASE EnterLoop
    BY <1>3 DEF EnterLoop, TypeInv, TypeOK, MasterStates, pctlVars, poolVars, procVars,
                sockVars, envVars
  <1>4. CASE FcgiInit \/ FpmInitFails
    BY <1>4, Zenon DEF FcgiInit, FpmInitFails, TypeInv, TypeOK, MasterStates, pctlVars, poolVars, procVars,
                sockVars, envVars
  <1>5. CASE FpmInit
    BY <1>5 DEF FpmInit, TypeInv, TypeOK, MasterStates, States, procVars, envVars
  <1>6. ASSUME NEW s \in Signals, Deliver(s) PROVE TypeInv'
    <2>1. sp' \in Seq(Signals) /\ pending' \subseteq Signals
      <3>1. (sp' = Append(sp, s) \/ sp' = sp) /\ pending' = pending \ {s}
        BY <1>6, Zenon DEF Deliver
      <3>2. sp \in Seq(Signals) /\ pending \subseteq Signals
        BY <1>t DEF TypeOK
      <3>3. Append(sp, s) \in Seq(Signals)
        BY <3>2
      <3> QED
        BY <3>1, <3>2, <3>3
    <2>3. in_shutdown' \in BOOLEAN
      <3>1. in_shutdown' = TRUE \/ in_shutdown' = in_shutdown
        BY <1>6, Zenon DEF Deliver
      <3> QED
        BY <3>1, <1>t, Zenon DEF TypeOK
    <2>2. master' \in {master, "killed"}
      BY <1>6 DEF Deliver
    <2> QED
      BY <1>6, <2>1, <2>2, <2>3 DEF Deliver, TypeInv, TypeOK, MasterStates, pctlVars, poolVars,
                              procVars, sockVars, envVars
  <1>7. CASE fpm_got_signal
    <2>s. sp' \in Seq(Signals)
      BY <1>7, <1>t DEF fpm_got_signal, TypeOK
    <2>1. CASE Head(sp) \in {"INT", "TERM", "QUIT", "USR2"}
      <3>1. fpm_pctl_set(Requested(Head(sp)), children, proc, "loop")
        BY <1>7, <2>1 DEF fpm_got_signal
      <3>2. Requested(Head(sp)) \in PctlStates /\ "loop" \in MasterStates
        BY <2>1 DEF Requested, PctlStates, MasterStates
      <3>3. /\ master' \in {"loop", "exec", "exited"}
            /\ fpm_state' \in States
            /\ fpm_signal_sent' \in SentSignals
            /\ timers' \subseteq {"pctl_event"}
            /\ pending' \subseteq Signals
            /\ proc' \in [Pids -> ProcStates]
            /\ quitting' \subseteq Pids
        BY <3>1, <3>2, <1>t, <1>p, SetType
      <3> QED
        BY <1>7, <2>s, <3>3 DEF fpm_got_signal, TypeInv, TypeOK, SentSignals, MasterStates,
                          poolVars, sockVars, envVars
    <2>2. CASE Head(sp) \in {"CHLD", "USR1"}
      BY <1>7, <2>s, <2>2, Zenon DEF fpm_got_signal, TypeInv, TypeOK, MasterStates, pctlVars,
                              poolVars, sockVars, envVars
    <2> QED
      BY <1>7, <2>1, <2>2 DEF fpm_got_signal
  <1>8. CASE fpm_pctl_action
    <2>1. fpm_pctl_action_next(fpm_state, fpm_signal_sent, children, proc, "loop",
                               fpm_event_trigger(timers))
      BY <1>8 DEF fpm_pctl_action
    <2>2. /\ "loop" \in MasterStates /\ fpm_state \in States /\ fpm_signal_sent \in SentSignals
          /\ fpm_event_trigger(timers) \in SUBSET {"pctl_event"}
      BY <1>t DEF MasterStates, TypeOK, SentSignals, fpm_event_trigger, fpm_event_queue_add
    <2>3. /\ master' \in {"loop", "exec", "exited"}
          /\ fpm_state' \in States
          /\ fpm_signal_sent' \in SentSignals
          /\ timers' \subseteq {"pctl_event"}
          /\ pending' \subseteq Signals
          /\ proc' \in [Pids -> ProcStates]
          /\ quitting' \subseteq Pids
      BY <2>1, <2>2, <1>t, <1>p, ActionNextType
    <2> QED
      BY <1>8, <2>3 DEF fpm_pctl_action, TypeInv, TypeOK, SentSignals, MasterStates,
                        poolVars, sockVars, envVars
  <1>9. ASSUME NEW p \in Pools, Maintenance(p) PROVE TypeInv'
    <2>1. \/ fpm_children_make(p, children, proc, SpawnTarget(p, children, ToFork(p)))
             /\ UNCHANGED <<master, victim>>
          \/ ChooseVictim(p)
          \/ UNCHANGED <<master, victim, children, older, idle_kill, proc, quitting, forkfails>>
      BY <1>9, Zenon DEF Maintenance
    <2>2. /\ children' \in [Pools -> SUBSET Pids]
          /\ older' \in [Pids -> SUBSET Pids]
          /\ proc' \in [Pids -> ProcStates]
          /\ idle_kill' \subseteq Pids
          /\ quitting' \subseteq Pids
          /\ forkfails' \in Nat
      <3>1. CASE fpm_children_make(p, children, proc, SpawnTarget(p, children, ToFork(p)))
        BY <3>1, <1>t, <1>p, MakeType, Zenon
      <3>2. CASE ChooseVictim(p)
        BY <3>2, <1>t DEF ChooseVictim, LastIdle, Idle, TypeOK
      <3> QED
        BY <2>1, <3>1, <3>2, <1>t DEF TypeOK
    <2>3. /\ master' \in MasterStates
          /\ victim' \in Pids \cup {None}
          /\ master' = "kill" => victim' \in Pids
      <3>1. CASE ChooseVictim(p)
        BY <3>1, <1>t DEF ChooseVictim, LastIdle, Idle, TypeOK, MasterStates
      <3> QED
        BY <2>1, <3>1 DEF TypeInv, TypeOK
    <2>4. idle_spawn_rate' \in [Pools -> Nat \ {0}]
      <3>1. \/ UNCHANGED idle_spawn_rate
            \/ SetSpawnRate(p, 1)
            \/ SetSpawnRate(p, idle_spawn_rate[p])
            \/ SetSpawnRate(p, 2 * idle_spawn_rate[p])
        <4>1. \/ UNCHANGED idle_spawn_rate
              \/ SetSpawnRate(p, 1)
              \/ SetSpawnRate(p, IF idle_spawn_rate[p] < FPM_MAX_SPAWN_RATE
                                 THEN 2 * idle_spawn_rate[p] ELSE idle_spawn_rate[p])
          BY <1>9, Zenon DEF Maintenance
        <4> QED
          BY <4>1 DEF SetSpawnRate
      <3>2. idle_spawn_rate[p] \in Nat \ {0} /\ 2 * idle_spawn_rate[p] \in Nat \ {0}
        BY <1>t DEF TypeOK
      <3> QED
        BY <3>1, <3>2, <1>t DEF TypeOK, SetSpawnRate
    <2>5. UNCHANGED <<todo, in_shutdown, pctlVars, pending, sp, stage, sockVars, sigs, faults>>
      BY <1>9, Zenon DEF Maintenance
    <2> QED
      BY <2>2, <2>3, <2>4, <2>5, <1>t DEF TypeInv, TypeOK, pctlVars, sockVars
  <1>10. CASE IdleKill
    BY <1>10 DEF IdleKill, TypeInv, TypeOK, MasterStates, pctlVars, poolVars, sockVars, envVars
  <1>11. ASSUME NEW p \in Pools, fpm_pctl_on_socket_accept(p) PROVE TypeInv'
    <2>1. \/ fpm_children_make(p, children, proc, SpawnTarget(p, children, 1))
          \/ UNCHANGED <<children, older, idle_kill, proc, quitting, forkfails>>
      BY <1>11, Zenon DEF fpm_pctl_on_socket_accept
    <2>2. /\ children' \in [Pools -> SUBSET Pids]
          /\ older' \in [Pids -> SUBSET Pids]
          /\ proc' \in [Pids -> ProcStates]
          /\ idle_kill' \subseteq Pids
          /\ quitting' \subseteq Pids
          /\ forkfails' \in Nat
      <3>1. CASE fpm_children_make(p, children, proc, SpawnTarget(p, children, 1))
        BY <3>1, <1>t, <1>p, MakeType
      <3> QED
        BY <2>1, <3>1, <1>t DEF TypeOK
    <2>3. /\ UNCHANGED <<masterVars, pctlVars, pending, sp, idle_spawn_rate, stage, backlog,
                         sigs, faults>>
          /\ edge' = [edge EXCEPT ![p] = FALSE]
      BY <1>11, Zenon DEF fpm_pctl_on_socket_accept
    <2> QED
      BY <2>2, <2>3, <1>t DEF TypeInv, TypeOK, masterVars, pctlVars
  <1>12. ASSUME NEW q \in Pids, BuryOne(q) PROVE TypeInv'
    <2> DEFINE p == PoolOf(q)
               cs == [children EXCEPT ![p] = @ \ {q}]
               pr == [proc EXCEPT ![q] = "none"]
    <2>1. p \in Pools
      BY <1>12 DEF BuryOne, PoolOf, Linked, AllOf
    <2>2. cs \in [Pools -> SUBSET Pids] /\ pr \in [Pids -> ProcStates]
      BY <1>p, Zenon DEF ProcStates
    <2>3. /\ UNCHANGED <<todo, victim, in_shutdown, sp, idle_spawn_rate, sockVars, sigs, faults>>
          /\ stage' \in [Pids -> {"none", "accepting", "busy"}]
      BY <1>12, <1>t DEF BuryOne, fpm_scoreboard_proc_free, TypeOK
    <2>4. ASSUME /\ fpm_pctl_action_last(fpm_state)
                 /\ proc' = pr /\ quitting' = {}
                 /\ UNCHANGED <<pctlVars, pending>>
                 /\ children' = cs /\ idle_kill' = {}
                 /\ older' = [c \in Pids |-> older[c] \ {q}]
                 /\ UNCHANGED forkfails
          PROVE  TypeInv'
      <3>1. master' \in {"exec", "exited"}
        BY <2>4 DEF fpm_pctl_action_last
      <3> QED
        BY <2>2, <2>3, <2>4, <3>1, <1>t DEF TypeInv, TypeOK, MasterStates, pctlVars, sockVars
    <2>5. ASSUME /\ fpm_pctl_set("RELOADING", cs, pr, "bury")
                 /\ children' = cs /\ idle_kill' = idle_kill \ {q}
                 /\ older' = [c \in Pids |-> older[c] \ {q}]
                 /\ UNCHANGED forkfails
          PROVE  TypeInv'
      <3>1. "RELOADING" \in PctlStates /\ "bury" \in MasterStates
        BY DEF PctlStates, MasterStates
      <3>2. /\ master' \in {"bury", "exec", "exited"}
            /\ fpm_state' \in States
            /\ fpm_signal_sent' \in SentSignals
            /\ timers' \subseteq {"pctl_event"}
            /\ pending' \subseteq Signals
            /\ proc' \in [Pids -> ProcStates]
            /\ quitting' \subseteq Pids
        BY <2>5, <3>1, <2>2, <1>t, SetType, Zenon
      <3> QED
        BY <2>2, <2>3, <2>5, <3>2, <1>t
           DEF TypeInv, TypeOK, MasterStates, SentSignals, sockVars
    <2>6. ASSUME NEW max,
                 fpm_children_make(p, cs, pr, max), UNCHANGED <<master, pctlVars, pending>>
          PROVE  TypeInv'
      <3>1. /\ children' \in [Pools -> SUBSET Pids]
            /\ older' \in [Pids -> SUBSET Pids]
            /\ proc' \in [Pids -> ProcStates]
            /\ idle_kill' \subseteq Pids
            /\ quitting' \subseteq Pids
            /\ forkfails' \in Nat
        BY <2>1, <2>2, <2>6, <1>t, MakeType, Zenon
      <3> QED
        BY <2>3, <2>6, <3>1, <1>t DEF TypeInv, TypeOK, pctlVars, sockVars
    <2> QED
      BY <1>12, <2>4, <2>5, <2>6, Zenon DEF BuryOne
  <1>13. CASE BuryDone
    BY <1>13 DEF BuryDone, TypeInv, TypeOK, MasterStates, pctlVars, poolVars, procVars,
                 sockVars, envVars
  <1>14. ASSUME NEW q \in Pids, ChildStep(q) PROVE TypeInv'
    <2>1. /\ UNCHANGED <<masterVars, pctlVars, sp, poolVars, quitting, sigs, forkfails, edge>>
          /\ backlog' \in [Pools -> Nat] /\ faults' \in Nat
      BY <1>14, <1>t, ChildCases
    <2>2. pending' \subseteq Signals
      BY <1>14, <1>t, ChildCases, Zenon DEF TypeOK, Signals, Begins, Ends, Serves
    <2>3. proc' \in [Pids -> ProcStates]
      BY <1>14, <1>t, <1>p, ChildCases
         DEF Begins, Ends, Serves, ProcStates, Living, Heeding, Dead
    <2>4. stage' \in [Pids -> {"none", "accepting", "busy"}]
      BY <1>14, <1>t, ChildCases, Zenon DEF TypeOK, Begins, Ends, Serves
    <2> QED
      BY <2>1, <2>2, <2>3, <2>4 DEF TypeInv, TypeOK, masterVars, pctlVars, poolVars
  <1>15. CASE Environment
    <2>1. ASSUME NEW p \in Pools, Connect(p) PROVE TypeInv'
      <3>1. edge' \in [Pools -> BOOLEAN]
        BY <2>1, <1>t DEF Connect, Watched, TypeOK
      <3> QED
        BY <2>1, <3>1 DEF Connect, TypeInv, TypeOK, masterVars, pctlVars, poolVars, procVars,
                          envVars
    <2>2. ASSUME NEW s \in ExtSignals, SendSignal(s) PROVE TypeInv'
      BY <2>2, ModelAssumption
         DEF SendSignal, TypeInv, TypeOK, masterVars, pctlVars, poolVars, procVars, sockVars
    <2> QED
      BY <1>15, <2>1, <2>2 DEF Environment
  <1>16. CASE UNCHANGED vars
    BY <1>16 DEF TypeInv, TypeOK, vars, masterVars, pctlVars, poolVars, procVars, sockVars,
                 envVars
  <1> QED
    BY <1>1, <1>2, <1>3, <1>4, <1>5, <1>6, <1>7, <1>8, <1>9, <1>10, <1>11, <1>12, <1>13,
       <1>14, <1>15, <1>16 DEF Next, MasterStep, Stopped

(* Every variable of the master keeps its type. *)
THEOREM TypeCorrect == Spec => []TypeOK
  <1>1. TypeInv => TypeOK
    BY DEF TypeInv
  <1> QED
    BY <1>1, TypeInit, TypeNext, PTL DEF Spec

----------------------------------------------------------------------------
(* The lists of children are exact, no child outlives its master, and no      *)
(* death of a child goes unnoticed although SIGCHLDs coalesce.                *)

(* ListsExact for lists cs and processes pr: the fork of a child, the unlink  *)
(* of a dead one and kill_all keep it; the actions are made of these.         *)
Exact(cs, pr) ==
  /\ \A q \in Pids : pr[q] # "none" <=> \E p \in Pools : q \in cs[p]
  /\ \A p1, p2 \in Pools : p1 # p2 => cs[p1] \cap cs[p2] = {}

AllGone(pr) == \A q \in Pids : pr[q] = "none"
SomeDead(pr) == \E q \in Pids : pr[q] \in Dead
Noticed(pd, s) == "CHLD" \in pd \/ \E i \in 1 .. Len(s) : s[i] = "CHLD"

(* The inductive invariant, relative to TypeInv.  ListsExact makes NoOrphans  *)
(* inductive: the master leaves the loop when the lists are empty.  NoOrphans *)
(* makes ZombieNoticed inductive: SIGCHLD is ignored while the new image of a *)
(* reload starts.                                                             *)
ReapInv ==
  /\ ListsExact
  /\ NoOrphans
  /\ ZombieNoticed

LEMMA AllOfMember ==
  ASSUME NEW cs, NEW q
  PROVE  q \in AllOf(cs) <=> \E p \in Pools : q \in cs[p]
BY DEF AllOf

LEMMA ExactLists ==
  ASSUME children \in [Pools -> SUBSET Pids]
  PROVE  ListsExact <=> Exact(children, proc)
BY AllOfMember DEF ListsExact, Exact, Linked

LEMMA NoChildGone ==
  ASSUME NEW cs, NEW pr, Exact(cs, pr), NoChild(cs)
  PROVE  AllGone(pr)
BY AllOfMember, Zenon DEF Exact, NoChild, AllGone

LEMMA ForkExact ==
  ASSUME NEW p \in Pools, NEW new,
         NEW cs \in [Pools -> SUBSET Pids], NEW pr \in [Pids -> ProcStates],
         Exact(cs, pr), Fork(p, new, cs, pr)
  PROVE  /\ Exact(children', proc')
         /\ SomeDead(proc') => SomeDead(pr)
  <1>1. /\ new \subseteq {q \in Pids : pr[q] = "none"}
        /\ children' = [cs EXCEPT ![p] = cs[p] \cup new]
        /\ proc' = [q \in Pids |-> IF q \in new THEN "init" ELSE pr[q]]
    BY DEF Fork
  <1>2. \A r \in Pools : children'[r] = IF r = p THEN cs[p] \cup new ELSE cs[r]
    BY <1>1
  <1>3. \A r \in Pools : new \cap cs[r] = {}
    BY <1>1 DEF Exact
  <1>4. \A q \in Pids : proc'[q] # "none" <=> \E r \in Pools : q \in children'[r]
    BY <1>1, <1>2 DEF Exact
  <1>5. \A p1, p2 \in Pools : p1 # p2 => children'[p1] \cap children'[p2] = {}
    BY <1>2, <1>3 DEF Exact
  <1>6. SomeDead(proc') => SomeDead(pr)
    BY <1>1 DEF SomeDead, Dead
  <1> QED
    BY <1>4, <1>5, <1>6 DEF Exact

LEMMA MakeExact ==
  ASSUME NEW p \in Pools, NEW max,
         NEW cs \in [Pools -> SUBSET Pids], NEW pr \in [Pids -> ProcStates],
         Exact(cs, pr), fpm_children_make(p, cs, pr, max)
  PROVE  /\ Exact(children', proc')
         /\ SomeDead(proc') => SomeDead(pr)
  <1>1. \E new \in SUBSET Pids : Fork(p, new, cs, pr)
    BY DEF fpm_children_make, MakeAll, MakeFails
  <1> QED
    BY <1>1, ForkExact

(* What kill_all and the state machine do to processes pr on lists cs.        *)
LEMMA NextExact ==
  ASSUME NEW st, NEW sent, NEW back, NEW tq,
         NEW cs \in [Pools -> SUBSET Pids], NEW pr \in [Pids -> ProcStates],
         Exact(cs, pr), fpm_pctl_action_next(st, sent, cs, pr, back, tq)
  PROVE  /\ Exact(cs, proc')
         /\ master' # back => AllGone(proc')
         /\ pending \subseteq pending'
         /\ SomeDead(proc') => SomeDead(pr) \/ "CHLD" \in pending'
  <1>1. CASE NoChild(cs)
    BY <1>1, NoChildGone DEF fpm_pctl_action_next
  <1>2. CASE ~NoChild(cs)
    <2> DEFINE sig == NextSignal(st, sent)
               after == [q \in Pids |-> IF q \in AllOf(cs) THEN Signalled(pr, q, sig) ELSE pr[q]]
    <2>1. /\ master' = back
          /\ proc' = after
          /\ pending' = IF after = pr THEN pending ELSE pending \cup {"CHLD"}
      BY <1>2 DEF fpm_pctl_action_next, fpm_pctl_kill_all
    <2>2. \A q \in Pids : after[q] # "none" <=> pr[q] # "none"
      BY DEF Signalled, Living, Heeding
    <2>3. Exact(cs, after)
      BY <2>2 DEF Exact
    <2> QED
      BY <2>1, <2>3
  <1> QED
    BY <1>1, <1>2

LEMMA SetExact ==
  ASSUME NEW new, NEW back,
         NEW cs \in [Pools -> SUBSET Pids], NEW pr \in [Pids -> ProcStates],
         Exact(cs, pr), fpm_pctl_set(new, cs, pr, back)
  PROVE  /\ Exact(cs, proc')
         /\ master' # back => AllGone(proc')
         /\ pending \subseteq pending'
         /\ SomeDead(proc') => SomeDead(pr) \/ "CHLD" \in pending'
  <1>1. CASE CanOverride(fpm_state, new)
    BY <1>1, NextExact, Zenon DEF fpm_pctl_set
  <1>2. CASE ~CanOverride(fpm_state, new)
    BY <1>2 DEF fpm_pctl_set
  <1> QED
    BY <1>1, <1>2, Zenon

(* Unlinking a reaped child. *)
LEMMA UnlinkExact ==
  ASSUME children \in [Pools -> SUBSET Pids], proc \in [Pids -> ProcStates],
         Exact(children, proc), NEW q \in Pids, q \in Linked
  PROVE  /\ PoolOf(q) \in Pools /\ q \in children[PoolOf(q)]
         /\ Exact([children EXCEPT ![PoolOf(q)] = @ \ {q}], [proc EXCEPT ![q] = "none"])
  <1>1. PoolOf(q) \in Pools /\ q \in children[PoolOf(q)]
    BY AllOfMember DEF PoolOf, Linked
  <1> DEFINE p == PoolOf(q)
             cs == [children EXCEPT ![p] = @ \ {q}]
             pr == [proc EXCEPT ![q] = "none"]
  <1>2. \A r \in Pools : cs[r] = IF r = p THEN children[p] \ {q} ELSE children[r]
    OBVIOUS
  <1>3. \A r \in Pools : q \notin cs[r]
    BY <1>1, <1>2 DEF Exact
  <1>4. \A c \in Pids : pr[c] # "none" <=> \E r \in Pools : c \in cs[r]
    BY <1>1, <1>2, <1>3 DEF Exact
  <1>5. \A p1, p2 \in Pools : p1 # p2 => cs[p1] \cap cs[p2] = {}
    BY <1>2 DEF Exact
  <1> QED
    BY <1>1, <1>4, <1>5 DEF Exact

Down == {"exec", "boot", "exited", "killed"}
Awake == {"start", "loop", "kill"}

LEMMA ReapInvParts ==
  ASSUME TypeOK
  PROVE  ReapInv <=> /\ Exact(children, proc)
                     /\ master \in Down => AllGone(proc)
                     /\ master \in Awake /\ SomeDead(proc) => Noticed(pending, sp)
BY ExactLists
   DEF TypeOK, ReapInv, NoOrphans, ZombieNoticed, Down, Awake, AllGone, SomeDead, Noticed,
       Zombie

LEMMA ReapInit == Init => ReapInv
  <1> SUFFICES ASSUME Init PROVE ReapInv
    OBVIOUS
  <1>1. TypeOK
    BY TypeInit DEF TypeInv
  <1>2. Exact(children, proc)
    BY DEF Init, Exact
  <1>3. master \in Down => AllGone(proc)
    BY DEF Init, Down
  <1>4. ~SomeDead(proc)
    BY DEF Init, SomeDead, Dead
  <1> QED
    BY <1>1, <1>2, <1>3, <1>4, ReapInvParts

LEMMA NotBoth == \A m \in Down : m \notin Awake
BY DEF Down, Awake

LEMMA GoneNotDead == \A pr : AllGone(pr) => ~SomeDead(pr)
BY DEF AllGone, SomeDead, Dead

LEMMA ReapNext == TypeInv /\ ReapInv /\ [Next]_vars => ReapInv'
  <1> SUFFICES ASSUME TypeInv, ReapInv, [Next]_vars PROVE ReapInv'
    OBVIOUS
  <1> DEFINE Goal == /\ Exact(children', proc')
                     /\ master' \in Down => AllGone(proc')
                     /\ master' \in Awake /\ SomeDead(proc') => Noticed(pending', sp')
  <1>s. SUFFICES Goal
    <2>1. TypeOK'
      BY TypeNext DEF TypeInv
    <2>2. children' \in [Pools -> SUBSET Pids]
      BY <2>1 DEF TypeOK
    <2>3. ListsExact'
      BY <2>2, AllOfMember DEF ListsExact, Exact, Linked
    <2> QED
      BY <2>3 DEF ReapInv, NoOrphans, ZombieNoticed, Down, Awake, AllGone, SomeDead, Noticed,
                  Zombie
  <1>t. TypeOK /\ children \in [Pools -> SUBSET Pids] /\ proc \in [Pids -> ProcStates]
    BY DEF TypeInv, TypeOK
  <1>i. /\ Exact(children, proc)
        /\ master \in Down => AllGone(proc)
        /\ master \in Awake /\ SomeDead(proc) => Noticed(pending, sp)
    BY <1>t, ReapInvParts
  <1>1. ASSUME NEW p \in Pools, StartPool(p) PROVE Goal
    <2>1. fpm_children_make(p, children, proc, StartTarget(p))
      BY <1>1 DEF StartPool, fpm_children_make
    <2>2. Exact(children', proc') /\ (SomeDead(proc') => SomeDead(proc))
      BY <2>1, <1>t, <1>i, MakeExact, Zenon
    <2>3. master = "start" /\ UNCHANGED <<master, pending, sp>>
      BY <1>1 DEF StartPool
    <2> QED
      BY <2>2, <2>3, <1>i, Zenon DEF Down
  <1>2. ASSUME NEW p \in Pools, StartPoolFails(p) PROVE Goal
    <2>1. PICK new \in SUBSET {q \in Pids : proc[q] = "none"} :
            /\ children' = [children EXCEPT ![p] = @ \cup new]
            /\ fpm_pctl_set("TERMINATING", [children EXCEPT ![p] = @ \cup new],
                 [q \in Pids |-> IF q \in new THEN "init" ELSE proc[q]], "loop")
      BY <1>2, Zenon DEF StartPoolFails
    <2> DEFINE cs == [children EXCEPT ![p] = @ \cup new]
               pr == [q \in Pids |-> IF q \in new THEN "init" ELSE proc[q]]
    <2>2. cs \in [Pools -> SUBSET Pids] /\ pr \in [Pids -> ProcStates]
      BY <1>t DEF ProcStates, Living
    <2>3. Exact(cs, pr) /\ (SomeDead(pr) => SomeDead(proc))
      <3>1. \A r \in Pools : cs[r] = IF r = p THEN children[p] \cup new ELSE children[r]
        BY <1>t
      <3>2. \A r \in Pools : new \cap children[r] = {}
        BY <2>1, <1>i DEF Exact
      <3>3. \A q \in Pids : pr[q] # "none" <=> \E r \in Pools : q \in cs[r]
        BY <3>1, <1>i DEF Exact
      <3>4. \A p1, p2 \in Pools : p1 # p2 => cs[p1] \cap cs[p2] = {}
        BY <3>1, <3>2, <1>i DEF Exact
      <3>5. SomeDead(pr) => SomeDead(proc)
        BY DEF SomeDead, Dead
      <3> QED
        BY <3>3, <3>4, <3>5 DEF Exact
    <2>4. /\ Exact(cs, proc')
          /\ master' # "loop" => AllGone(proc')
          /\ pending \subseteq pending'
          /\ SomeDead(proc') => SomeDead(pr) \/ "CHLD" \in pending'
      <3> HIDE DEF cs, pr
      <3> QED
        BY <2>1, <2>2, <2>3, SetExact, Zenon DEF cs, pr
    <2>5. master = "start" /\ sp' = sp
      BY <1>2 DEF StartPoolFails
    <2>6. master' \in Down => AllGone(proc')
      BY <2>4 DEF Down
    <2>7. SomeDead(proc') => Noticed(pending', sp')
      BY <2>3, <2>4, <2>5, <1>i DEF Noticed, Awake
    <2> QED
      BY <2>1, <2>4, <2>6, <2>7
  <1>3. CASE EnterLoop
    BY <1>3, <1>i DEF EnterLoop, poolVars, procVars, Down, Awake
  <1>4. CASE FcgiInit \/ FpmInitFails
    BY <1>4, <1>i DEF FcgiInit, FpmInitFails, poolVars, procVars, Down, Awake
  <1>5. CASE FpmInit
    BY <1>5, <1>i, GoneNotDead DEF FpmInit, procVars, Down, Awake
  <1>6. ASSUME NEW s \in Signals, Deliver(s) PROVE Goal
    <2>1. /\ UNCHANGED <<children, proc>> /\ pending' = pending \ {s}
          /\ \/ master \in Catching /\ sp' = Append(sp, s) /\ UNCHANGED master
             \/ master \in {"exec", "boot"} /\ master' \in {master, "killed"} /\ UNCHANGED sp
      BY <1>6 DEF Deliver, poolVars, procVars
    <2>2. CASE master \in Catching /\ sp' = Append(sp, s) /\ UNCHANGED master
      <3>1. sp \in Seq(Signals)
        BY <1>t DEF TypeOK
      <3>2. /\ Len(sp') = Len(sp) + 1 /\ Len(sp) \in Nat
            /\ sp'[Len(sp) + 1] = s
            /\ \A i \in 1 .. Len(sp) : sp'[i] = sp[i]
        BY <3>1, <2>2
      <3>3. Noticed(pending, sp) => Noticed(pending', sp')
        BY <3>2, <2>1 DEF Noticed
      <3> QED
        BY <2>1, <2>2, <3>3, <1>i DEF Catching, Down
    <2>3. CASE master \in {"exec", "boot"} /\ master' \in {master, "killed"}
      BY <2>1, <2>3, <1>i DEF Down, Awake
    <2> QED
      BY <2>1, <2>2, <2>3
  <1>7. CASE fpm_got_signal
    <2>1. /\ master = "loop" /\ sp # <<>> /\ sp' = Tail(sp) /\ UNCHANGED children
          /\ sp \in Seq(Signals)
      BY <1>7, <1>t DEF fpm_got_signal, poolVars, TypeOK
    <2>2. CASE Head(sp) = "CHLD"
      <3>1. master' = "bury" /\ UNCHANGED <<proc, quitting>>
        BY <1>7, <2>2 DEF fpm_got_signal
      <3> QED
        BY <2>1, <3>1, <1>i DEF Down, Awake
    <2>3. CASE Head(sp) # "CHLD"
      <3>1. ASSUME \E i \in 1 .. Len(sp) : sp[i] = "CHLD"
            PROVE  \E i \in 1 .. Len(sp') : sp'[i] = "CHLD"
        <4>1. PICK i \in 1 .. Len(sp) : sp[i] = "CHLD"
          BY <3>1
        <4>2. i # 1
          BY <4>1, <2>1, <2>3
        <4>3. i - 1 \in 1 .. Len(sp') /\ sp'[i - 1] = sp[i]
          BY <4>2, <2>1
        <4> QED
          BY <4>1, <4>3
      <3>2. CASE Head(sp) \in {"INT", "TERM", "QUIT", "USR2"}
        <4>1. fpm_pctl_set(Requested(Head(sp)), children, proc, "loop")
          BY <1>7, <3>2, Zenon DEF fpm_got_signal
        <4>2. /\ Exact(children, proc')
              /\ master' # "loop" => AllGone(proc')
              /\ pending \subseteq pending'
              /\ SomeDead(proc') => SomeDead(proc) \/ "CHLD" \in pending'
          BY <4>1, <1>t, <1>i, SetExact
        <4>3. SomeDead(proc') => Noticed(pending', sp')
          BY <4>2, <3>1, <2>1, <1>i DEF Noticed, Awake
        <4> QED
          BY <2>1, <4>2, <4>3 DEF Down
      <3>3. CASE Head(sp) = "USR1"
        <4>1. UNCHANGED <<master, pending, proc>>
          BY <1>7, <3>3 DEF fpm_got_signal
        <4> QED
          BY <2>1, <3>1, <4>1, <1>i DEF Noticed, Down
      <3> QED
        BY <1>7, <2>3, <3>2, <3>3 DEF fpm_got_signal
    <2> QED
      BY <2>2, <2>3
  <1>8. CASE fpm_pctl_action
    <2>1. /\ fpm_pctl_action_next(fpm_state, fpm_signal_sent, children, proc, "loop",
                                  fpm_event_trigger(timers))
          /\ master = "loop" /\ UNCHANGED <<sp, children>>
      BY <1>8, Zenon DEF fpm_pctl_action, poolVars
    <2>2. /\ Exact(children, proc')
          /\ master' # "loop" => AllGone(proc')
          /\ pending \subseteq pending'
          /\ SomeDead(proc') => SomeDead(proc) \/ "CHLD" \in pending'
      BY <2>1, <1>t, <1>i, NextExact
    <2>3. SomeDead(proc') => Noticed(pending', sp')
      BY <2>1, <2>2, <1>i DEF Noticed, Awake
    <2> QED
      BY <2>1, <2>2, <2>3 DEF Down
  <1>9. ASSUME NEW p \in Pools, Maintenance(p) PROVE Goal
    <2>1. /\ master = "loop" /\ master' \in {"loop", "kill"} /\ UNCHANGED <<pending, sp>>
          /\ \/ UNCHANGED <<children, proc>>
             \/ fpm_children_make(p, children, proc, SpawnTarget(p, children, ToFork(p)))
      BY <1>9, Zenon DEF Maintenance, ChooseVictim
    <2>2. Exact(children', proc') /\ (SomeDead(proc') => SomeDead(proc))
      BY <2>1, <1>t, <1>i, MakeExact, Zenon
    <2> QED
      BY <2>1, <2>2, <1>i, SMTT(30) DEF Down, Awake
  <1>10. CASE IdleKill
    BY <1>10, <1>i DEF IdleKill, poolVars, Down, Awake
  <1>11. ASSUME NEW p \in Pools, fpm_pctl_on_socket_accept(p) PROVE Goal
    <2>1. /\ UNCHANGED <<master, pending, sp>> /\ master = "loop"
          /\ \/ UNCHANGED <<children, proc>>
             \/ fpm_children_make(p, children, proc, SpawnTarget(p, children, 1))
      BY <1>11 DEF fpm_pctl_on_socket_accept, masterVars
    <2>2. Exact(children', proc') /\ (SomeDead(proc') => SomeDead(proc))
      BY <2>1, <1>t, <1>i, MakeExact
    <2> QED
      BY <2>1, <2>2, <1>i, Zenon DEF Down, Awake
  <1>12. ASSUME NEW q \in Pids, BuryOne(q) PROVE Goal
    <2> DEFINE p == PoolOf(q)
               cs == [children EXCEPT ![p] = @ \ {q}]
               pr == [proc EXCEPT ![q] = "none"]
    <2>1. master = "bury" /\ q \in Linked
      BY <1>12, Zenon DEF BuryOne
    <2>2. /\ p \in Pools /\ Exact(cs, pr)
          /\ cs \in [Pools -> SUBSET Pids] /\ pr \in [Pids -> ProcStates]
      BY <2>1, <1>t, <1>i, UnlinkExact, Zenon DEF ProcStates
    <2>3. ASSUME NoChild(cs), fpm_pctl_action_last(fpm_state), proc' = pr, children' = cs
          PROVE  Goal
      <3>1. AllGone(pr)
        BY <2>2, <2>3, NoChildGone
      <3>2. master' \in Down
        BY <2>3 DEF fpm_pctl_action_last, Down
      <3> QED
        BY <2>2, <2>3, <3>1, <3>2, NotBoth
    <2>4. ASSUME fpm_pctl_set("RELOADING", cs, pr, "bury"), children' = cs
          PROVE  Goal
      <3>1. Exact(cs, proc') /\ (master' # "bury" => AllGone(proc'))
        <4> HIDE DEF cs, pr
        <4> QED
          BY <2>2, <2>4, SetExact, Zenon
      <3> QED
        BY <2>4, <3>1, GoneNotDead DEF Down, Awake
    <2>5. ASSUME NEW max, fpm_children_make(p, cs, pr, max), UNCHANGED master
          PROVE  Goal
      <3>1. Exact(children', proc')
        <4> HIDE DEF p, cs, pr
        <4> QED
          BY <2>2, <2>5, MakeExact
      <3> QED
        BY <2>1, <2>5, <3>1 DEF Down, Awake
    <2> QED
      BY <1>12, <2>3, <2>4, <2>5, Zenon DEF BuryOne
  <1>13. CASE BuryDone
    <2>1. ~SomeDead(proc) /\ master' = "loop" /\ UNCHANGED <<children, proc>>
      BY <1>13 DEF BuryDone, Zombie, SomeDead, poolVars, procVars
    <2> QED
      BY <2>1, <1>i DEF Down
  <1>14. ASSUME NEW q \in Pids, ChildStep(q) PROVE Goal
    <2>1. /\ Begins(q) \/ Ends(q) \/ Serves(q)
          /\ UNCHANGED <<master, children, sp>>
      BY <1>14, <1>t, ChildCases DEF masterVars, poolVars
    <2>2. proc[q] \in Living
      BY <2>1 DEF Begins, Ends, Serves, Living
    <2>3. \E ps \in Living \cup Dead : proc' = [proc EXCEPT ![q] = ps]
      BY <2>1 DEF Begins, Ends, Serves, Living, Heeding, Dead
    <2>4. Exact(children', proc')
      BY <2>1, <2>2, <2>3, <1>t, <1>i DEF Exact, Living, Heeding, Dead
    <2>5. master \notin Down
      BY <2>2, <1>i DEF AllGone, Living, Heeding
    <2>6. master \in Awake /\ SomeDead(proc') => Noticed(pending', sp')
      <3>1. CASE Ends(q)
        BY <3>1 DEF Ends, Noticed
      <3>2. CASE Begins(q) \/ Serves(q)
        <4>1. SomeDead(proc') => SomeDead(proc)
          BY <3>2, <1>t DEF Begins, Serves, SomeDead, Dead
        <4> QED
          BY <3>2, <4>1, <2>1, <1>i DEF Begins, Serves
      <3> QED
        BY <2>1, <3>1, <3>2
    <2> QED
      BY <2>1, <2>4, <2>5, <2>6
  <1>15. CASE Environment
    <2>1. ASSUME NEW p \in Pools, Connect(p) PROVE Goal
      BY <2>1, <1>i DEF Connect, masterVars, poolVars, procVars
    <2>2. ASSUME NEW s \in ExtSignals, SendSignal(s) PROVE Goal
      BY <2>2, <1>i DEF SendSignal, masterVars, poolVars, procVars, Noticed
    <2> QED
      BY <1>15, <2>1, <2>2 DEF Environment
  <1>16. CASE UNCHANGED vars
    BY <1>16, <1>i DEF vars, masterVars, poolVars, procVars
  <1> HIDE DEF Goal
  <1> QED
    BY <1>1, <1>2, <1>3, <1>4, <1>5, <1>6, <1>7, <1>8, <1>9, <1>10, <1>11, <1>12, <1>13,
       <1>14, <1>15, <1>16, SMTT(30) DEF Next, MasterStep, Stopped

LEMMA ReapInvariant == Spec => [](TypeInv /\ ReapInv)
  <1>1. Init => TypeInv /\ ReapInv
    BY TypeInit, ReapInit
  <1>2. TypeInv /\ ReapInv /\ [Next]_vars => (TypeInv /\ ReapInv)'
    BY TypeNext, ReapNext
  <1> QED
    BY <1>1, <1>2, PTL DEF Spec

(* The lists of children hold exactly the existing processes.                 *)
THEOREM ListsAreExact == Spec => []ListsExact
  <1>1. ReapInv => ListsExact
    BY DEF ReapInv
  <1> QED
    BY <1>1, ReapInvariant, PTL

(* No process outlives the image of the master that forked it, whether the    *)
(* master stops, reloads or is killed by a signal while the new image starts. *)
THEOREM NoChildOutlivesMaster == Spec => []NoOrphans
  <1>1. ReapInv => NoOrphans
    BY DEF ReapInv
  <1> QED
    BY <1>1, ReapInvariant, PTL

(* No death of a child is missed, for any number of children that die while   *)
(* a SIGCHLD is pending.                                                      *)
THEOREM DeathsAreNoticed == Spec => []ZombieNoticed
  <1>1. ReapInv => ZombieNoticed
    BY DEF ReapInv
  <1> QED
    BY <1>1, ReapInvariant, PTL

----------------------------------------------------------------------------
(* The idle children. *)

(* A child has its own signal handlers by the time its scoreboard slot says   *)
(* that it is accepting, and the slot of a buried child is cleared before the *)
(* next child gets it.                                                        *)
Spoken(pr) == {q \in Pids : pr[q] \in {"run"} \cup Dead}
StageHonest(st, pr) == \A q \in Pids : st[q] # "none" => q \in Spoken(pr)
Heeded(ik, qt, pr) == \A q \in ik : pr[q] # "none" /\ (q \in qt \/ pr[q] \in Dead)

(* IdleKillHeeded is inductive together with the honesty of the scoreboard.   *)
IdleInv ==
  /\ StageHonest(stage, proc)
  /\ Heeded(idle_kill \ {victim}, quitting, proc)
  /\ victim # None => master = "kill" /\ victim \in Spoken(proc)

LEMMA ForkIdle ==
  ASSUME TypeOK, NEW p \in Pools, NEW new, NEW cs, NEW pr \in [Pids -> ProcStates],
         Exact(cs, pr), Fork(p, new, cs, pr),
         \A q \in Pids : q \in AllOf(cs) => pr[q] = proc[q],
         StageHonest(stage', pr), Heeded(idle_kill, quitting, proc)
  PROVE  StageHonest(stage', proc') /\ Heeded(idle_kill', quitting', proc')
  <1>1. /\ \A q \in new : q \in Pids /\ pr[q] = "none"
        /\ proc' = [q \in Pids |-> IF q \in new THEN "init" ELSE pr[q]]
        /\ idle_kill' = idle_kill \cap AllOf(cs)
        /\ quitting' = quitting \cap AllOf(cs)
    BY Zenon DEF Fork
  <1>2. \A q \in Pids : q \in AllOf(cs) => q \notin new
    BY <1>1, AllOfMember DEF Exact
  <1>3. idle_kill \subseteq Pids
    BY DEF TypeOK
  <1>4. Heeded(idle_kill', quitting', proc')
    BY <1>1, <1>2, <1>3 DEF Heeded
  <1>5. \A q \in new : q \notin Spoken(pr)
    BY <1>1 DEF Spoken, Dead
  <1>6. StageHonest(stage', proc')
    BY <1>1, <1>5 DEF StageHonest, Spoken
  <1> QED
    BY <1>4, <1>6

LEMMA MakeIdle ==
  ASSUME TypeOK, NEW p \in Pools, NEW max, NEW cs, NEW pr \in [Pids -> ProcStates],
         Exact(cs, pr), fpm_children_make(p, cs, pr, max),
         \A q \in Pids : q \in AllOf(cs) => pr[q] = proc[q],
         StageHonest(stage', pr), Heeded(idle_kill, quitting, proc)
  PROVE  StageHonest(stage', proc') /\ Heeded(idle_kill', quitting', proc')
  <1>1. \E new \in SUBSET Pids : Fork(p, new, cs, pr)
    BY DEF fpm_children_make, MakeAll, MakeFails
  <1> QED
    BY <1>1, ForkIdle, Zenon

LEMMA NextIdle ==
  ASSUME NEW st, NEW sent, NEW back, NEW tq, NEW ik \in SUBSET Pids,
         NEW cs \in [Pools -> SUBSET Pids], NEW pr \in [Pids -> ProcStates],
         Exact(cs, pr), fpm_pctl_action_next(st, sent, cs, pr, back, tq),
         StageHonest(stage', pr), Heeded(ik, quitting, pr)
  PROVE  StageHonest(stage', proc') /\ Heeded(ik, quitting', proc')
  <1>1. CASE NoChild(cs)
    <2>1. AllGone(pr) /\ proc' = pr
      BY <1>1, NoChildGone DEF fpm_pctl_action_next
    <2> QED
      BY <2>1 DEF AllGone, Heeded
  <1>2. CASE ~NoChild(cs)
    <2> DEFINE sig == NextSignal(st, sent)
               after == [q \in Pids |-> IF q \in AllOf(cs) THEN Signalled(pr, q, sig) ELSE pr[q]]
    <2>1. proc' = after /\ quitting \cap AllOf(cs) \subseteq quitting'
      BY <1>2 DEF fpm_pctl_action_next, fpm_pctl_kill_all
    <2>2. \A q \in Pids : /\ after[q] # "none" <=> pr[q] # "none"
                          /\ pr[q] \in Dead => after[q] \in Dead
                          /\ q \in Spoken(pr) => q \in Spoken(after)
      BY DEF Signalled, Living, Heeding, Dead, Spoken
    <2>3. \A q \in ik : q \in AllOf(cs)
      BY AllOfMember DEF Exact, Heeded
    <2>4. Heeded(ik, quitting', proc')
      BY <2>1, <2>2, <2>3 DEF Heeded
    <2>5. StageHonest(stage', proc')
      BY <2>1, <2>2 DEF StageHonest
    <2> QED
      BY <2>4, <2>5
  <1> QED
    BY <1>1, <1>2

LEMMA SetIdle ==
  ASSUME NEW new, NEW back, NEW ik \in SUBSET Pids,
         NEW cs \in [Pools -> SUBSET Pids], NEW pr \in [Pids -> ProcStates],
         Exact(cs, pr), fpm_pctl_set(new, cs, pr, back),
         StageHonest(stage', pr), Heeded(ik, quitting, pr)
  PROVE  StageHonest(stage', proc') /\ Heeded(ik, quitting', proc')
  <1>1. CASE CanOverride(fpm_state, new)
    BY <1>1, NextIdle DEF fpm_pctl_set
  <1>2. CASE ~CanOverride(fpm_state, new)
    BY <1>2 DEF fpm_pctl_set
  <1> QED
    BY <1>1, <1>2

LEMMA IdleInit == Init => IdleInv
BY DEF Init, IdleInv, StageHonest, Heeded

LEMMA IdleNext == TypeInv /\ ReapInv /\ IdleInv /\ [Next]_vars => IdleInv'
  <1> SUFFICES ASSUME TypeInv, ReapInv, IdleInv, [Next]_vars PROVE IdleInv'
    OBVIOUS
  <1> DEFINE Goal == /\ StageHonest(stage', proc')
                     /\ Heeded(idle_kill' \ {victim'}, quitting', proc')
                     /\ victim' # None => master' = "kill" /\ victim' \in Spoken(proc')
  <1>s. SUFFICES Goal
    BY DEF IdleInv, StageHonest, Heeded, Spoken
  <1>t. /\ TypeOK /\ children \in [Pools -> SUBSET Pids] /\ proc \in [Pids -> ProcStates]
        /\ idle_kill \subseteq Pids /\ None \notin Pids
    BY ModelAssumption DEF TypeInv, TypeOK
  <1>e. Exact(children, proc)
    BY <1>t, ReapInvParts
  <1>i. /\ StageHonest(stage, proc)
        /\ Heeded(idle_kill \ {victim}, quitting, proc)
        /\ victim # None => master = "kill" /\ victim \in Spoken(proc)
    BY DEF IdleInv
  <1>n. ASSUME master # "kill"
        PROVE  victim = None /\ Heeded(idle_kill, quitting, proc)
    <2>1. victim = None /\ idle_kill \ {victim} = idle_kill
      BY <1>n, <1>t, <1>i
    <2> QED
      BY <2>1, <1>i
  <1>g. ASSUME StageHonest(stage', proc'), Heeded(idle_kill', quitting', proc'), victim' = None
        PROVE  Goal
    BY <1>g DEF Heeded
  <1>m. ASSUME NEW p \in Pools, NEW max, fpm_children_make(p, children, proc, max),
               UNCHANGED stage, UNCHANGED victim, master # "kill"
        PROVE  Goal
    <2>1. /\ Heeded(idle_kill, quitting, proc) /\ StageHonest(stage', proc)
          /\ victim' = None
      BY <1>m, <1>i, <1>n
    <2>2. StageHonest(stage', proc') /\ Heeded(idle_kill', quitting', proc')
      BY <1>m, <2>1, <1>t, <1>e, MakeIdle
    <2> HIDE DEF Goal
    <2> QED
      BY <2>1, <2>2, <1>g, Zenon
  <1>1. ASSUME NEW p \in Pools, StartPool(p) PROVE Goal
    <2>1. fpm_children_make(p, children, proc, StartTarget(p))
      BY <1>1, Zenon DEF StartPool, fpm_children_make
    <2>2. master = "start" /\ UNCHANGED <<victim, stage>>
      BY <1>1, Zenon DEF StartPool
    <2> HIDE DEF Goal
    <2> QED
      BY <2>1, <2>2, <1>m
  <1>2. ASSUME NEW p \in Pools, StartPoolFails(p) PROVE Goal
    <2>1. PICK new \in SUBSET {q \in Pids : proc[q] = "none"} :
            /\ children' = [children EXCEPT ![p] = @ \cup new]
            /\ fpm_pctl_set("TERMINATING", [children EXCEPT ![p] = @ \cup new],
                 [q \in Pids |-> IF q \in new THEN "init" ELSE proc[q]], "loop")
      BY <1>2, Zenon DEF StartPoolFails
    <2> DEFINE cs == [children EXCEPT ![p] = @ \cup new]
               pr == [q \in Pids |-> IF q \in new THEN "init" ELSE proc[q]]
    <2>2. master = "start" /\ UNCHANGED <<victim, idle_kill, stage>>
      BY <1>2, Zenon DEF StartPoolFails
    <2>3. cs \in [Pools -> SUBSET Pids] /\ pr \in [Pids -> ProcStates]
      BY <1>t DEF ProcStates, Living
    <2>4. Exact(cs, pr)
      <3>1. \A r \in Pools : cs[r] = IF r = p THEN children[p] \cup new ELSE children[r]
        BY <1>t
      <3>2. \A r \in Pools : new \cap children[r] = {}
        BY <1>e DEF Exact
      <3>3. \A q \in Pids : pr[q] # "none" <=> \E r \in Pools : q \in cs[r]
        BY <3>1, <1>e DEF Exact
      <3>4. \A p1, p2 \in Pools : p1 # p2 => cs[p1] \cap cs[p2] = {}
        BY <3>1, <3>2, <1>e DEF Exact
      <3> QED
        BY <3>3, <3>4 DEF Exact
    <2>5. Heeded(idle_kill, quitting, proc) /\ victim = None
      BY <2>2, <1>n
    <2>6. Heeded(idle_kill, quitting, pr)
      BY <2>5, <1>t DEF Heeded
    <2>7. StageHonest(stage', pr)
      BY <2>2, <1>i DEF StageHonest, Spoken, Dead
    <2>8. StageHonest(stage', proc') /\ Heeded(idle_kill, quitting', proc')
      <3> HIDE DEF cs, pr
      <3> QED
        BY <2>1, <2>3, <2>4, <2>6, <2>7, <1>t, SetIdle, Zenon DEF cs, pr
    <2> QED
      BY <2>2, <2>5, <2>8, <1>g, SMTT(30)
  <1>3. CASE EnterLoop \/ FcgiInit \/ FpmInit \/ FpmInitFails
    <2>1. /\ master # "kill" /\ UNCHANGED <<victim, idle_kill, stage, proc, quitting>>
      BY <1>3 DEF EnterLoop, FcgiInit, FpmInit, FpmInitFails, poolVars, procVars
    <2> QED
      BY <2>1, <1>n, <1>g, <1>i
  <1>4. ASSUME NEW s \in Signals, Deliver(s) PROVE Goal
    <2>1. /\ UNCHANGED <<victim, idle_kill, stage, proc, quitting>>
          /\ UNCHANGED master \/ master \in {"exec", "boot"}
      BY <1>4 DEF Deliver, poolVars, procVars
    <2> QED
      BY <2>1, <1>i
  <1>5. CASE fpm_got_signal
    <2>1. /\ master = "loop" /\ UNCHANGED <<victim, idle_kill, stage>>
          /\ \/ UNCHANGED <<proc, quitting>>
             \/ fpm_pctl_set(Requested(Head(sp)), children, proc, "loop")
      BY <1>5 DEF fpm_got_signal, poolVars
    <2>2. victim = None /\ Heeded(idle_kill, quitting, proc)
      BY <2>1, <1>n
    <2>3. StageHonest(stage', proc') /\ Heeded(idle_kill, quitting', proc')
      BY <2>1, <2>2, <1>t, <1>e, <1>i, SetIdle
    <2> QED
      BY <2>1, <2>2, <2>3, <1>g
  <1>6. CASE fpm_pctl_action
    <2>1. /\ master = "loop" /\ UNCHANGED <<victim, idle_kill, stage>>
          /\ fpm_pctl_action_next(fpm_state, fpm_signal_sent, children, proc, "loop",
                                  fpm_event_trigger(timers))
      BY <1>6 DEF fpm_pctl_action, poolVars
    <2>2. victim = None /\ Heeded(idle_kill, quitting, proc)
      BY <2>1, <1>n
    <2>3. StageHonest(stage', proc') /\ Heeded(idle_kill, quitting', proc')
      BY <2>1, <2>2, <1>t, <1>e, <1>i, NextIdle
    <2> QED
      BY <2>1, <2>2, <2>3, <1>g
  <1>7. ASSUME NEW p \in Pools, Maintenance(p) PROVE Goal
    <2>1. /\ master = "loop" /\ UNCHANGED stage
          /\ \/ ChooseVictim(p)
             \/ UNCHANGED <<victim, idle_kill, proc, quitting>>
             \/ /\ fpm_children_make(p, children, proc, SpawnTarget(p, children, ToFork(p)))
                /\ UNCHANGED victim
      BY <1>7, Zenon DEF Maintenance
    <2>2. CASE ChooseVictim(p)
      <3>1. PICK q \in LastIdle(p) : victim' = q /\ idle_kill' = idle_kill \cup {q}
        BY <2>2 DEF ChooseVictim
      <3>2. master' = "kill" /\ UNCHANGED <<proc, quitting>>
        BY <2>2 DEF ChooseVictim
      <3>3. q \in Pids /\ stage[q] = "accepting"
        BY <1>t DEF LastIdle, Idle
      <3>4. q \in Spoken(proc)
        BY <3>3, <1>i DEF StageHonest
      <3>5. Heeded(idle_kill, quitting, proc)
        BY <2>1, <1>n
      <3>6. Heeded(idle_kill' \ {victim'}, quitting', proc')
        BY <3>1, <3>2, <3>5 DEF Heeded
      <3> QED
        BY <3>1, <3>2, <3>4, <3>6, <2>1, <1>i
    <2>3. CASE UNCHANGED <<victim, idle_kill, proc, quitting>>
      BY <2>1, <2>3, <1>i, <1>n, <1>g, SMTT(30)
    <2> QED
      BY <2>1, <2>2, <2>3, <1>m
  <1>8. CASE IdleKill
    <2>1. /\ master = "kill" /\ victim' = None
          /\ quitting' = IF proc[victim] \in Heeding THEN quitting \cup {victim} ELSE quitting
          /\ UNCHANGED <<idle_kill, proc, stage>>
      BY <1>8 DEF IdleKill, poolVars
    <2>2. victim \in Spoken(proc)
      BY <2>1, <1>t, <1>i DEF TypeInv
    <2>3. victim \in quitting' \/ proc[victim] \in Dead
      BY <2>1, <2>2 DEF Spoken, Heeding
    <2>4. proc[victim] # "none"
      BY <2>2 DEF Spoken, Dead
    <2>5. Heeded(idle_kill', quitting', proc')
      BY <2>1, <2>3, <2>4, <1>i DEF Heeded
    <2> QED
      BY <2>1, <2>5, <1>i, <1>g
  <1>9. ASSUME NEW p \in Pools, fpm_pctl_on_socket_accept(p) PROVE Goal
    <2>1. /\ master = "loop" /\ UNCHANGED <<stage, victim>>
          /\ \/ UNCHANGED <<idle_kill, proc, quitting>>
             \/ fpm_children_make(p, children, proc, SpawnTarget(p, children, 1))
      BY <1>9 DEF fpm_pctl_on_socket_accept, masterVars
    <2>2. CASE UNCHANGED <<idle_kill, proc, quitting>>
      BY <2>1, <2>2, <1>i, <1>n, <1>g
    <2> QED
      BY <2>1, <2>2, <1>m, SMTT(30)
  <1>10. ASSUME NEW q \in Pids, BuryOne(q) PROVE Goal
    <2> DEFINE p == PoolOf(q)
               cs == [children EXCEPT ![p] = @ \ {q}]
               pr == [proc EXCEPT ![q] = "none"]
    <2>1. master = "bury" /\ q \in Linked /\ UNCHANGED victim /\ stage' = [stage EXCEPT ![q] = "none"]
      BY <1>10, Zenon DEF BuryOne, fpm_scoreboard_proc_free
    <2>2. /\ p \in Pools /\ Exact(cs, pr)
          /\ cs \in [Pools -> SUBSET Pids] /\ pr \in [Pids -> ProcStates]
      BY <2>1, <1>t, <1>e, UnlinkExact, Zenon DEF ProcStates
    <2>3. victim' = None /\ Heeded(idle_kill, quitting, proc)
      BY <2>1, <1>n
    <2>4. Heeded(idle_kill \ {q}, quitting, pr)
      BY <2>3, <1>t DEF Heeded
    <2>5. StageHonest(stage', pr)
      BY <2>1, <1>i, <1>t DEF StageHonest, Spoken, TypeOK
    <2>6. \A c \in Pids : c \in AllOf(cs) => pr[c] = proc[c]
      <3>1. pr[q] = "none" /\ \A c \in Pids : c # q => pr[c] = proc[c]
        BY <1>t
      <3>2. q \notin AllOf(cs)
        <4> HIDE DEF cs, pr
        <4>1. \A r \in Pools : q \notin cs[r]
          BY <2>2, <3>1 DEF Exact
        <4> QED
          BY <4>1, AllOfMember
      <3> QED
        BY <3>1, <3>2
    <2>7. ASSUME proc' = pr, idle_kill' = {} PROVE Goal
      <3>1. Heeded(idle_kill', quitting', proc')
        BY <2>7 DEF Heeded
      <3> QED
        BY <2>3, <2>5, <2>7, <3>1, <1>g
    <2>8. ASSUME fpm_pctl_set("RELOADING", cs, pr, "bury"), idle_kill' = idle_kill \ {q}
          PROVE  Goal
      <3>1. StageHonest(stage', proc') /\ Heeded(idle_kill \ {q}, quitting', proc')
        <4> HIDE DEF cs, pr
        <4> QED
          BY <2>2, <2>4, <2>5, <2>8, <1>t, SetIdle
      <3> QED
        BY <2>3, <2>8, <3>1, <1>g
    <2>9. ASSUME NEW max, fpm_children_make(p, cs, pr, max)
          PROVE  Goal
      <3>1. StageHonest(stage', proc') /\ Heeded(idle_kill', quitting', proc')
        <4> HIDE DEF p, cs, pr
        <4> QED
          BY <2>2, <2>3, <2>5, <2>6, <2>9, <1>t, MakeIdle, SMTT(30)
      <3> QED
        BY <2>3, <3>1, <1>g
    <2> HIDE DEF Goal
    <2> QED
      BY <1>10, <2>7, <2>8, <2>9, ZenonT(30) DEF BuryOne
  <1>11. CASE BuryDone
    <2>1. master # "kill" /\ UNCHANGED <<victim, idle_kill, stage, proc, quitting>>
      BY <1>11 DEF BuryDone, poolVars, procVars
    <2> QED
      BY <2>1, <1>n, <1>g, <1>i
  <1>12. ASSUME NEW q \in Pids, ChildStep(q) PROVE Goal
    <2>1. /\ Begins(q) \/ Ends(q) \/ Serves(q)
          /\ UNCHANGED <<master, victim, idle_kill, quitting>>
      BY <1>12, <1>t, ChildCases DEF masterVars, poolVars
    <2>2. /\ \A c \in Pids : proc[c] # "none" => proc'[c] # "none"
          /\ \A c \in Pids : proc[c] \in Dead => proc'[c] \in Dead
          /\ \A c \in Spoken(proc) : c \in Spoken(proc')
      BY <2>1, <1>t DEF Begins, Ends, Serves, Spoken, Dead, Living, Heeding
    <2>3. StageHonest(stage', proc')
      <3>1. CASE Begins(q) \/ Ends(q)
        BY <2>2, <3>1, <1>i DEF Begins, Ends, StageHonest
      <3>2. CASE Serves(q)
        <4>1. q \in Spoken(proc')
          BY <3>2, <1>t DEF Serves, Spoken
        <4>2. \A c \in Pids : c # q => stage'[c] = stage[c]
          BY <3>2, <1>t DEF Serves, TypeOK
        <4> QED
          BY <4>1, <4>2, <2>2, <1>i DEF StageHonest
      <3> QED
        BY <2>1, <3>1, <3>2
    <2>4. Heeded(idle_kill' \ {victim'}, quitting', proc')
      BY <2>1, <2>2, <1>i, <1>t DEF Heeded
    <2> QED
      BY <2>1, <2>2, <2>3, <2>4, <1>i
  <1>13. CASE Environment \/ Stopped \/ UNCHANGED vars
    <2>1. UNCHANGED <<master, victim, idle_kill, stage, proc, quitting>>
      BY <1>13 DEF Environment, Connect, SendSignal, Stopped, vars, masterVars, poolVars, procVars
    <2> QED
      BY <2>1, <1>i
  <1> HIDE DEF Goal
  <1> QED
    BY <1>1, <1>2, <1>3, <1>4, <1>5, <1>6, <1>7, <1>8, <1>9, <1>10, <1>11, <1>12, <1>13, SMTT(30)
       DEF Next, MasterStep

(* A child whose idle_kill flag is set has had its handlers when SIGQUIT was  *)
(* sent, for any number of children and reuses of pids and scoreboard slots.  *)
THEOREM IdleKillsAreHeeded == Spec => []IdleKillHeeded
  <1>1. TypeInv /\ IdleInv => IdleKillHeeded
    BY DEF IdleInv, Heeded, IdleKillHeeded, Zombie, TypeInv, TypeOK
  <1>2. TypeInv /\ ReapInv /\ IdleInv /\ [Next]_vars => IdleInv'
    BY IdleNext
  <1> QED
    BY <1>1, <1>2, IdleInit, ReapInvariant, PTL DEF Spec
============================================================================
