------------------------- MODULE FpmServiceProofs --------------------------
(***************************************************************************)
(* How many children there are: no pool has more than pm.max_children, nor *)
(* all pools together more than process.max; what the steps of             *)
(* FpmPoolProofs keep holds in every execution; the master implements the  *)
(* abstract service: every step is, under the mapping of Service, a step   *)
(* of FpmService or no step at all; and the signals to the children come   *)
(* in the order of the escalation.                                         *)
(***************************************************************************)
EXTENDS FpmPoolProofs, FiniteSetTheorems

(* The limits *)

(* WithinLimits for lists cs. *)
Within(cs) ==
  /\ \A p \in Pools : Cardinality(cs[p]) <= PmMaxChildren[p]
  /\ ProcessMax >= 1 => Cardinality(AllOf(cs)) <= ProcessMax

LEMMA Finite ==
  ASSUME NEW S \in SUBSET Pids
  PROVE  IsFiniteSet(S) /\ Cardinality(S) \in Nat
BY ModelAssumption, FS_Subset, FS_CardinalityType

(* What FpmPoolProofs takes of finite sets.                                   *)
LEMMA CountedHolds == Counted
  <1>1. ASSUME NEW S \in SUBSET Pids
        PROVE  Cardinality(S) \in Nat /\ (Cardinality(S) = 0 <=> S = {})
    BY Finite, FS_EmptySet, Zenon
  <1>2. ASSUME NEW S \in SUBSET Pids, NEW T \in SUBSET S
        PROVE  Cardinality(T) <= Cardinality(S)
    BY Finite, FS_Subset
  <1>3. ASSUME NEW S \in SUBSET Pids, NEW T \in SUBSET Pids, S \cap T = {}
        PROVE  Cardinality(S \cup T) = Cardinality(S) + Cardinality(T)
    <2>1. /\ Cardinality(S \cup T) = Cardinality(S) + Cardinality(T) - Cardinality(S \cap T)
          /\ Cardinality(S \cap T) = 0
      BY <1>3, Finite, FS_Union, FS_EmptySet, Zenon
    <2> QED
      BY <2>1, Finite
  <1> QED
    BY <1>1, <1>2, <1>3, Zenon DEF Counted

LEMMA AllOfPids ==
  ASSUME NEW cs \in [Pools -> SUBSET Pids]
  PROVE  AllOf(cs) \subseteq Pids
BY Zenon DEF AllOf

(* fpm_children_make stops at the limit it is given and at process.max.       *)
LEMMA GrowWithin ==
  ASSUME NEW cs \in [Pools -> SUBSET Pids], NEW p \in Pools, NEW new \in SUBSET Pids,
         NEW max \in Int, max <= PmMaxChildren[p],
         Within(cs), Cardinality(new) <= Missing(p, cs, max)
  PROVE  Within([cs EXCEPT ![p] = @ \cup new])
  <1> DEFINE cs2 == [cs EXCEPT ![p] = @ \cup new]
  <1>1. /\ IsFiniteSet(new) /\ Cardinality(new) \in Nat
        /\ IsFiniteSet(cs[p]) /\ Cardinality(cs[p]) \in Nat
        /\ IsFiniteSet(AllOf(cs)) /\ Cardinality(AllOf(cs)) \in Nat
    BY Finite, AllOfPids
  <1>2. ProcessMax \in Nat /\ PmMaxChildren[p] \in Nat
    BY ConfAssumption, Zenon
  <1>3. \A r \in Pools : cs2[r] = IF r = p THEN cs[p] \cup new ELSE cs[r]
    OBVIOUS
  <1>4. AllOf(cs2) = AllOf(cs) \cup new
    BY <1>3 DEF AllOf
  <1>5. CASE Cardinality(new) = 0
    <2>1. new = {}
      BY <1>1, <1>5, FS_EmptySet, Zenon
    <2>2. cs2 = cs
      BY <2>1, Zenon
    <2> QED
      BY <2>2, Zenon
  <1>6. CASE Cardinality(new) # 0
    <2>1. /\ Cardinality(new) <= max - Cardinality(cs[p])
          /\ ProcessMax >= 1 => Cardinality(new) <= ProcessMax - Cardinality(AllOf(cs))
      BY <1>1, <1>2, <1>6 DEF Missing, Positive, Smallest
    <2>2. Cardinality(cs[p] \cup new) <= Cardinality(cs[p]) + Cardinality(new)
      <3>1. Cardinality(cs[p] \cup new) =
              Cardinality(cs[p]) + Cardinality(new) - Cardinality(cs[p] \cap new)
        BY <1>1, FS_Union, Zenon
      <3>2. Cardinality(cs[p] \cap new) \in Nat
        BY Finite, Zenon
      <3> QED
        BY <1>1, <3>1, <3>2
    <2>3. Cardinality(AllOf(cs) \cup new) <= Cardinality(AllOf(cs)) + Cardinality(new)
      <3>1. Cardinality(AllOf(cs) \cup new) =
              Cardinality(AllOf(cs)) + Cardinality(new) - Cardinality(AllOf(cs) \cap new)
        BY <1>1, FS_Union, Zenon
      <3>2. Cardinality(AllOf(cs) \cap new) \in Nat
        BY Finite, Zenon
      <3> QED
        BY <1>1, <3>1, <3>2
    <2>4. Cardinality(cs[p] \cup new) \in Nat /\ Cardinality(AllOf(cs) \cup new) \in Nat
      BY Finite, AllOfPids, Zenon
    <2>5. Cardinality(cs[p] \cup new) <= PmMaxChildren[p]
      BY <1>1, <1>2, <2>1, <2>2, <2>4
    <2>6. ProcessMax >= 1 => Cardinality(AllOf(cs) \cup new) <= ProcessMax
      BY <1>1, <1>2, <2>1, <2>3, <2>4
    <2> QED
      BY <1>3, <1>4, <2>5, <2>6, Zenon DEF Within
  <1> QED
    BY <1>5, <1>6, Zenon

LEMMA MakeWithin ==
  ASSUME NEW cs \in [Pools -> SUBSET Pids], NEW pr, NEW p \in Pools,
         NEW max \in Int, max <= PmMaxChildren[p],
         Within(cs), fpm_children_make(p, cs, pr, max)
  PROVE  Within(children')
  <1>1. Missing(p, cs, max) \in Int
    BY Finite, AllOfPids, ConfAssumption DEF Missing, Positive, Smallest
  <1>2. PICK new \in SUBSET Pids :
          Cardinality(new) <= Missing(p, cs, max) /\ Fork(p, new, cs, pr)
    <2>1. \E new \in SUBSET Pids :
            /\ Cardinality(new) = Missing(p, cs, max) \/ Cardinality(new) < Missing(p, cs, max)
            /\ Fork(p, new, cs, pr)
      BY Zenon DEF fpm_children_make, MakeAll, MakeFails
    <2> QED
      BY <2>1, <1>1, Finite
  <1> QED
    BY <1>2, GrowWithin, Zenon DEF Fork

(* A reaped child makes room for one. *)
LEMMA UnlinkWithin ==
  ASSUME children \in [Pools -> SUBSET Pids], Within(children),
         NEW p \in Pools, NEW q \in children[p]
  PROVE  LET cs == [children EXCEPT ![p] = @ \ {q}]
         IN  /\ Within(cs)
             /\ Cardinality(cs[p]) + 1 <= PmMaxChildren[p]
             /\ Cardinality(cs[p]) \in Nat
  <1> DEFINE cs == [children EXCEPT ![p] = @ \ {q}]
  <1>1. \A r \in Pools : cs[r] = IF r = p THEN children[p] \ {q} ELSE children[r]
    OBVIOUS
  <1>2. /\ Cardinality(children[p] \ {q}) = Cardinality(children[p]) - 1
        /\ Cardinality(children[p]) \in Nat /\ Cardinality(children[p] \ {q}) \in Nat
    BY Finite, FS_RemoveElement
  <1>3. AllOf(cs) \subseteq AllOf(children)
    BY <1>1 DEF AllOf
  <1>4. /\ Cardinality(AllOf(cs)) <= Cardinality(AllOf(children))
        /\ Cardinality(AllOf(cs)) \in Nat /\ Cardinality(AllOf(children)) \in Nat
    BY <1>3, Finite, AllOfPids, FS_Subset, Zenon
  <1>5. PmMaxChildren[p] \in Nat /\ ProcessMax \in Nat
    BY ConfAssumption
  <1>6. Within(cs)
    BY <1>1, <1>2, <1>4, <1>5 DEF Within
  <1> QED
    BY <1>1, <1>2, <1>5, <1>6 DEF Within

LEMMA LimitInit == Init => WithinLimits
  <1> SUFFICES ASSUME Init PROVE WithinLimits
    OBVIOUS
  <1>1. AllOf(children) = {} /\ \A p \in Pools : children[p] = {}
    BY DEF Init, AllOf
  <1>2. Cardinality({}) = 0
    BY FS_EmptySet, Zenon
  <1>3. ProcessMax \in Nat /\ \A p \in Pools : PmMaxChildren[p] \in Nat
    BY ConfAssumption
  <1> QED
    BY <1>1, <1>2, <1>3 DEF WithinLimits, Linked

LEMMA LimitNext == TypeInv /\ WithinLimits /\ [Next]_vars => WithinLimits'
  <1> SUFFICES ASSUME TypeInv, WithinLimits, [Next]_vars PROVE Within(children')
    BY DEF WithinLimits, Within, Linked, AllOf
  <1>t. /\ TypeOK /\ children \in [Pools -> SUBSET Pids] /\ proc \in [Pids -> ProcStates]
    BY DEF TypeInv, TypeOK
  <1>w. Within(children)
    BY Zenon DEF WithinLimits, Within, Linked
  <1>c. \A p \in Pools : PmMaxChildren[p] \in Nat /\ Cardinality(children[p]) \in Nat
    BY <1>t, ConfAssumption, Finite
  <1>1. ASSUME NEW p \in Pools PROVE StartTarget(p) \in Int /\ StartTarget(p) <= PmMaxChildren[p]
    BY ConfAssumption DEF StartTarget, Styles
  <1>2. ASSUME NEW p \in Pools, StartPool(p) PROVE Within(children')
    <2>1. fpm_children_make(p, children, proc, StartTarget(p))
      BY <1>2 DEF StartPool, fpm_children_make
    <2> QED
      BY <2>1, <1>1, <1>t, <1>w, MakeWithin, Zenon
  <1>3. ASSUME NEW p \in Pools, StartPoolFails(p) PROVE Within(children')
    <2>1. PICK new \in SUBSET Pids :
            /\ Cardinality(new) < Missing(p, children, StartTarget(p))
            /\ children' = [children EXCEPT ![p] = @ \cup new]
      BY <1>3, Zenon DEF StartPoolFails
    <2>2. Missing(p, children, StartTarget(p)) \in Int
      BY <1>1, <1>t, Finite, AllOfPids, ConfAssumption DEF Missing, Positive, Smallest
    <2>3. Cardinality(new) <= Missing(p, children, StartTarget(p))
      BY <2>1, <2>2, Finite
    <2> QED
      BY <2>1, <2>3, <1>1, <1>t, <1>w, GrowWithin, Zenon
  <1>4. ASSUME NEW p \in Pools, Maintenance(p) PROVE Within(children')
    <2>1. \/ children' = children
          \/ /\ Pm[p] = "dynamic"
             /\ fpm_children_make(p, children, proc, SpawnTarget(p, children, ToFork(p)))
      BY <1>4 DEF Maintenance, ChooseVictim
    <2>2. CASE /\ Pm[p] = "dynamic"
               /\ fpm_children_make(p, children, proc, SpawnTarget(p, children, ToFork(p)))
      <3>1. Cardinality(Idle(p)) \in Nat
        BY <1>t, Finite DEF Idle
      <3>2. ToFork(p) \in Int /\ ToFork(p) <= PmMaxChildren[p] - Cardinality(children[p])
        BY <3>1, <1>c, <1>t, ConfAssumption, SMTT(30) DEF ToFork, Smallest, TypeOK
      <3>3. /\ SpawnTarget(p, children, ToFork(p)) \in Int
            /\ SpawnTarget(p, children, ToFork(p)) <= PmMaxChildren[p]
        BY <2>2, <3>2, <1>c DEF SpawnTarget
      <3> QED
        BY <2>2, <3>3, <1>t, <1>w, MakeWithin, Zenon
    <2> QED
      BY <2>1, <2>2, <1>w
  <1>5. ASSUME NEW p \in Pools, fpm_pctl_on_socket_accept(p) PROVE Within(children')
    <2>1. \/ children' = children
          \/ /\ Cardinality(children[p]) < PmMaxChildren[p]
             /\ fpm_children_make(p, children, proc, SpawnTarget(p, children, 1))
      BY <1>5 DEF fpm_pctl_on_socket_accept
    <2>2. CASE /\ Cardinality(children[p]) < PmMaxChildren[p]
               /\ fpm_children_make(p, children, proc, SpawnTarget(p, children, 1))
      <3>1. /\ SpawnTarget(p, children, 1) \in Int
            /\ SpawnTarget(p, children, 1) <= PmMaxChildren[p]
        BY <2>2, <1>c DEF SpawnTarget
      <3> QED
        BY <2>2, <3>1, <1>t, <1>w, MakeWithin, Zenon
    <2> QED
      BY <2>1, <2>2, <1>w, Zenon
  <1>6. ASSUME NEW q \in Pids, BuryOne(q) PROVE Within(children')
    <2> DEFINE p == PoolOf(q)
               cs == [children EXCEPT ![p] = @ \ {q}]
               pr == [proc EXCEPT ![q] = "none"]
               max == IF RestartChild(q) THEN SpawnTarget(p, cs, 1) ELSE Cardinality(cs[p])
    <2>1. p \in Pools /\ q \in children[p]
      BY <1>6, AllOfMember DEF BuryOne, PoolOf, Linked
    <2>2. cs \in [Pools -> SUBSET Pids]
      BY <1>t, Zenon
    <2>3. Within(cs) /\ Cardinality(cs[p]) + 1 <= PmMaxChildren[p] /\ Cardinality(cs[p]) \in Nat
      BY <2>1, <1>t, <1>w, UnlinkWithin, Zenon
    <2>4. children' = cs \/ fpm_children_make(p, cs, pr, max)
      BY <1>6 DEF BuryOne
    <2>5. max \in Int /\ max <= PmMaxChildren[p]
      BY <2>1, <2>3, <1>c DEF SpawnTarget
    <2> HIDE DEF p, cs, pr, max
    <2> QED
      BY <2>1, <2>2, <2>3, <2>4, <2>5, MakeWithin, Zenon
  <1>7. ASSUME UNCHANGED children PROVE Within(children')
    BY <1>7, <1>w, Zenon
  <1>8. ASSUME NEW q \in Pids, ChildStep(q) PROVE Within(children')
    BY <1>7, <1>8, <1>t, ChildCases, Zenon DEF poolVars
  <1>9. CASE \/ EnterLoop \/ FcgiInit \/ FpmInit \/ FpmInitFails \/ (\E s \in Signals : Deliver(s))
             \/ fpm_got_signal \/ fpm_pctl_action \/ IdleKill \/ BuryDone \/ Environment
             \/ Stopped \/ UNCHANGED vars
    <2>1. UNCHANGED children
      BY <1>9, Zenon DEF EnterLoop, FcgiInit, FpmInit, FpmInitFails, Deliver, fpm_got_signal, fpm_pctl_action,
                  IdleKill, BuryDone, Environment, Connect, SendSignal, Stopped, vars, poolVars
    <2> QED
      BY <1>7, <2>1, SMTT(30)
  <1> QED
    BY <1>2, <1>3, <1>4, <1>5, <1>6, <1>8, <1>9, Zenon DEF Next, MasterStep

(* No interleaving of deaths, forks, failed forks, idle maintenance and       *)
(* reloads takes a pool beyond pm.max_children or all beyond process.max.     *)
THEOREM LimitsHold == Spec => []WithinLimits
  <1>1. TypeInv /\ WithinLimits /\ [Next]_vars => WithinLimits'
    BY LimitNext
  <1> QED
    BY <1>1, LimitInit, ReapInvariant, PTL DEF Spec

----------------------------------------------------------------------------
(* The pools. *)

(* A dynamic pool never tells its last child to quit, as php-fpm.conf says,   *)
(* however deaths, forks, requests and the maintenance interleave.  It takes  *)
(* process.max at its default, no limit: under one, other pools can use up    *)
(* the processes that the pool would need.                                    *)
THEOREM DynamicPoolsKeepOne == ASSUME ProcessMax = 0 PROVE Spec => []DynamicKeepsOne
  <1>1. Counted
    BY CountedHolds, Zenon
  <1> QED
    BY <1>1, KeepInvariant, KeepMeans, PTL

(* When a child of a static pool is reaped and no fork fails, the pool is full *)
(* again: children that earlier forks failed to make are made up for.          *)
THEOREM StaticPoolsRefill == Spec => StaticRefilled
  <1> DEFINE Refills(p) ==
        /\ Pm[p] = "static" /\ ProcessMax = 0
        /\ fpm_state = "NORMAL" /\ fpm_state' = "NORMAL"
        /\ \E q \in children[p] : Zombie(q) /\ ~Zombie(q)'
        /\ forkfails' = forkfails
        => Cardinality(children'[p]) = PmMaxChildren[p]
  <1>1. CASE ProcessMax = 0
    <2>0. Counted
      BY CountedHolds, Zenon
    <2>1. TypeInv /\ ReapInv /\ KeepInv /\ WithinLimits /\ [Next]_vars => [\A p \in Pools : Refills(p)]_vars
      BY <1>1, <2>0, StaticStep, Zenon
    <2> QED
      BY <1>1, <2>0, <2>1, KeepInvariant, LimitsHold, PTL DEF Spec, StaticRefilled
  <1>2. CASE ProcessMax # 0
    <2>1. [\A p \in Pools : Refills(p)]_vars
      BY <1>2, Zenon
    <2> QED
      BY <2>1, PTL DEF StaticRefilled
  <1> QED
    BY <1>1, <1>2

----------------------------------------------------------------------------
(* The refinement *)

Refines == [Service!Next]_<<Phase, Existing>>

(* Where the image that holds fpm_state runs, Phase is fpm_state.             *)
Up == {"start", "loop", "bury", "kill"}

LEMMA UpPhase ==
  /\ master \in Up => Phase = fpm_state
  /\ master' \in Up => Phase' = fpm_state'
  /\ master' = "exec" => Phase' = "RESTARTING"
  /\ master' = "exited" => Phase' = "STOPPED"
BY DEF Up, Phase, Gone

(* A step that keeps the state of process control may start workers in state  *)
(* NORMAL only.                                                               *)
LEMMA QuietStep ==
  ASSUME master \in Up, master' \in Up, UNCHANGED fpm_state,
         fpm_state = "NORMAL" \/ Existing' = Existing
  PROVE  Refines
  <1>1. Existing' \subseteq Pids
    BY Zenon DEF Existing
  <1> QED
    BY <1>1, UpPhase, Zenon DEF Refines, Service!Next, Service!Manage

LEMMA StutterStep ==
  ASSUME Phase' = Phase, UNCHANGED proc
  PROVE  Refines
BY DEF Refines, Existing

(* Outside of state NORMAL fpm_children_make forks nobody.                    *)
LEMMA MakeNobody ==
  ASSUME NEW p \in Pools, NEW cs, NEW pr \in [Pids -> ProcStates], NEW max,
         fpm_state # "NORMAL", fpm_children_make(p, cs, pr, max)
  PROVE  proc' = pr
  <1>1. Missing(p, cs, max) = 0
    BY Zenon DEF Missing
  <1>2. \A new \in SUBSET Pids : IsFiniteSet(new) /\ Cardinality(new) \in Nat
    BY ModelAssumption, FS_Subset, FS_CardinalityType
  <1>3. ~MakeFails(p, cs, pr, max)
    BY <1>1, <1>2 DEF MakeFails
  <1>4. PICK new \in SUBSET Pids : Cardinality(new) = 0 /\ Fork(p, new, cs, pr)
    BY <1>1, <1>3, Zenon DEF fpm_children_make, MakeAll
  <1>5. new = {}
    BY <1>2, <1>4, FS_EmptySet, Zenon
  <1> QED
    BY <1>4, <1>5 DEF Fork

(* fpm_children_make, on lists and processes that may just have lost a child. *)
LEMMA MakeStep ==
  ASSUME TypeOK, NEW p \in Pools, NEW max,
         master \in Up, UNCHANGED <<master, fpm_state>>,
         fpm_children_make(p, children, proc, max)
  PROVE  Refines
  <1>1. CASE fpm_state = "NORMAL"
    BY <1>1, QuietStep
  <1>2. CASE fpm_state # "NORMAL"
    <2>1. proc' = proc
      BY <1>2, MakeNobody, Zenon DEF TypeOK
    <2> QED
      BY <2>1, QuietStep DEF Existing
  <1> QED
    BY <1>1, <1>2, Zenon

(* The processes of pr, and what kill_all makes of them.                      *)
Exists(pr) == {q \in Pids : pr[q] # "none"}

LEMMA NextExists ==
  ASSUME NEW st \in States, NEW sent, NEW back, NEW tq,
         NEW cs \in [Pools -> SUBSET Pids], NEW pr \in [Pids -> ProcStates],
         Exact(cs, pr), fpm_pctl_action_next(st, sent, cs, pr, back, tq)
  PROVE  /\ fpm_state' = st
         /\ Existing' = Exists(pr)
         /\ \/ /\ Exists(pr) = {}
               /\ master' \in IF st = "RELOADING" THEN {"exec", "exited"} ELSE {"exited"}
            \/ Exists(pr) # {} /\ master' = back
  <1>1. CASE NoChild(cs)
    BY <1>1, NoChildGone
       DEF fpm_pctl_action_next, fpm_pctl_action_last, AllGone, Exists, Existing
  <1>2. CASE ~NoChild(cs)
    <2> DEFINE sig == NextSignal(st, sent)
               after == [q \in Pids |-> IF q \in AllOf(cs) THEN Signalled(pr, q, sig) ELSE pr[q]]
    <2>1. master' = back /\ proc' = after /\ fpm_state' = st
      BY <1>2 DEF fpm_pctl_action_next, fpm_pctl_kill_all
    <2>2. \A q \in Pids : after[q] # "none" <=> pr[q] # "none"
      BY Zenon DEF Signalled, Living, Heeding
    <2>3. Existing' = Exists(pr)
      BY <2>1, <2>2, Zenon DEF Existing, Exists
    <2>4. Exists(pr) # {}
      <3>1. PICK q : q \in AllOf(cs)
        BY <1>2 DEF NoChild
      <3>2. q \in Pids /\ pr[q] # "none"
        BY <3>1, AllOfMember, Zenon DEF Exact
      <3> QED
        BY <3>2 DEF Exists
    <2> QED
      BY <2>1, <2>3, <2>4, Zenon
  <1> QED
    BY <1>1, <1>2

(* fpm_pctl with a new state.  The processes pr are the existing ones, except *)
(* in state NORMAL, where children may have been started or buried before.    *)
LEMMA SetStep ==
  ASSUME TypeOK, NEW new \in PctlStates, NEW back \in Up,
         NEW cs \in [Pools -> SUBSET Pids], NEW pr \in [Pids -> ProcStates],
         Exact(cs, pr), master \in Up, fpm_pctl_set(new, cs, pr, back),
         fpm_state = "NORMAL" \/ Exists(pr) = Existing,
         Exists(pr) = {} => Service!AtMostOne(Existing)
  PROVE  Refines
  <1>1. CASE CanOverride(fpm_state, new)
    <2>1. fpm_pctl_action_next(new, "0", cs, pr, back, fpm_event_queue_add(timers))
      BY <1>1, Zenon DEF fpm_pctl_set
    <2>2. new \in States /\ Phase = fpm_state /\ fpm_state \in States
      BY UpPhase DEF PctlStates, States, TypeOK
    <2>3. /\ fpm_state' = new /\ Existing' = Exists(pr)
          /\ \/ /\ Exists(pr) = {}
                /\ master' \in IF new = "RELOADING" THEN {"exec", "exited"} ELSE {"exited"}
             \/ Exists(pr) # {} /\ master' = back
      BY <2>1, <2>2, NextExists
    <2>4. CASE Exists(pr) = {}
      <3>1. /\ Phase' \in IF new = "RELOADING" THEN {"RESTARTING", "STOPPED"} ELSE {"STOPPED"}
        BY <2>3, <2>4, UpPhase, Zenon
      <3>2. new = "RELOADING" => fpm_state = "NORMAL"
        BY <1>1 DEF CanOverride
      <3>3. fpm_state \in {"NORMAL"} \cup Service!Ending
        BY <2>2 DEF States, Service!Ending
      <3> QED
        BY <2>2, <2>3, <2>4, <3>1, <3>2, <3>3, Zenon DEF Refines, Service!Next, Service!Leave
    <2>5. CASE Exists(pr) # {}
      <3>1. Phase' = new /\ Existing' # {} /\ Existing' \subseteq Pids
        BY <2>3, <2>5, UpPhase DEF Exists
      <3>2. CASE fpm_state = "NORMAL"
        BY <2>2, <3>1, <3>2, Zenon
           DEF Refines, Service!Next, Service!Begin, Service!Ending, PctlStates
      <3>3. CASE fpm_state # "NORMAL"
        <4>1. fpm_state \in Service!Ending /\ new \in Service!Stronger[fpm_state]
          BY <1>1, <3>3, SMTT(30) DEF CanOverride, Service!Ending, Service!Stronger
        <4> QED
          BY <2>2, <2>3, <3>1, <3>3, <4>1, Zenon DEF Refines, Service!Next, Service!Hasten
      <3> QED
        BY <3>2, <3>3, Zenon
    <2> QED
      BY <2>4, <2>5
  <1>2. CASE ~CanOverride(fpm_state, new)
    <2>1. master' = back /\ proc' = pr /\ UNCHANGED fpm_state
      BY <1>2, Zenon DEF fpm_pctl_set, pctlVars
    <2>2. Existing' = Exists(pr)
      BY <2>1 DEF Existing, Exists
    <2> QED
      BY <2>1, <2>2, QuietStep
  <1> QED
    BY <1>1, <1>2

(* Burying child c: the last one, one of several, or one that is replaced.    *)
LEMMA BuryStep ==
  ASSUME TypeOK, Exact(children, proc), NEW c \in Pids, BuryOne(c)
  PROVE  Refines
  <1> DEFINE p == PoolOf(c)
             cs == [children EXCEPT ![p] = @ \ {c}]
             pr == [proc EXCEPT ![c] = "none"]
  <1>t. children \in [Pools -> SUBSET Pids] /\ proc \in [Pids -> ProcStates]
    BY Zenon DEF TypeOK
  <1>1. /\ master = "bury" /\ c \in Linked /\ proc[c] \in Dead
        /\ \/ /\ fpm_state # "NORMAL" /\ NoChild(cs) /\ fpm_pctl_action_last(fpm_state)
              /\ proc' = pr
           \/ fpm_state = "NORMAL" /\ fpm_pctl_set("RELOADING", cs, pr, "bury")
           \/ /\ fpm_state = "NORMAL" \/ ~NoChild(cs)
              /\ \E max : fpm_children_make(p, cs, pr, max)
              /\ UNCHANGED <<master, fpm_state>>
    BY Zenon DEF BuryOne, Zombie, pctlVars
  <1>2. p \in Pools /\ Exact(cs, pr)
    BY <1>1, <1>t, UnlinkExact, Zenon
  <1>3. cs \in [Pools -> SUBSET Pids] /\ pr \in [Pids -> ProcStates]
    BY <1>2, <1>t, Zenon DEF ProcStates
  <1>4. Exists(pr) = Existing \ {c} /\ c \in Existing
    BY <1>1, <1>t DEF Exists, Existing, Dead
  <1>6. fpm_state \in States /\ master \in Up /\ Phase = fpm_state
    BY <1>1, UpPhase DEF TypeOK, Up
  <1> HIDE DEF p, cs, pr
  <1>5. Exists(pr) = {} => Service!AtMostOne(Existing)
    BY <1>4 DEF Service!AtMostOne
  <1>7. CASE fpm_state # "NORMAL" /\ NoChild(cs) /\ fpm_pctl_action_last(fpm_state) /\ proc' = pr
    <2>1. Exists(pr) = {} /\ Existing' = {}
      BY <1>2, <1>7, NoChildGone, Zenon DEF AllGone, Exists, Existing
    <2>2. Phase' \in IF fpm_state = "RELOADING" THEN {"RESTARTING", "STOPPED"} ELSE {"STOPPED"}
      BY <1>7, UpPhase DEF fpm_pctl_action_last
    <2>3. fpm_state \in Service!Ending
      BY <1>6, <1>7 DEF States, Service!Ending
    <2> QED
      BY <1>5, <1>6, <2>1, <2>2, <2>3 DEF Refines, Service!Next, Service!Leave
  <1>8. CASE fpm_state = "NORMAL" /\ fpm_pctl_set("RELOADING", cs, pr, "bury")
    <2>1. "RELOADING" \in PctlStates /\ "bury" \in Up
      BY DEF PctlStates, Up
    <2> QED
      BY <1>2, <1>3, <1>5, <1>6, <1>8, <2>1, SetStep, Zenon
  <1>9. CASE /\ fpm_state = "NORMAL" \/ ~NoChild(cs)
             /\ \E max : fpm_children_make(p, cs, pr, max)
             /\ UNCHANGED <<master, fpm_state>>
    <2>1. CASE fpm_state = "NORMAL"
      BY <1>6, <1>9, <2>1, QuietStep, Zenon
    <2>2. CASE fpm_state # "NORMAL"
      <3>1. proc' = pr
        BY <1>2, <1>3, <1>9, <2>2, MakeNobody, Zenon
      <3>2. Existing' = Existing \ {c}
        BY <1>4, <3>1 DEF Exists, Existing
      <3>3. Existing' # {}
        <4>1. PICK q : q \in AllOf(cs)
          BY <1>9, <2>2, Zenon DEF NoChild
        <4>2. q \in Pids /\ pr[q] # "none"
          BY <4>1, <1>2, <1>3, AllOfMember, Zenon DEF Exact
        <4> QED
          BY <4>2, <3>1 DEF Existing
      <3>4. fpm_state \in Service!Ending /\ Phase' = Phase
        BY <1>6, <1>9, <2>2, UpPhase, Zenon DEF States, Service!Ending
      <3> QED
        BY <1>4, <1>6, <3>2, <3>3, <3>4, Zenon DEF Refines, Service!Next, Service!Reap
    <2> QED
      BY <2>1, <2>2
  <1> QED
    BY <1>1, <1>7, <1>8, <1>9, Zenon

LEMMA ServiceNext == TypeInv /\ ReapInv /\ [Next]_vars => Refines
  <1> SUFFICES ASSUME TypeInv, ReapInv, [Next]_vars PROVE Refines
    OBVIOUS
  <1>t. /\ TypeOK /\ children \in [Pools -> SUBSET Pids] /\ proc \in [Pids -> ProcStates]
        /\ fpm_state \in States
    BY DEF TypeInv, TypeOK
  <1>i. Exact(children, proc) /\ (master \in Down => AllGone(proc))
    BY <1>t, ReapInvParts, Zenon
  <1>e. Exists(proc) = Existing /\ (Existing = {} => Service!AtMostOne(Existing))
    BY DEF Exists, Existing, Service!AtMostOne
  <1>1. ASSUME NEW p \in Pools, StartPool(p) PROVE Refines
    <2>1. /\ master \in Up /\ UNCHANGED <<master, fpm_state>>
          /\ fpm_children_make(p, children, proc, StartTarget(p))
      BY <1>1, Zenon DEF StartPool, pctlVars, Up, fpm_children_make
    <2> QED
      BY <2>1, <1>t, MakeStep, SMTT(30)
  <1>2. ASSUME NEW p \in Pools, StartPoolFails(p) PROVE Refines
    <2>1. PICK new \in SUBSET {q \in Pids : proc[q] = "none"} :
            /\ Cardinality(new) < Missing(p, children, StartTarget(p))
            /\ fpm_pctl_set("TERMINATING", [children EXCEPT ![p] = @ \cup new],
                 [q \in Pids |-> IF q \in new THEN "init" ELSE proc[q]], "loop")
      BY <1>2, Zenon DEF StartPoolFails
    <2> DEFINE cs == [children EXCEPT ![p] = @ \cup new]
               pr == [q \in Pids |-> IF q \in new THEN "init" ELSE proc[q]]
    <2>2. cs \in [Pools -> SUBSET Pids] /\ pr \in [Pids -> ProcStates]
      BY <1>t DEF ProcStates, Living
    <2>3. Exact(cs, pr)
      <3>1. \A r \in Pools : cs[r] = IF r = p THEN children[p] \cup new ELSE children[r]
        BY <1>t, Zenon
      <3>2. \A r \in Pools : new \cap children[r] = {}
        BY <2>1, <1>i DEF Exact
      <3>3. \A q \in Pids : pr[q] # "none" <=> \E r \in Pools : q \in cs[r]
        BY <3>1, <1>i DEF Exact
      <3>4. \A p1, p2 \in Pools : p1 # p2 => cs[p1] \cap cs[p2] = {}
        BY <3>1, <3>2, <1>i DEF Exact
      <3> QED
        BY <3>3, <3>4 DEF Exact
    <2>4. fpm_state = "NORMAL"
      <3>1. IsFiniteSet(new) /\ Cardinality(new) \in Nat
        BY ModelAssumption, FS_Subset, FS_CardinalityType, Zenon
      <3> QED
        BY <2>1, <3>1 DEF Missing
    <2>5. Exists(pr) = {} => Existing = {}
      BY Zenon DEF Exists, Existing
    <2>6. "TERMINATING" \in PctlStates /\ "loop" \in Up /\ master \in Up
      BY <1>2 DEF PctlStates, Up, StartPoolFails
    <2> HIDE DEF cs, pr
    <2> QED
      BY <1>t, <1>e, <2>1, <2>2, <2>3, <2>4, <2>5, <2>6, SetStep, Zenon DEF cs, pr
  <1>3. CASE EnterLoop
    BY <1>3, StutterStep, UpPhase, Zenon DEF EnterLoop, Up, pctlVars, procVars
  <1>4. CASE FcgiInit
    BY <1>4, StutterStep DEF FcgiInit, Phase, Gone, pctlVars, procVars
  <1>5. CASE FpmInit \/ FpmInitFails
    <2>1. /\ Phase = "RESTARTING" /\ Phase' \in {"NORMAL", "STOPPED"} /\ UNCHANGED proc
          /\ master \in Down
      BY <1>5, Zenon DEF FpmInit, FpmInitFails, Phase, Gone, Down, procVars
    <2>2. Existing = {} /\ Existing' = {}
      BY <2>1, <1>i DEF AllGone, Existing
    <2> QED
      BY <2>1, <2>2 DEF Refines, Service!Next, Service!Return
  <1>6. ASSUME NEW s \in Signals, Deliver(s) PROVE Refines
    <2>1. /\ UNCHANGED <<fpm_state, proc>>
          /\ \/ UNCHANGED master
             \/ master \in {"exec", "boot"} /\ master' = "killed"
      BY <1>6, Zenon DEF Deliver, pctlVars, procVars
    <2>2. CASE UNCHANGED master
      BY <2>1, <2>2, StutterStep DEF Phase
    <2>3. CASE master \in {"exec", "boot"} /\ master' = "killed"
      <3>1. Phase = "RESTARTING" /\ Phase' = "STOPPED" /\ master \in Down
        BY <2>3, Zenon DEF Phase, Gone, Down
      <3>2. Existing = {} /\ Existing' = {}
        BY <2>1, <3>1, <1>i DEF AllGone, Existing
      <3> QED
        BY <3>1, <3>2 DEF Refines, Service!Next, Service!Return
    <2> QED
      BY <2>1, <2>2, <2>3
  <1>7. CASE fpm_got_signal
    <2>1. /\ master = "loop"
          /\ \/ master' \in {"loop", "bury"} /\ UNCHANGED <<fpm_state, proc>>
             \/ /\ Head(sp) \in {"INT", "TERM", "QUIT", "USR2"}
                /\ fpm_pctl_set(Requested(Head(sp)), children, proc, "loop")
      BY <1>7 DEF fpm_got_signal, pctlVars
    <2>2. Head(sp) \in {"INT", "TERM", "QUIT", "USR2"} => Requested(Head(sp)) \in PctlStates
      BY Zenon DEF Requested, PctlStates
    <2>3. "loop" \in Up /\ "bury" \in Up
      BY Zenon DEF Up
    <2>4. CASE master' \in {"loop", "bury"} /\ UNCHANGED <<fpm_state, proc>>
      BY <2>1, <2>3, <2>4, StutterStep, UpPhase
    <2> QED
      BY <2>1, <2>2, <2>3, <2>4, <1>t, <1>i, <1>e, SetStep, Zenon
  <1>8. CASE fpm_pctl_action
    <2>1. /\ master = "loop"
          /\ fpm_pctl_action_next(fpm_state, fpm_signal_sent, children, proc, "loop",
                                  fpm_event_trigger(timers))
      BY <1>8 DEF fpm_pctl_action
    <2>2. /\ fpm_state' = fpm_state /\ Existing' = Existing
          /\ \/ /\ Existing = {}
                /\ master' \in IF fpm_state = "RELOADING" THEN {"exec", "exited"} ELSE {"exited"}
             \/ Existing # {} /\ master' = "loop"
      BY <2>1, <1>t, <1>i, <1>e, NextExists
    <2>3. "loop" \in Up /\ fpm_state \in {"NORMAL"} \cup Service!Ending
      BY <1>t DEF Up, States, Service!Ending
    <2>4. CASE master' = "loop"
      BY <2>1, <2>2, <2>3, <2>4, QuietStep
    <2>5. CASE master' # "loop"
      <3>1. Phase' \in IF fpm_state = "RELOADING" THEN {"RESTARTING", "STOPPED"} ELSE {"STOPPED"}
        BY <2>2, <2>5, UpPhase
      <3> QED
        BY <2>1, <2>2, <2>3, <2>5, <3>1, <1>e, UpPhase, Zenon DEF Refines, Service!Next, Service!Leave
    <2> QED
      BY <2>4, <2>5, Zenon
  <1>9. ASSUME NEW p \in Pools, Maintenance(p) \/ fpm_pctl_on_socket_accept(p)
        PROVE  Refines
    <2>1. /\ master = "loop" /\ UNCHANGED fpm_state
          /\ \/ master' = "loop" /\ \E max : fpm_children_make(p, children, proc, max)
             \/ master' \in {"loop", "kill"} /\ UNCHANGED proc
      BY <1>9, Zenon DEF Maintenance, fpm_pctl_on_socket_accept, ChooseVictim, masterVars, pctlVars
    <2>2. "loop" \in Up /\ "kill" \in Up
      BY DEF Up
    <2> QED
      BY <2>1, <2>2, <1>t, MakeStep, StutterStep, UpPhase
  <1>10. CASE IdleKill \/ BuryDone
    <2>1. master \in Up /\ master' \in Up /\ UNCHANGED <<fpm_state, proc>>
      BY <1>10, Zenon DEF IdleKill, BuryDone, Up, pctlVars, procVars
    <2> QED
      BY <2>1, StutterStep, UpPhase
  <1>11. ASSUME NEW c \in Pids, BuryOne(c) PROVE Refines
    BY <1>11, <1>t, <1>i, BuryStep
  <1>12. ASSUME NEW c \in Pids, ChildStep(c) PROVE Refines
    <2>1. Begins(c) \/ Ends(c) \/ Serves(c)
      BY <1>12, <1>t, ChildCases, Zenon
    <2>2. UNCHANGED <<master, fpm_state>>
      BY <1>12, <1>t, ChildCases DEF masterVars, pctlVars
    <2>3. \A q \in Pids : proc'[q] # "none" <=> proc[q] # "none"
      BY <2>1, <1>t DEF Begins, Ends, Serves, Living, Heeding
    <2> QED
      BY <2>2, <2>3 DEF Refines, Phase, Existing
  <1>13. CASE Environment \/ Stopped \/ UNCHANGED vars
    <2>1. UNCHANGED <<master, fpm_state, proc>>
      BY <1>13 DEF Environment, Connect, SendSignal, Stopped, vars, masterVars, pctlVars, procVars
    <2> QED
      BY <2>1, StutterStep, SMTT(30) DEF Phase
  <1> HIDE DEF Refines
  <1> QED
    BY <1>1, <1>2, <1>3, <1>4, <1>5, <1>6, <1>7, <1>8, <1>9, <1>10, <1>11, <1>12, <1>13, SMTT(30)
       DEF Next, MasterStep

(* FpmMaster implements FpmService, for any pools, settings and failures: the *)
(* initial state of fpm_run is one of the service, and every step of the      *)
(* master, a worker or the environment is a step of the service or none.      *)
THEOREM MasterImplementsService == Spec => ImplementsService
  <1>1. Init => Service!Init
    BY Zenon DEF Init, Service!Init, Phase, Existing, Gone
  <1>2. TypeInv /\ ReapInv /\ [Next]_vars => [Service!Next]_<<Phase, Existing>>
    BY ServiceNext DEF Refines
  <1> QED
    BY <1>1, <1>2, ReapInvariant, PTL DEF Spec, ImplementsService, Service!Spec

----------------------------------------------------------------------------
(* The signals to the children. *)

(* What Escalation says of one step, for one child.                           *)
Ordered(q) ==
  proc'[q] # proc[q] /\ fpm_state' # "NORMAL" =>
    /\ proc'[q] = "termed" => fpm_state' = "TERMINATING" \/ fpm_signal_sent = "QUIT"
    /\ proc'[q] = "killed" => fpm_signal_sent \in {"TERM", "KILL"}

(* kill_all ends a child by SIGTERM only if that signal comes first in the    *)
(* state or after SIGQUIT, and by SIGKILL only after these.                   *)
LEMMA NextOrdered ==
  ASSUME NEW st \in States, NEW sent \in SentSignals, NEW back, NEW tq,
         NEW cs, NEW pr, NEW q \in Pids,
         fpm_pctl_action_next(st, sent, cs, pr, back, tq), proc'[q] # pr[q]
  PROVE  /\ fpm_state' = st
         /\ proc'[q] = "termed" => st = "TERMINATING" \/ sent = "QUIT"
         /\ proc'[q] = "killed" => sent \in {"TERM", "KILL"}
  <1>1. CASE NoChild(cs)
    BY <1>1, Zenon DEF fpm_pctl_action_next
  <1>2. CASE ~NoChild(cs)
    <2>1. fpm_state' = st /\ proc'[q] = Signalled(pr, q, NextSignal(st, sent))
      BY <1>2, Zenon DEF fpm_pctl_action_next, fpm_pctl_kill_all
    <2> QED
      BY <2>1 DEF Signalled, NextSignal, SentSignals
  <1> QED
    BY <1>1, <1>2

LEMMA SetOrdered ==
  ASSUME TypeOK, NEW new \in PctlStates, NEW cs, NEW pr, NEW back, NEW q \in Pids,
         fpm_pctl_set(new, cs, pr, back), proc'[q] # pr[q]
  PROVE  proc'[q] # "killed" /\ (proc'[q] = "termed" => fpm_state' = "TERMINATING")
  <1>1. fpm_pctl_action_next(new, "0", cs, pr, back, fpm_event_queue_add(timers))
    BY DEF fpm_pctl_set
  <1>2. new \in States /\ "0" \in SentSignals
    BY Zenon DEF PctlStates, States, SentSignals
  <1> QED
    BY <1>1, <1>2, NextOrdered, Zenon

LEMMA MakeOrdered ==
  ASSUME NEW p \in Pools, NEW cs, NEW pr, NEW max, NEW q \in Pids,
         fpm_children_make(p, cs, pr, max)
  PROVE  proc'[q] \in {pr[q], "init"}
BY Zenon DEF fpm_children_make, MakeAll, MakeFails, Fork

LEMMA StepOrdered ==
  ASSUME TypeInv, [Next]_vars, NEW q \in Pids
  PROVE  Ordered(q)
  <1>t. /\ TypeOK /\ children \in [Pools -> SUBSET Pids] /\ proc \in [Pids -> ProcStates]
        /\ fpm_state \in States /\ fpm_signal_sent \in SentSignals
    BY DEF TypeInv, TypeOK, SentSignals
  <1>1. ASSUME proc'[q] \in {proc[q], "init", "none"} PROVE Ordered(q)
    BY <1>1, Zenon DEF Ordered
  <1>2. ASSUME NEW p \in Pools, StartPool(p) PROVE Ordered(q)
    <2>1. fpm_children_make(p, children, proc, StartTarget(p))
      BY <1>2, Zenon DEF StartPool, fpm_children_make
    <2>2. proc'[q] \in {proc[q], "init"}
      BY <2>1, MakeOrdered, Zenon
    <2> QED
      BY <1>1, <2>2, Zenon
  <1>3. ASSUME NEW p \in Pools, StartPoolFails(p) PROVE Ordered(q)
    <2>1. PICK new \in SUBSET {c \in Pids : proc[c] = "none"} :
            fpm_pctl_set("TERMINATING", [children EXCEPT ![p] = @ \cup new],
                 [c \in Pids |-> IF c \in new THEN "init" ELSE proc[c]], "loop")
      BY <1>3, Zenon DEF StartPoolFails
    <2> DEFINE pr == [c \in Pids |-> IF c \in new THEN "init" ELSE proc[c]]
    <2>2. "TERMINATING" \in PctlStates
      BY Zenon DEF PctlStates
    <2>3. CASE proc'[q] = pr[q]
      BY <2>3, <1>1, Zenon
    <2>4. CASE proc'[q] # pr[q]
      BY <2>1, <2>2, <2>4, <1>t, SetOrdered, Zenon DEF Ordered
    <2> QED
      BY <2>3, <2>4, Zenon
  <1>4. CASE fpm_got_signal
    <2>1. \/ UNCHANGED proc
          \/ /\ Head(sp) \in {"INT", "TERM", "QUIT", "USR2"}
             /\ fpm_pctl_set(Requested(Head(sp)), children, proc, "loop")
      BY <1>4 DEF fpm_got_signal
    <2>2. Head(sp) \in {"INT", "TERM", "QUIT", "USR2"} => Requested(Head(sp)) \in PctlStates
      BY DEF Requested, PctlStates
    <2> QED
      BY <2>1, <2>2, <1>1, <1>t, SetOrdered, Zenon DEF Ordered
  <1>5. CASE fpm_pctl_action
    <2>1. fpm_pctl_action_next(fpm_state, fpm_signal_sent, children, proc, "loop",
                               fpm_event_trigger(timers))
      BY <1>5 DEF fpm_pctl_action
    <2> QED
      BY <2>1, <1>t, NextOrdered, Zenon DEF Ordered
  <1>6. ASSUME NEW p \in Pools, Maintenance(p) \/ fpm_pctl_on_socket_accept(p)
        PROVE  Ordered(q)
    <2>1. UNCHANGED proc \/ \E max : fpm_children_make(p, children, proc, max)
      BY <1>6, Zenon DEF Maintenance, fpm_pctl_on_socket_accept, ChooseVictim
    <2>2. proc'[q] \in {proc[q], "init"}
      BY <2>1, MakeOrdered, Zenon
    <2> QED
      BY <1>1, <2>2, Zenon
  <1>7. ASSUME NEW c \in Pids, BuryOne(c) PROVE Ordered(q)
    <2> DEFINE p == PoolOf(c)
               cs == [children EXCEPT ![p] = @ \ {c}]
               pr == [proc EXCEPT ![c] = "none"]
    <2>1. p \in Pools
      BY <1>7, Zenon DEF BuryOne, PoolOf, Linked, AllOf
    <2>2. pr[q] \in {proc[q], "none"}
      BY <1>t
    <2>3. \/ proc' = pr
          \/ fpm_pctl_set("RELOADING", cs, pr, "bury")
          \/ \E max : fpm_children_make(p, cs, pr, max)
      BY <1>7, Zenon DEF BuryOne
    <2>4. "RELOADING" \in PctlStates
      BY Zenon DEF PctlStates
    <2>5. CASE proc'[q] \in {pr[q], "init"}
      BY <2>5, <2>2, <1>1, Zenon
    <2>6. CASE fpm_pctl_set("RELOADING", cs, pr, "bury") /\ proc'[q] # pr[q]
      <3> HIDE DEF cs, pr
      <3> QED
        BY <2>4, <2>6, <1>t, SetOrdered DEF Ordered
    <2> HIDE DEF p, cs, pr
    <2> QED
      BY <2>1, <2>3, <2>5, <2>6, MakeOrdered, Zenon
  <1>8. ASSUME NEW c \in Pids, ChildStep(c) PROVE Ordered(q)
    <2>1. Begins(c) \/ Ends(c) \/ Serves(c)
      BY <1>8, <1>t, ChildCases
    <2>2. proc'[q] \in {proc[q], "ready", "run", "exited", "faulted"}
      BY <2>1, <1>t, Zenon DEF Begins, Ends, Serves
    <2> QED
      BY <2>2 DEF Ordered
  <1>9. CASE \/ EnterLoop \/ FcgiInit \/ FpmInit \/ FpmInitFails \/ (\E s \in Signals : Deliver(s))
             \/ IdleKill \/ BuryDone \/ Environment \/ Stopped \/ UNCHANGED vars
    <2>1. UNCHANGED proc
      BY <1>9 DEF EnterLoop, FcgiInit, FpmInit, FpmInitFails, Deliver, IdleKill, BuryDone, Environment,
                  Connect, SendSignal, Stopped, vars, procVars
    <2> QED
      BY <1>1, <2>1, Zenon
  <1> QED
    BY <1>2, <1>3, <1>4, <1>5, <1>6, <1>7, <1>8, <1>9, Zenon DEF Next, MasterStep

(* In a graceful stop or reload no child is ended by SIGTERM before SIGQUIT   *)
(* was sent, and never by SIGKILL before SIGTERM.                             *)
THEOREM EscalationInOrder == Spec => Escalation
  <1>1. TypeInv /\ [Next]_vars => [\A q \in Pids : Ordered(q)]_vars
    BY StepOrdered, Zenon
  <1>2. ASSUME [\A q \in Pids : Ordered(q)]_vars
        PROVE  [\A q \in Pids : proc'[q] # proc[q] /\ fpm_state' # "NORMAL" =>
                  /\ proc'[q] = "termed" =>
                       fpm_state' = "TERMINATING" \/ fpm_signal_sent = "QUIT"
                  /\ proc'[q] = "killed" => fpm_signal_sent \in {"TERM", "KILL"}]_vars
    BY <1>2, Zenon DEF Ordered
  <1> QED
    BY <1>1, <1>2, ReapInvariant, PTL DEF Spec, Escalation

============================================================================
