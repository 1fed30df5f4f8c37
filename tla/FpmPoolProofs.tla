--------------------------- MODULE FpmPoolProofs ---------------------------
(***************************************************************************)
(* How a pool keeps its children: a dynamic pool keeps one that was not    *)
(* told to quit, and a static pool makes up for failed forks when its next *)
(* child dies.  The steps are proved from what Counted says of the size of *)
(* sets of processes.  FpmServiceProofs proves Counted from the theorems   *)
(* about finite sets, and draws the conclusions.                           *)
(***************************************************************************)
EXTENDS FpmMasterProofs

(* Sizes. *)
Counted ==
  /\ \A S \in SUBSET Pids : Cardinality(S) \in Nat /\ (Cardinality(S) = 0 <=> S = {})
  /\ \A S \in SUBSET Pids : \A T \in SUBSET S : Cardinality(T) <= Cardinality(S)
  /\ \A S, T \in SUBSET Pids :
       S \cap T = {} => Cardinality(S \cup T) = Cardinality(S) + Cardinality(T)

LEMMA Size ==
  ASSUME Counted, NEW S \in SUBSET Pids
  PROVE  Cardinality(S) \in Nat /\ (Cardinality(S) = 0 <=> S = {})
BY Zenon DEF Counted

LEMMA SizeOfPart ==
  ASSUME Counted, NEW S \in SUBSET Pids, NEW T \in SUBSET S
  PROVE  Cardinality(T) <= Cardinality(S)
BY Zenon DEF Counted

(* A list c, what is left of it, and the children that are missing up to m.   *)
LEMMA Filled ==
  ASSUME Counted, NEW c \in SUBSET Pids, NEW left \in SUBSET c, NEW new \in SUBSET Pids,
         left \cap new = {}, NEW m \in Nat, Cardinality(c) <= m,
         Cardinality(new) = Positive(m - Cardinality(left))
  PROVE  Cardinality(left \cup new) = m
  <1>1. /\ Cardinality(c) \in Nat /\ Cardinality(left) \in Nat
        /\ Cardinality(left) <= Cardinality(c)
    BY Size, SizeOfPart, Zenon
  <1>2. Cardinality(left \cup new) = Cardinality(left) + Cardinality(new)
    BY Zenon DEF Counted
  <1> QED
    BY <1>1, <1>2 DEF Positive

----------------------------------------------------------------------------
(* A dynamic pool keeps a child. *)

(* Children of the list c that were forked in the same round as x: neither    *)
(* was there before the other.                                                *)
Mates(c, o, x) == {y \in c : y \notin o[x] /\ x \notin o[y]}

(* o orders c by age, in rounds of at most m children.                        *)
Aged(c, o, m) ==
  /\ \A x \in c : x \notin o[x]
  /\ \A x, y, z \in c : x \in o[y] /\ y \in o[z] => x \in o[z]
  /\ \A x \in c : Cardinality(Mates(c, o, x)) <= m

(* Every child that was chosen to quit leaves a younger one that was not.     *)
Survives(c, o, ik) ==
  /\ c # {}
  /\ \A k \in c \cap ik : \E y \in c \ ik : k \in o[y]

(* The order only matters within the list, and a shorter list keeps it.       *)
LEMMA ShrinkAged ==
  ASSUME Counted, NEW c \in SUBSET Pids, NEW d \in SUBSET c, NEW o, NEW o2, NEW m \in Nat, Aged(c, o, m),
         \A x, y \in d : x \in o2[y] <=> x \in o[y]
  PROVE  Aged(d, o2, m)
  <1>1. ASSUME NEW x \in d PROVE Cardinality(Mates(d, o2, x)) <= m
    <2>1. Mates(d, o2, x) \subseteq Mates(c, o, x) /\ Mates(c, o, x) \subseteq Pids
      BY Zenon DEF Mates
    <2>2. /\ Cardinality(Mates(d, o2, x)) <= Cardinality(Mates(c, o, x))
          /\ Cardinality(Mates(d, o2, x)) \in Nat /\ Cardinality(Mates(c, o, x)) \in Nat
      BY <2>1, Size, SizeOfPart, Zenon
    <2>3. Cardinality(Mates(c, o, x)) <= m
      BY Zenon DEF Aged
    <2> QED
      BY <2>2, <2>3
  <1> QED
    BY <1>1, Zenon DEF Aged

(* A round of at most m new children, younger than all the others.            *)
LEMMA GrowAged ==
  ASSUME Counted, NEW c \in SUBSET Pids, NEW new \in SUBSET Pids, NEW o, NEW m \in Nat, Aged(c, o, m),
         c \cap new = {}, Cardinality(new) <= m,
         \A x \in new : o[x] = c,
         \A x \in c : o[x] \cap new = {}
  PROVE  Aged(c \cup new, o, m)
  <1>1. ASSUME NEW x \in c \cup new PROVE x \notin o[x]
    BY Zenon DEF Aged
  <1>2. ASSUME NEW x \in c \cup new, NEW y \in c \cup new, NEW z \in c \cup new,
               x \in o[y], y \in o[z]
        PROVE  x \in o[z]
    <2>1. y \in c
      BY <1>2, Zenon
    <2>2. x \in c
      BY <1>2, <2>1, Zenon
    <2> QED
      BY <1>2, <2>1, <2>2, Zenon DEF Aged
  <1>3. ASSUME NEW x \in c \cup new PROVE Cardinality(Mates(c \cup new, o, x)) <= m
    <2>1. CASE x \in c
      <3>1. Mates(c \cup new, o, x) = Mates(c, o, x)
        BY <2>1, Zenon DEF Mates
      <3> QED
        BY <2>1, <3>1, Zenon DEF Aged
    <2>2. CASE x \in new
      <3>1. Mates(c \cup new, o, x) \subseteq new
        BY <2>2, Zenon DEF Mates
      <3>2. /\ Cardinality(Mates(c \cup new, o, x)) <= Cardinality(new)
            /\ Cardinality(Mates(c \cup new, o, x)) \in Nat /\ Cardinality(new) \in Nat
        BY <3>1, Size, SizeOfPart, Zenon
      <3> QED
        BY <3>2
    <2> QED
      BY <2>1, <2>2, Zenon
  <1> QED
    BY <1>1, <1>2, <1>3, Zenon DEF Aged

(* The idle maintenance chooses k only if more children are idle than a round *)
(* has, so one of them is younger, and that one or a still younger one stays. *)
LEMMA ChooseSurvives ==
  ASSUME Counted, NEW c \in SUBSET Pids, NEW i \in SUBSET c, NEW o, NEW m \in Nat, NEW ik, NEW k \in i,
         Aged(c, o, m), Survives(c, o, ik), Cardinality(i) > m, o[k] \cap i = {}
  PROVE  Survives(c, o, ik \cup {k})
  <1>1. PICK x \in i : k \in o[x]
    <2>1. SUFFICES ASSUME \A x \in i : k \notin o[x] PROVE FALSE
      OBVIOUS
    <2>2. i \subseteq Mates(c, o, k) /\ Mates(c, o, k) \subseteq Pids
      BY <2>1, Zenon DEF Mates
    <2>3. /\ Cardinality(i) <= Cardinality(Mates(c, o, k))
          /\ Cardinality(i) \in Nat /\ Cardinality(Mates(c, o, k)) \in Nat
      BY <2>2, Size, SizeOfPart, Zenon
    <2>4. Cardinality(Mates(c, o, k)) <= m
      BY Zenon DEF Aged
    <2> QED
      BY <2>3, <2>4
  <1>2. PICK w \in c \ ik : k \in o[w]
    <2>1. CASE x \in ik
      <3>1. PICK y \in c \ ik : x \in o[y]
        BY <2>1, Zenon DEF Survives
      <3>2. k \in o[y]
        BY <1>1, <3>1, Zenon DEF Aged
      <3> QED
        BY <3>1, <3>2, Zenon
    <2> QED
      BY <2>1, <1>1, Zenon
  <1>3. w # k
    BY <1>2, Zenon DEF Aged
  <1>4. ASSUME NEW j \in c \cap (ik \cup {k})
        PROVE  \E y \in c \ (ik \cup {k}) : j \in o[y]
    <2>1. CASE j = k
      BY <2>1, <1>2, <1>3, Zenon
    <2>2. CASE j # k
      <3>1. PICK y \in c \ ik : j \in o[y]
        BY <2>2, <1>4 DEF Survives
      <3>2. CASE y = k
        <4>1. j \in o[w]
          BY <3>1, <3>2, <1>2, Zenon DEF Aged
        <4> QED
          BY <4>1, <1>2, <1>3, Zenon
      <3> QED
        BY <3>1, <3>2, Zenon
    <2> QED
      BY <2>1, <2>2, Zenon
  <1> QED
    BY <1>4, Zenon DEF Survives

Running == {"loop", "bury", "kill"}

(* A dynamic pool p whose list is c.  Its children are forked all at once.    *)
Manned(p, td, c, o, ik) ==
  IF p \in td THEN c = {} ELSE Aged(c, o, PmMaxSpare[p]) /\ Survives(c, o, ik)

(* The inductive invariant, relative to TypeInv and ReapInv.                  *)
Keeping(ff, st, ma, td, cs, o, ik) ==
  /\ ff <= MaxForkFails
  /\ ik \subseteq AllOf(cs)
  /\ \A p \in Pools : Pm[p] = "static" => cs[p] \cap ik = {}
  /\ st = "NORMAL" /\ ma \in Running => td = {}
  /\ st = "NORMAL" /\ ma \in Catching /\ ff = MaxForkFails =>
       \A p \in Pools : Pm[p] = "dynamic" => Manned(p, td, cs[p], o, ik)

KeepInv == Keeping(forkfails, fpm_state, master, todo, children, older, idle_kill)

LEMMA SameSurvives ==
  ASSUME NEW c, NEW o, NEW o2, NEW ik, NEW ik2, Survives(c, o, ik),
         \A x, y \in c : x \in o2[y] <=> x \in o[y],
         \A x \in c : x \in ik2 <=> x \in ik
  PROVE  Survives(c, o2, ik2)
BY Zenon DEF Survives

(* What a fork of new in pool p, with lists cs, does to the age and the flags *)
(* of the children.                                                           *)
Ages(p, new, cs) ==
  /\ new \subseteq Pids
  /\ \A r \in Pools : /\ children'[r] = IF r = p THEN cs[p] \cup new ELSE cs[r]
                      /\ cs[r] \cap new = {}
                      /\ \A x, y \in cs[r] : x \in older'[y] <=> x \in older[y]
                      /\ \A x \in cs[r] : x \in idle_kill' <=> x \in idle_kill
                      /\ \A x \in cs[r] : older'[x] \cap new = {}
  /\ \A x \in new : older'[x] = cs[p] /\ x \notin idle_kill'
  /\ idle_kill' \subseteq AllOf(children')

LEMMA ForkAges ==
  ASSUME NEW p \in Pools, NEW new, NEW cs \in [Pools -> SUBSET Pids],
         NEW pr \in [Pids -> ProcStates], Exact(cs, pr), Fork(p, new, cs, pr)
  PROVE  Ages(p, new, cs)
  <1>1. /\ new \subseteq {q \in Pids : pr[q] = "none"}
        /\ children' = [cs EXCEPT ![p] = @ \cup new]
        /\ older' = [q \in Pids |-> IF q \in new THEN cs[p] ELSE older[q] \cap AllOf(cs)]
        /\ idle_kill' = idle_kill \cap AllOf(cs)
    BY Zenon DEF Fork
  <1>2. \A q \in new : q \notin AllOf(cs)
    BY <1>1, AllOfMember, Zenon DEF Exact
  <1>3. ASSUME NEW r \in Pools
        PROVE  /\ children'[r] = IF r = p THEN cs[p] \cup new ELSE cs[r]
               /\ cs[r] \subseteq AllOf(cs) /\ cs[r] \subseteq Pids
    BY <1>1, AllOfMember, Zenon
  <1>4. idle_kill' \subseteq AllOf(children')
    BY <1>1, <1>3, AllOfMember, Zenon
  <1>5. ASSUME NEW r \in Pools
        PROVE  /\ cs[r] \cap new = {}
               /\ \A x \in cs[r] : older'[x] = older[x] \cap AllOf(cs)
               /\ \A x \in cs[r] : x \in idle_kill' <=> x \in idle_kill
    BY <1>1, <1>2, <1>3, Zenon
  <1>6. ASSUME NEW r \in Pools
        PROVE  /\ \A x, y \in cs[r] : x \in older'[y] <=> x \in older[y]
               /\ \A x \in cs[r] : older'[x] \cap new = {}
    BY <1>2, <1>3, <1>5
  <1>7. \A x \in new : older'[x] = cs[p] /\ x \notin idle_kill'
    BY <1>1, <1>2, Zenon
  <1> QED
    BY <1>1, <1>3, <1>4, <1>5, <1>6, <1>7, Zenon DEF Ages

(* The pool that forks a round of new children, some or none.                 *)
LEMMA ForkManned ==
  ASSUME Counted, NEW p \in Pools, NEW new, NEW cs \in [Pools -> SUBSET Pids],
         NEW pr \in [Pids -> ProcStates], Exact(cs, pr), Fork(p, new, cs, pr),
         NEW m \in Nat, Cardinality(new) <= m, Aged(cs[p], older, m),
         new # {} \/ Survives(cs[p], older, idle_kill)
  PROVE  Aged(children'[p], older', m) /\ Survives(children'[p], older', idle_kill')
  <1>0. Ages(p, new, cs)
    BY ForkAges, Zenon
  <1>1. /\ new \in SUBSET Pids /\ children'[p] = cs[p] \cup new /\ cs[p] \cap new = {}
        /\ cs[p] \in SUBSET Pids
        /\ \A x, y \in cs[p] : x \in older'[y] <=> x \in older[y]
        /\ \A x \in cs[p] : x \in idle_kill' <=> x \in idle_kill
        /\ \A x \in cs[p] : older'[x] \cap new = {}
        /\ \A x \in new : older'[x] = cs[p] /\ x \notin idle_kill'
    BY <1>0, Zenon DEF Ages
  <1>2. Aged(cs[p], older', m)
    <2>1. /\ cs[p] \in SUBSET Pids /\ cs[p] \in SUBSET cs[p]
          /\ \A x, y \in cs[p] : x \in older'[y] <=> x \in older[y]
      BY <1>1, Zenon
    <2> QED
      BY <2>1, ShrinkAged, Zenon
  <1>3. Aged(children'[p], older', m)
    <2>1. /\ new \in SUBSET Pids /\ cs[p] \in SUBSET Pids /\ cs[p] \cap new = {}
          /\ \A x \in new : older'[x] = cs[p]
          /\ \A x \in cs[p] : older'[x] \cap new = {}
      BY <1>1, Zenon
    <2>2. Aged(cs[p] \cup new, older', m)
      BY <1>2, <2>1, GrowAged, Zenon
    <2> QED
      BY <1>1, <2>2, Zenon
  <1>4. CASE new # {}
    <2>1. PICK y : y \in new
      BY <1>4, Zenon
    <2>2. y \in children'[p] \ idle_kill' /\ older'[y] = cs[p]
      BY <1>1, <2>1, Zenon
    <2>3. \A k \in children'[p] \cap idle_kill' : k \in cs[p]
      BY <1>1, Zenon
    <2> QED
      BY <1>3, <2>2, <2>3, Zenon DEF Survives
  <1>5. CASE new = {} /\ Survives(cs[p], older, idle_kill)
    <2>1. children'[p] = cs[p]
      BY <1>1, <1>5, Zenon
    <2>2. Survives(cs[p], older', idle_kill')
      BY <1>1, <1>5, SameSurvives, Zenon
    <2> QED
      BY <1>3, <2>1, <2>2, Zenon
  <1> QED
    BY <1>3, <1>4, <1>5, Zenon

(* The other pools. *)
LEMMA ForkOthers ==
  ASSUME Counted, NEW p \in Pools, NEW new, NEW cs \in [Pools -> SUBSET Pids],
         NEW pr \in [Pids -> ProcStates], Exact(cs, pr), Fork(p, new, cs, pr),
         NEW r \in Pools \ {p}, PmMaxSpare[r] \in Nat, NEW td, NEW td2, r \in td2 <=> r \in td,
         Manned(r, td, cs[r], older, idle_kill)
  PROVE  Manned(r, td2, children'[r], older', idle_kill')
  <1>0. Ages(p, new, cs)
    BY ForkAges, Zenon
  <1>1. /\ children'[r] = cs[r] /\ cs[r] \in SUBSET Pids
        /\ \A x, y \in cs[r] : x \in older'[y] <=> x \in older[y]
        /\ \A x \in cs[r] : x \in idle_kill' <=> x \in idle_kill
    BY <1>0, Zenon DEF Ages
  <1>2. Aged(cs[r], older, PmMaxSpare[r]) => Aged(cs[r], older', PmMaxSpare[r])
    BY <1>1, ShrinkAged, Zenon
  <1>3. Survives(cs[r], older, idle_kill) => Survives(cs[r], older', idle_kill')
    BY <1>1, SameSurvives, Zenon
  <1> QED
    BY <1>1, <1>2, <1>3, Zenon DEF Manned

(* The flags of static pools, and how many children a fork that did not fail  *)
(* has made.                                                                  *)
LEMMA MakeForks ==
  ASSUME TypeOK, NEW p \in Pools, NEW max, NEW cs \in [Pools -> SUBSET Pids],
         NEW pr \in [Pids -> ProcStates], Exact(cs, pr), fpm_children_make(p, cs, pr, max),
         forkfails <= MaxForkFails,
         \A r \in Pools : Pm[r] = "static" => cs[r] \cap idle_kill = {}
  PROVE  /\ forkfails' <= MaxForkFails
         /\ idle_kill' \subseteq AllOf(children')
         /\ \A r \in Pools : Pm[r] = "static" => children'[r] \cap idle_kill' = {}
         /\ forkfails' = MaxForkFails =>
              /\ forkfails = MaxForkFails
              /\ \E new \in SUBSET Pids :
                   Cardinality(new) = Missing(p, cs, max) /\ Fork(p, new, cs, pr)
  <1>1. PICK new \in SUBSET Pids : Fork(p, new, cs, pr)
    BY Zenon DEF fpm_children_make, MakeAll, MakeFails
  <1>0. Ages(p, new, cs)
    BY <1>1, ForkAges, Zenon
  <1>2. idle_kill' \subseteq AllOf(children')
    BY <1>0, Zenon DEF Ages
  <1>3. ASSUME NEW r \in Pools, Pm[r] = "static" PROVE children'[r] \cap idle_kill' = {}
    <2>1. /\ children'[r] = IF r = p THEN cs[p] \cup new ELSE cs[r]
          /\ \A x \in cs[r] : x \in idle_kill' <=> x \in idle_kill
          /\ \A x \in new : x \notin idle_kill'
      BY <1>0, Zenon DEF Ages
    <2> QED
      BY <1>3, <2>1, Zenon
  <1>4. /\ forkfails' <= MaxForkFails
        /\ forkfails' = MaxForkFails => forkfails = MaxForkFails /\ MakeAll(p, cs, pr, max)
    BY ModelAssumption DEF TypeOK, fpm_children_make, MakeAll, MakeFails
  <1> QED
    BY <1>2, <1>3, <1>4, Zenon DEF MakeAll

(* While no fork has failed, every fork adds at most as many children as idle *)
(* children may be spared, and replaces the one that pool p lost, if any.     *)
LEMMA MakeKeeps ==
  ASSUME Counted, TypeOK, NEW p \in Pools, NEW max \in Int, NEW cs \in [Pools -> SUBSET Pids],
         NEW pr \in [Pids -> ProcStates], Exact(cs, pr), fpm_children_make(p, cs, pr, max),
         ProcessMax = 0, forkfails <= MaxForkFails, UNCHANGED <<master, fpm_state>>,
         \A r \in Pools : Pm[r] = "static" => cs[r] \cap idle_kill = {},
         NEW td, NEW td2, fpm_state = "NORMAL" /\ master \in Running => td2 = {},
         fpm_state = "NORMAL" /\ master \in Catching /\ forkfails = MaxForkFails =>
           /\ p \notin td2
           /\ \A r \in Pools \ {p} : /\ r \in td2 <=> r \in td
                                     /\ Pm[r] = "dynamic" => Manned(r, td, cs[r], older, idle_kill)
           /\ Pm[p] = "dynamic" =>
                /\ Aged(cs[p], older, PmMaxSpare[p])
                /\ max - Cardinality(cs[p]) <= PmMaxSpare[p]
                /\ \/ max - Cardinality(cs[p]) >= 1
                   \/ Survives(cs[p], older, idle_kill)
  PROVE  Keeping(forkfails', fpm_state', master', td2, children', older', idle_kill')
  <1>1. /\ forkfails' <= MaxForkFails
        /\ idle_kill' \subseteq AllOf(children')
        /\ \A r \in Pools : Pm[r] = "static" => children'[r] \cap idle_kill' = {}
        /\ forkfails' = MaxForkFails =>
             /\ forkfails = MaxForkFails
             /\ \E new \in SUBSET Pids :
                  Cardinality(new) = Missing(p, cs, max) /\ Fork(p, new, cs, pr)
    BY MakeForks, Zenon
  <1>2. ASSUME fpm_state = "NORMAL", master \in Catching, forkfails' = MaxForkFails,
               NEW r \in Pools, Pm[r] = "dynamic"
        PROVE  Manned(r, td2, children'[r], older', idle_kill')
    <2>1. PICK new \in SUBSET Pids :
            Cardinality(new) = Missing(p, cs, max) /\ Fork(p, new, cs, pr)
      BY <1>1, <1>2, Zenon
    <2>2. PmMaxSpare[r] \in Nat /\ forkfails = MaxForkFails
      BY <1>1, <1>2, ConfAssumption, Zenon
    <2>3. CASE r # p
      BY <1>2, <2>1, <2>2, <2>3, ForkOthers, Zenon
    <2>4. CASE r = p
      <3>1. /\ p \notin td2 /\ Aged(cs[p], older, PmMaxSpare[p])
            /\ max - Cardinality(cs[p]) <= PmMaxSpare[p]
            /\ max - Cardinality(cs[p]) >= 1 \/ Survives(cs[p], older, idle_kill)
        BY <1>2, <2>2, <2>4, Zenon
      <3>2. Cardinality(cs[p]) \in Nat /\ Cardinality(new) \in Nat /\ Cardinality({}) = 0
        BY Size, Zenon
      <3>3. Cardinality(new) = Positive(max - Cardinality(cs[p]))
        BY <1>2, <2>1 DEF Missing
      <3>4. Cardinality(new) <= PmMaxSpare[p]
        BY <2>2, <2>4, <3>1, <3>2, <3>3 DEF Positive
      <3>5. ASSUME new = {} PROVE Survives(cs[p], older, idle_kill)
        <4>1. ~(max - Cardinality(cs[p]) >= 1)
          BY <3>2, <3>3, <3>5 DEF Positive
        <4> QED
          BY <3>1, <4>1, Zenon
      <3>6. /\ Aged(children'[p], older', PmMaxSpare[p])
            /\ Survives(children'[p], older', idle_kill')
        BY <2>1, <2>2, <2>4, <3>1, <3>4, <3>5, ForkManned, Zenon
      <3> QED
        BY <2>4, <3>1, <3>6, Zenon DEF Manned
    <2> QED
      BY <2>3, <2>4, Zenon
  <1> QED
    BY <1>1, <1>2, Zenon DEF Keeping

LEMMA KeepInit == Init => KeepInv
  <1> SUFFICES ASSUME Init PROVE KeepInv
    OBVIOUS
  <1>1. MaxForkFails <= MaxForkFails
    BY ModelAssumption
  <1> QED
    BY <1>1, Zenon DEF Init, KeepInv, Keeping, Manned, Running

(* fpm_pctl never leads back to state NORMAL.                                 *)
LEMMA SetLeaves ==
  ASSUME NEW new \in PctlStates, NEW cs, NEW pr, NEW back, fpm_pctl_set(new, cs, pr, back)
  PROVE  /\ fpm_state' = "NORMAL" => fpm_state = "NORMAL" /\ ~CanOverride(fpm_state, new)
         /\ master' \in {back, "exec", "exited"}
BY DEF fpm_pctl_set, fpm_pctl_action_next, fpm_pctl_action_last, PctlStates, pctlVars

LEMMA KeepNext ==
  ASSUME Counted, ProcessMax = 0, TypeInv, ReapInv, KeepInv, [Next]_vars
  PROVE  KeepInv'
  <1> DEFINE Goal == Keeping(forkfails', fpm_state', master', todo', children', older', idle_kill')
  <1>s. SUFFICES Goal
    BY Zenon DEF KeepInv, Keeping, Manned, Aged, Survives, Mates, AllOf
  <1>t. /\ TypeOK /\ children \in [Pools -> SUBSET Pids] /\ proc \in [Pids -> ProcStates]
        /\ forkfails \in Nat /\ MaxForkFails \in Nat /\ older \in [Pids -> SUBSET Pids]
    BY ModelAssumption DEF TypeInv, TypeOK
  <1>e. Exact(children, proc) /\ (master \in Down => AllGone(proc))
    BY <1>t, ReapInvParts, Zenon
  <1>k. Keeping(forkfails, fpm_state, master, todo, children, older, idle_kill)
    BY DEF KeepInv
  <1>f. /\ forkfails <= MaxForkFails /\ idle_kill \subseteq AllOf(children)
        /\ \A r \in Pools : Pm[r] = "static" => children[r] \cap idle_kill = {}
        /\ fpm_state = "NORMAL" /\ master \in Running => todo = {}
    BY <1>k DEF Keeping
  <1>d. ASSUME fpm_state = "NORMAL", master \in Catching, forkfails = MaxForkFails,
               NEW p \in Pools, Pm[p] = "dynamic"
        PROVE  Manned(p, todo, children[p], older, idle_kill)
    BY <1>d, <1>k, Zenon DEF Keeping
  <1>r. \A m \in Running : m \in Catching
    BY DEF Running, Catching
  <1>c. \A p \in Pools : /\ Cardinality(children[p]) \in Nat
                         /\ PmMaxSpare[p] \in Nat /\ PmMaxChildren[p] \in Nat
                         /\ Pm[p] = "dynamic" =>
                              /\ 1 <= PmMinSpare[p] /\ PmMinSpare[p] <= PmStartServers[p]
                              /\ PmStartServers[p] <= PmMaxSpare[p]
                              /\ PmMinSpare[p] \in Nat /\ PmStartServers[p] \in Nat
    BY <1>t, Size, ConfAssumption
(* Steps that touch no list and enter no state in which more is promised.     *)
  <1>q. ASSUME UNCHANGED <<todo, children, older, idle_kill, forkfails>>,
               fpm_state' = "NORMAL" => fpm_state = "NORMAL",
               master' \in Running => master \in Running,
               master' \in Catching => master \in Catching
        PROVE  Goal
    BY <1>q, <1>k, Zenon DEF Keeping
  <1>1. ASSUME NEW p \in Pools, StartPool(p) PROVE Goal
    <2>1. /\ fpm_children_make(p, children, proc, StartTarget(p))
          /\ master = "start" /\ UNCHANGED <<master, fpm_state>>
          /\ p \in todo /\ todo' = todo \ {p}
      BY <1>1, Zenon DEF StartPool, fpm_children_make, pctlVars
    <2>2. StartTarget(p) \in Int
      BY ConfAssumption DEF StartTarget, Styles
    <2>3. ASSUME fpm_state = "NORMAL", master \in Catching, forkfails = MaxForkFails,
                 Pm[p] = "dynamic"
          PROVE  /\ Aged(children[p], older, PmMaxSpare[p])
                 /\ StartTarget(p) - Cardinality(children[p]) <= PmMaxSpare[p]
                 /\ StartTarget(p) - Cardinality(children[p]) >= 1
      <3>1. children[p] = {} /\ Cardinality({}) = 0
        BY <2>1, <2>3, <1>d, Size, Zenon DEF Manned
      <3>2. StartTarget(p) = PmStartServers[p]
        BY <2>3, Zenon DEF StartTarget
      <3> QED
        BY <2>3, <3>1, <3>2, <1>c DEF Aged
    <2>4. master \notin Running
      BY <2>1 DEF Running
    <2> QED
      BY <1>t, <1>e, <1>f, <1>d, <2>1, <2>2, <2>3, <2>4, MakeKeeps, Zenon
  <1>2. ASSUME NEW p \in Pools, StartPoolFails(p) PROVE Goal
    <2>1. PICK new \in SUBSET {q \in Pids : proc[q] = "none"} :
            /\ forkfails > 0 /\ forkfails' = forkfails - 1
            /\ UNCHANGED <<idle_kill, todo>>
            /\ children' = [children EXCEPT ![p] = @ \cup new]
            /\ fpm_pctl_set("TERMINATING", [children EXCEPT ![p] = @ \cup new],
                 [q \in Pids |-> IF q \in new THEN "init" ELSE proc[q]], "loop")
      BY <1>2, Zenon DEF StartPoolFails
    <2>2. fpm_state' # "NORMAL"
      <3>1. "TERMINATING" \in PctlStates
        BY Zenon DEF PctlStates
      <3>2. fpm_state' = "NORMAL" => fpm_state = "NORMAL" /\ ~CanOverride(fpm_state, "TERMINATING")
        BY <2>1, <3>1, SetLeaves, Zenon
      <3> QED
        BY <3>2 DEF CanOverride
    <2>3. \A q \in new : q \notin idle_kill
      BY <2>1, <1>e, <1>f, AllOfMember DEF Exact
    <2>4. \A r \in Pools : children'[r] = IF r = p THEN children[p] \cup new ELSE children[r]
      BY <2>1, <1>t, Zenon
    <2>5. idle_kill' \subseteq AllOf(children')
      <3>1. ASSUME NEW x \in idle_kill PROVE x \in AllOf(children')
        <4>1. PICK r \in Pools : x \in children[r]
          BY <1>f, <3>1, AllOfMember, Zenon
        <4>2. x \in children'[r]
          BY <2>4, <4>1, Zenon
        <4> QED
          BY <4>2, AllOfMember
      <3> QED
        BY <2>1, <3>1, Zenon
    <2>6. \A r \in Pools : Pm[r] = "static" => children'[r] \cap idle_kill' = {}
      BY <2>1, <2>3, <2>4, <1>f
    <2>7. forkfails' <= MaxForkFails
      BY <2>1, <1>t, <1>f
    <2> QED
      BY <2>2, <2>5, <2>6, <2>7, Zenon DEF Keeping
  <1>3. CASE EnterLoop
    <2>1. /\ todo = {} /\ master = "start" /\ master' = "loop"
          /\ UNCHANGED <<todo, children, older, idle_kill, forkfails, fpm_state>>
      BY <1>3, Zenon DEF EnterLoop, poolVars, pctlVars, envVars
    <2>2. master \in Catching
      BY <2>1, Zenon DEF Catching
    <2> QED
      BY <2>1, <2>2, <1>k, Zenon DEF Keeping
  <1>4. CASE FpmInit
    <2>1. /\ master = "boot" /\ master' = "start" /\ todo' = Pools
          /\ UNCHANGED <<children, older, idle_kill, forkfails>>
      BY <1>4 DEF FpmInit, envVars
    <2>2. \A p \in Pools : children[p] = {}
      BY <2>1, <1>e, <1>t, Zenon DEF Exact, AllGone, Down
    <2>3. "start" \notin Running
      BY Zenon DEF Running
    <2> QED
      BY <2>1, <2>2, <2>3, <1>f, Zenon DEF Keeping, Manned
  <1>5. CASE fpm_got_signal
    <2>1. UNCHANGED <<todo, children, older, idle_kill, forkfails>> /\ master = "loop"
      BY <1>5, Zenon DEF fpm_got_signal, poolVars, envVars
    <2>2. \/ UNCHANGED fpm_state
          \/ /\ Head(sp) \in {"INT", "TERM", "QUIT", "USR2"}
             /\ fpm_pctl_set(Requested(Head(sp)), children, proc, "loop")
      BY <1>5, Zenon DEF fpm_got_signal, pctlVars
    <2>3. Head(sp) \in {"INT", "TERM", "QUIT", "USR2"} => Requested(Head(sp)) \in PctlStates
      BY DEF Requested, PctlStates
    <2>4. fpm_state' = "NORMAL" => fpm_state = "NORMAL"
      BY <2>2, <2>3, SetLeaves
    <2>5. master \in Running /\ master \in Catching
      BY <2>1, Zenon DEF Running, Catching
    <2> QED
      BY <2>1, <2>4, <2>5, <1>q
  <1>6. CASE fpm_pctl_action
    <2>1. /\ UNCHANGED <<todo, children, older, idle_kill, forkfails, fpm_state>>
          /\ master = "loop"
      BY <1>6, Zenon DEF fpm_pctl_action, fpm_pctl_action_next, poolVars, envVars
    <2>2. master \in Running /\ master \in Catching
      BY <2>1, Zenon DEF Running, Catching
    <2> QED
      BY <2>1, <2>2, <1>q
  <1>7. ASSUME NEW p \in Pools, Maintenance(p) PROVE Goal
    <2>1. master = "loop" /\ fpm_state = "NORMAL" /\ UNCHANGED <<todo, fpm_state>>
      BY <1>7, Zenon DEF Maintenance, pctlVars
    <2>c. \/ Pm[p] = "ondemand" /\ ChooseVictim(p)
          \/ Pm[p] = "dynamic" /\ Cardinality(Idle(p)) > PmMaxSpare[p] /\ ChooseVictim(p)
          \/ /\ Pm[p] = "dynamic" /\ UNCHANGED <<master, victim>>
             /\ fpm_children_make(p, children, proc, SpawnTarget(p, children, ToFork(p)))
          \/ UNCHANGED <<master, victim, children, older, idle_kill, proc, quitting, forkfails>>
      BY <1>7, Zenon DEF Maintenance
    <2>2. master \in Running /\ master \in Catching /\ todo = {}
      BY <2>1, <1>f DEF Running, Catching
    <2>3. CASE /\ Pm[p] = "ondemand" \/ (Pm[p] = "dynamic" /\ Cardinality(Idle(p)) > PmMaxSpare[p])
               /\ ChooseVictim(p)
      <3>1. PICK k \in LastIdle(p) : idle_kill' = idle_kill \cup {k}
        BY <2>3, Zenon DEF ChooseVictim
      <3>2. /\ UNCHANGED <<children, older, forkfails>>
            /\ k \in Idle(p) /\ Idle(p) \subseteq children[p] /\ older[k] \cap Idle(p) = {}
        BY <2>3, <3>1 DEF ChooseVictim, LastIdle, Idle
      <3>3. ASSUME NEW r \in Pools \ {p} PROVE k \notin children[r]
        BY <3>2, <1>e DEF Exact
      <3>4. idle_kill' \subseteq AllOf(children')
        BY <3>1, <3>2, <1>f, AllOfMember, Zenon
      <3>5. \A r \in Pools : Pm[r] = "static" => children'[r] \cap idle_kill' = {}
        BY <2>3, <3>1, <3>2, <3>3, <1>f, Zenon
      <3>6. ASSUME forkfails = MaxForkFails, NEW r \in Pools, Pm[r] = "dynamic"
            PROVE  Manned(r, todo', children'[r], older', idle_kill')
        <4>1. Aged(children[r], older, PmMaxSpare[r]) /\ Survives(children[r], older, idle_kill)
          BY <2>1, <2>2, <3>6, <1>d, Zenon DEF Manned
        <4>2. Survives(children[r], older, idle_kill')
          <5>1. CASE r # p
            BY <3>1, <3>3, <4>1, <5>1, SameSurvives, Zenon
          <5>2. CASE r = p
            <6>1. /\ children[p] \in SUBSET Pids /\ Idle(p) \in SUBSET children[p]
                  /\ Cardinality(Idle(p)) > PmMaxSpare[p] /\ PmMaxSpare[p] \in Nat
              BY <1>t, <1>c, <2>3, <3>2, <3>6, <5>2
            <6> QED
              BY <3>1, <3>2, <4>1, <5>2, <6>1, ChooseSurvives, Zenon
          <5> QED
            BY <5>1, <5>2
        <4> QED
          BY <2>1, <2>2, <3>2, <4>1, <4>2, Zenon DEF Manned
      <3> QED
        BY <2>1, <2>2, <3>2, <3>4, <3>5, <3>6, <1>f DEF Keeping
    <2>4. CASE /\ Pm[p] = "dynamic" /\ UNCHANGED <<master, victim>>
               /\ fpm_children_make(p, children, proc, SpawnTarget(p, children, ToFork(p)))
      <3>1. Cardinality(Idle(p)) \in Nat
        BY <1>t, Size DEF Idle
      <3>2. ToFork(p) \in Int /\ ToFork(p) <= PmMaxSpare[p]
        BY <1>c, <1>t, <2>4, <3>1, ConfAssumption DEF ToFork, Smallest, TypeOK
      <3>3. /\ SpawnTarget(p, children, ToFork(p)) = Cardinality(children[p]) + ToFork(p)
        BY <2>4, Zenon DEF SpawnTarget
      <3>4. ASSUME forkfails = MaxForkFails
            PROVE  /\ Aged(children[p], older, PmMaxSpare[p])
                   /\ Survives(children[p], older, idle_kill)
        BY <2>1, <2>2, <2>4, <3>4, <1>d, Zenon DEF Manned
      <3>5. /\ SpawnTarget(p, children, ToFork(p)) \in Int
            /\ SpawnTarget(p, children, ToFork(p)) - Cardinality(children[p]) <= PmMaxSpare[p]
        BY <3>2, <3>3, <1>c
      <3> QED
        BY <1>t, <1>e, <1>f, <1>d, <2>1, <2>2, <2>4, <3>4, <3>5, MakeKeeps, Zenon
    <2>5. CASE UNCHANGED <<master, victim, children, older, idle_kill, proc, quitting, forkfails>>
      BY <2>1, <2>5, <1>q
    <2> HIDE DEF Goal
    <2> QED
      BY <2>c, <2>3, <2>4, <2>5, Zenon
  <1>8. ASSUME NEW p \in Pools, fpm_pctl_on_socket_accept(p) PROVE Goal
    <2>1. /\ master = "loop" /\ UNCHANGED <<master, fpm_state, todo>>
          /\ \/ UNCHANGED <<children, older, idle_kill, proc, quitting, forkfails>>
             \/ fpm_children_make(p, children, proc, SpawnTarget(p, children, 1))
      BY <1>8 DEF fpm_pctl_on_socket_accept, pctlVars, masterVars
    <2>2. master \in Running /\ master \in Catching
      BY <2>1, Zenon DEF Running, Catching
    <2>3. CASE UNCHANGED <<children, older, idle_kill, proc, quitting, forkfails>>
      BY <2>1, <2>3, <1>q
    <2>4. CASE fpm_children_make(p, children, proc, SpawnTarget(p, children, 1))
      <3>1. SpawnTarget(p, children, 1) \in Int
        BY <1>c DEF SpawnTarget
      <3>2. ASSUME Pm[p] = "dynamic"
            PROVE  SpawnTarget(p, children, 1) - Cardinality(children[p]) = 1 /\ 1 <= PmMaxSpare[p]
        BY <1>c, <3>2 DEF SpawnTarget
      <3>3. ASSUME fpm_state = "NORMAL", forkfails = MaxForkFails, Pm[p] = "dynamic"
            PROVE  /\ Aged(children[p], older, PmMaxSpare[p])
                   /\ SpawnTarget(p, children, 1) - Cardinality(children[p]) <= PmMaxSpare[p]
                   /\ SpawnTarget(p, children, 1) - Cardinality(children[p]) >= 1
        <4>1. todo = {}
          BY <2>2, <3>3, <1>f
        <4>2. Aged(children[p], older, PmMaxSpare[p])
          BY <2>2, <3>3, <4>1, <1>d DEF Manned
        <4> QED
          BY <3>2, <3>3, <4>2
      <3>4. fpm_state = "NORMAL" => todo = {}
        BY <2>2, <1>f, Zenon
      <3> QED
        BY <1>t, <1>e, <1>f, <1>d, <2>1, <2>2, <2>4, <3>1, <3>3, <3>4, MakeKeeps, Zenon
    <2> QED
      BY <2>1, <2>3, <2>4, Zenon
  <1>9. ASSUME NEW q \in Pids, BuryOne(q) PROVE Goal
    <2> DEFINE p == PoolOf(q)
               cs == [children EXCEPT ![p] = @ \ {q}]
               pr == [proc EXCEPT ![q] = "none"]
               max == IF RestartChild(q) THEN SpawnTarget(p, cs, 1) ELSE Cardinality(cs[p])
    <2>1. master = "bury" /\ q \in Linked /\ UNCHANGED todo
      BY <1>9, Zenon DEF BuryOne
    <2>2. /\ p \in Pools /\ Exact(cs, pr) /\ q \in children[p]
          /\ cs \in [Pools -> SUBSET Pids] /\ pr \in [Pids -> ProcStates]
      BY <2>1, <1>t, <1>e, UnlinkExact, Zenon DEF ProcStates
    <2>3. master \in Running /\ master \in Catching
      BY <2>1 DEF Running, Catching
    <2>4. \A r \in Pools : cs[r] = IF r = p THEN children[p] \ {q} ELSE children[r]
      BY <1>t, <2>2
    <2>5. \A r \in Pools : Pm[r] = "static" => cs[r] \cap idle_kill = {}
      BY <2>4, <1>f
    <2>6. fpm_state = "NORMAL" => todo = {}
      BY <2>3, <1>f
    <2>7. ASSUME fpm_state # "NORMAL", UNCHANGED <<fpm_state, forkfails>>, children' = cs,
                 idle_kill' = {}
          PROVE  Goal
      BY <2>7, <1>f, Zenon DEF Keeping
    <2>8. ASSUME fpm_pctl_set("RELOADING", cs, pr, "bury"), idle_kill' = idle_kill \ {q},
                 children' = cs, UNCHANGED forkfails
          PROVE  Goal
      <3>1. fpm_state' # "NORMAL"
        <4>1. "RELOADING" \in PctlStates
          BY DEF PctlStates
        <4>2. fpm_state' = "NORMAL" => fpm_state = "NORMAL" /\ ~CanOverride(fpm_state, "RELOADING")
          BY <2>8, <4>1, SetLeaves, Zenon
        <4> QED
          BY <4>2 DEF CanOverride
      <3>2. ASSUME NEW x \in idle_kill \ {q} PROVE x \in AllOf(cs)
        <4>1. PICK r \in Pools : x \in children[r]
          BY <1>f, <3>2, AllOfMember
        <4>2. x \in cs[r]
          BY <2>4, <3>2, <4>1
        <4> QED
          BY <4>2, AllOfMember, Zenon
      <3>3. \A r \in Pools : Pm[r] = "static" => children'[r] \cap idle_kill' = {}
        BY <2>5, <2>8
      <3>4. idle_kill' \subseteq AllOf(children')
        BY <2>8, <3>2, Zenon
      <3> HIDE DEF cs, pr
      <3> QED
        BY <2>8, <3>1, <3>3, <3>4, <1>f, Zenon DEF Keeping
    <2>9. ASSUME fpm_children_make(p, cs, pr, max), UNCHANGED <<master, fpm_state>>
          PROVE  Goal
      <3>1. max \in Int /\ Cardinality(cs[p]) \in Nat
        <4>1. Cardinality(cs[p]) \in Nat
          BY <2>2, Size
        <4> HIDE DEF p, cs
        <4> QED
          BY <4>1, <1>c, <2>2, SMTT(60) DEF SpawnTarget
      <3>2. ASSUME fpm_state = "NORMAL", forkfails = MaxForkFails, NEW r \in Pools,
                   Pm[r] = "dynamic"
            PROVE  Aged(children[r], older, PmMaxSpare[r]) /\ Survives(children[r], older, idle_kill)
        BY <2>3, <2>6, <3>2, <1>d, Zenon DEF Manned
      <3>3. ASSUME fpm_state = "NORMAL", forkfails = MaxForkFails, NEW r \in Pools \ {p},
                   Pm[r] = "dynamic"
            PROVE  Manned(r, todo, cs[r], older, idle_kill)
        <4>1. cs[r] = children[r]
          BY <2>4
        <4> HIDE DEF cs
        <4> QED
          BY <2>6, <3>2, <3>3, <4>1 DEF Manned
      <3>4. ASSUME fpm_state = "NORMAL", forkfails = MaxForkFails, Pm[p] = "dynamic"
            PROVE  /\ Aged(cs[p], older, PmMaxSpare[p])
                   /\ max - Cardinality(cs[p]) <= PmMaxSpare[p]
                   /\ \/ max - Cardinality(cs[p]) >= 1
                      \/ Survives(cs[p], older, idle_kill)
        <4>1. Aged(children[p], older, PmMaxSpare[p]) /\ Survives(children[p], older, idle_kill)
          BY <2>2, <3>2, <3>4, Zenon
        <4>2. cs[p] = children[p] \ {q} /\ children[p] \in SUBSET Pids /\ cs[p] \in SUBSET children[p]
          BY <2>2, <2>4, <1>t
        <4>3. PmMaxSpare[p] \in Nat /\ PmMaxSpare[p] >= 1
          BY <2>2, <3>4, <1>c
        <4>4. CASE RestartChild(q)
          <5>1. max = Cardinality(cs[p]) + 1
            BY <3>4, <4>4, Zenon DEF SpawnTarget
          <5> HIDE DEF max, cs, p
          <5>2. Aged(cs[p], older, PmMaxSpare[p])
            BY <4>1, <4>2, <4>3, ShrinkAged
          <5> QED
            BY <3>1, <4>3, <5>1, <5>2
        <4>5. CASE ~RestartChild(q)
          <5>1. max = Cardinality(cs[p]) /\ q \in idle_kill
            BY <4>5, Zenon DEF RestartChild
          <5> HIDE DEF max, cs, p
          <5>2. Aged(cs[p], older, PmMaxSpare[p])
            BY <4>1, <4>2, <4>3, ShrinkAged, Zenon
          <5>3. Survives(cs[p], older, idle_kill)
            BY <2>2, <4>1, <4>2, <5>1 DEF Survives
          <5> QED
            BY <3>1, <4>3, <5>1, <5>2, <5>3
        <4> QED
          BY <4>4, <4>5, Zenon
      <3> HIDE DEF max, cs, pr, p
      <3> QED
        BY <1>t, <1>f, <2>1, <2>2, <2>3, <2>5, <2>6, <2>9, <3>1, <3>3, <3>4, MakeKeeps, Zenon
    <2> HIDE DEF Goal
    <2> QED
      BY <1>9, <2>7, <2>8, <2>9, ZenonT(30) DEF BuryOne, pctlVars
  <1>10. CASE IdleKill \/ BuryDone
    <2>1. /\ UNCHANGED <<todo, children, older, idle_kill, forkfails, fpm_state>>
          /\ master \in {"kill", "bury"}
      BY <1>10, Zenon DEF IdleKill, BuryDone, poolVars, pctlVars, envVars
    <2>2. master \in Running /\ master \in Catching
      BY <2>1 DEF Running, Catching
    <2> QED
      BY <2>1, <2>2, <1>q
  <1>11. CASE FcgiInit \/ FpmInitFails
    <2>1. /\ UNCHANGED <<todo, children, older, idle_kill, forkfails, fpm_state>>
          /\ master' \in {"boot", "exited"}
      BY <1>11, Zenon DEF FcgiInit, FpmInitFails, poolVars, pctlVars, envVars
    <2>2. master' \notin Running /\ master' \notin Catching
      BY <2>1 DEF Running, Catching
    <2> QED
      BY <2>1, <2>2, <1>q
  <1>12. ASSUME NEW s \in Signals, Deliver(s) PROVE Goal
    <2>1. /\ UNCHANGED <<todo, children, older, idle_kill, forkfails, fpm_state>>
          /\ UNCHANGED master \/ master' = "killed"
      BY <1>12, Zenon DEF Deliver, poolVars, pctlVars, envVars
    <2>2. "killed" \notin Running /\ "killed" \notin Catching
      BY DEF Running, Catching
    <2> QED
      BY <2>1, <2>2, <1>q
  <1>13. ASSUME NEW q \in Pids, ChildStep(q) PROVE Goal
    <2>1. UNCHANGED <<todo, children, older, idle_kill, forkfails, fpm_state, master>>
      BY <1>13, <1>t, ChildCases, Zenon DEF masterVars, poolVars, pctlVars
    <2> QED
      BY <2>1, <1>q
  <1>14. CASE Environment \/ Stopped \/ UNCHANGED vars
    <2>1. UNCHANGED <<todo, children, older, idle_kill, forkfails, fpm_state, master>>
      BY <1>14 DEF Environment, Connect, SendSignal, Stopped, vars, masterVars, poolVars, pctlVars,
                   envVars
    <2> QED
      BY <2>1, <1>q
  <1> HIDE DEF Goal
  <1> QED
    BY <1>1, <1>2, <1>3, <1>4, <1>5, <1>6, <1>7, <1>8, <1>9, <1>10, <1>11, <1>12, <1>13, <1>14,
       ZenonT(30) DEF Next, MasterStep

LEMMA KeepInvariant ==
  ASSUME Counted, ProcessMax = 0
  PROVE  Spec => [](TypeInv /\ ReapInv /\ KeepInv)
  <1>1. Init => KeepInv
    BY KeepInit
  <1>2. TypeInv /\ ReapInv /\ KeepInv /\ [Next]_vars => KeepInv'
    BY KeepNext, Zenon
  <1> QED
    BY <1>1, <1>2, ReapInvariant, PTL DEF Spec

LEMMA KeepMeans == KeepInv => DynamicKeepsOne
  <1> SUFFICES ASSUME KeepInv, fpm_state = "NORMAL", master \in {"loop", "kill"},
                      forkfails = MaxForkFails, NEW p \in Pools, Pm[p] = "dynamic"
               PROVE  children[p] \ idle_kill # {}
    BY DEF DynamicKeepsOne
  <1>1. todo = {} /\ Manned(p, todo, children[p], older, idle_kill)
    BY Zenon DEF KeepInv, Keeping, Running, Catching
  <1>2. Survives(children[p], older, idle_kill)
    BY <1>1, Zenon DEF Manned
  <1> QED
    BY <1>2, Zenon DEF Survives

----------------------------------------------------------------------------
(* A static pool fills up. *)

(* A dead process stays one that waits to be reaped. *)
Stays(pr) == \A z \in Pids : pr[z] \in Dead => proc'[z] \in Dead

LEMMA MakeStays ==
  ASSUME NEW p, NEW cs, NEW pr, NEW max, fpm_children_make(p, cs, pr, max)
  PROVE  Stays(pr)
  <1>1. PICK new : /\ new \subseteq {q \in Pids : pr[q] = "none"}
                   /\ proc' = [q \in Pids |-> IF q \in new THEN "init" ELSE pr[q]]
    BY Zenon DEF fpm_children_make, MakeAll, MakeFails, Fork
  <1> QED
    BY <1>1 DEF Stays, Dead

LEMMA NextStays ==
  ASSUME NEW st, NEW sent, NEW cs, NEW pr, NEW back, NEW tq,
         fpm_pctl_action_next(st, sent, cs, pr, back, tq)
  PROVE  Stays(pr)
  <1>1. CASE NoChild(cs)
    BY <1>1, Zenon DEF fpm_pctl_action_next, Stays
  <1>2. CASE ~NoChild(cs)
    <2>1. proc' = [q \in Pids |-> IF q \in AllOf(cs) THEN Signalled(pr, q, NextSignal(st, sent))
                                                     ELSE pr[q]]
      BY <1>2, Zenon DEF fpm_pctl_action_next, fpm_pctl_kill_all
    <2>2. \A q \in Pids : pr[q] \in Dead => Signalled(pr, q, NextSignal(st, sent)) = pr[q]
      BY DEF Signalled, Living, Heeding, Dead
    <2> QED
      BY <2>1, <2>2 DEF Stays
  <1> QED
    BY <1>1, <1>2, Zenon

LEMMA SetStays ==
  ASSUME NEW new, NEW cs, NEW pr, NEW back, fpm_pctl_set(new, cs, pr, back)
  PROVE  Stays(pr)
  <1>1. CASE CanOverride(fpm_state, new)
    BY <1>1, NextStays, Zenon DEF fpm_pctl_set
  <1>2. CASE ~CanOverride(fpm_state, new)
    BY <1>2, Zenon DEF fpm_pctl_set, Stays
  <1> QED
    BY <1>1, <1>2, Zenon

(* Only fpm_children_bury reaps.                                              *)
LEMMA OnlyBuryReaps ==
  ASSUME TypeOK, [Next]_vars
  PROVE  Stays(proc) \/ \E q \in Pids : BuryOne(q)
  <1>s. UNCHANGED proc => Stays(proc)
    BY DEF Stays
  <1>1. ASSUME NEW p \in Pools, StartPool(p) PROVE Stays(proc)
    BY <1>1, MakeStays, Zenon DEF StartPool, fpm_children_make
  <1>2. ASSUME NEW p \in Pools, StartPoolFails(p) PROVE Stays(proc)
    <2>1. PICK new \in SUBSET {q \in Pids : proc[q] = "none"} :
            \E cs : fpm_pctl_set("TERMINATING", cs,
                     [q \in Pids |-> IF q \in new THEN "init" ELSE proc[q]], "loop")
      BY <1>2, Zenon DEF StartPoolFails
    <2>2. Stays([q \in Pids |-> IF q \in new THEN "init" ELSE proc[q]])
      BY <2>1, SetStays, Zenon
    <2> QED
      BY <2>1, <2>2 DEF Stays, Dead
  <1>3. CASE EnterLoop \/ FcgiInit \/ FpmInit \/ FpmInitFails \/ BuryDone
    BY <1>3, <1>s DEF EnterLoop, FcgiInit, FpmInit, FpmInitFails, BuryDone, procVars
  <1>4. ASSUME NEW s \in Signals, Deliver(s) PROVE Stays(proc)
    BY <1>4, <1>s, Zenon DEF Deliver, procVars
  <1>5. CASE fpm_got_signal
    BY <1>5, <1>s, SetStays DEF fpm_got_signal, procVars
  <1>6. CASE fpm_pctl_action
    BY <1>6, <1>s, NextStays, Zenon DEF fpm_pctl_action, procVars
  <1>7. CASE IdleKill
    BY <1>7, <1>s, Zenon DEF IdleKill, procVars
  <1>8. ASSUME NEW p \in Pools, Maintenance(p) PROVE Stays(proc)
    <2>1. ChooseVictim(p) => UNCHANGED proc
      BY DEF ChooseVictim, procVars
    <2>2. \/ UNCHANGED proc
          \/ fpm_children_make(p, children, proc, SpawnTarget(p, children, ToFork(p)))
      BY <1>8, <2>1, Zenon DEF Maintenance, procVars
    <2> QED
      BY <2>2, <1>s, MakeStays
  <1>9. ASSUME NEW p \in Pools, fpm_pctl_on_socket_accept(p) PROVE Stays(proc)
    <2>1. \/ UNCHANGED proc
          \/ fpm_children_make(p, children, proc, SpawnTarget(p, children, 1))
      BY <1>9, Zenon DEF fpm_pctl_on_socket_accept, procVars
    <2> QED
      BY <2>1, <1>s, MakeStays, Zenon
  <1>10. ASSUME NEW q \in Pids, ChildStep(q) PROVE Stays(proc)
    <2>1. Begins(q) \/ Ends(q) \/ Serves(q)
      BY <1>10, ChildCases, Zenon
    <2>2. proc \in [Pids -> ProcStates]
      BY DEF TypeOK
    <2> QED
      BY <2>1, <2>2 DEF Stays, Begins, Ends, Serves, Dead, Living, Heeding
  <1>11. CASE Environment \/ Stopped \/ UNCHANGED vars
    BY <1>11, <1>s, Zenon DEF Environment, Connect, SendSignal, Stopped, vars, procVars
  <1> QED
    BY <1>1, <1>2, <1>3, <1>4, <1>5, <1>6, <1>7, <1>8, <1>9, <1>10, <1>11, Zenon
       DEF Next, MasterStep

(* The death of a child of a static pool, none of whose children is ever told *)
(* to quit: the loop of fpm_children_make works towards pm.max_children.      *)
LEMMA StaticStep ==
  ASSUME Counted, ProcessMax = 0, TypeInv, ReapInv, KeepInv, WithinLimits, [Next]_vars,
         NEW p \in Pools, Pm[p] = "static", fpm_state = "NORMAL", fpm_state' = "NORMAL",
         NEW c \in children[p], Zombie(c), ~Zombie(c)', forkfails' = forkfails
  PROVE  Cardinality(children'[p]) = PmMaxChildren[p]
  <1>t. /\ TypeOK /\ children \in [Pools -> SUBSET Pids] /\ proc \in [Pids -> ProcStates]
        /\ forkfails \in Nat /\ PmMaxChildren[p] \in Nat
    BY ConfAssumption, Zenon DEF TypeInv, TypeOK
  <1>e. Exact(children, proc)
    BY <1>t, ReapInvParts, Zenon
  <1>1. PICK q \in Pids : BuryOne(q)
    BY <1>t, OnlyBuryReaps, Zenon DEF Stays, Zombie
  <1> DEFINE p1 == PoolOf(q)
             cs == [children EXCEPT ![p1] = @ \ {q}]
             pr == [proc EXCEPT ![q] = "none"]
             max == IF RestartChild(q) THEN SpawnTarget(p1, cs, 1) ELSE Cardinality(cs[p1])
  <1>2. q \in Linked
    BY <1>1, Zenon DEF BuryOne
  <1>3. /\ p1 \in Pools /\ Exact(cs, pr) /\ q \in children[p1]
        /\ cs \in [Pools -> SUBSET Pids] /\ pr \in [Pids -> ProcStates]
    BY <1>2, <1>t, <1>e, UnlinkExact, Zenon DEF ProcStates
  <1>4. MakeAll(p1, cs, pr, max)
    <2>1. ~fpm_pctl_set("RELOADING", cs, pr, "bury")
      <3>1. "RELOADING" \in PctlStates
        BY DEF PctlStates
      <3> HIDE DEF cs, pr
      <3> QED
        BY <3>1, SetLeaves DEF CanOverride
    <2>2. fpm_children_make(p1, cs, pr, max)
      BY <1>1, <2>1, ZenonT(30) DEF BuryOne
    <2>3. ~MakeFails(p1, cs, pr, max)
      BY <1>t DEF MakeFails
    <2> QED
      BY <2>2, <2>3, Zenon DEF fpm_children_make
  <1>5. PICK new \in SUBSET Pids : Cardinality(new) = Missing(p1, cs, max) /\ Fork(p1, new, cs, pr)
    BY <1>4, Zenon DEF MakeAll
  <1>6. \A r \in Pools : cs[r] = IF r = p1 THEN children[p1] \ {q} ELSE children[r]
    BY <1>t, <1>3, Zenon
  <1>7. /\ \A r \in Pools : children'[r] = IF r = p1 THEN cs[p1] \cup new ELSE cs[r]
        /\ cs[p1] \cap new = {} /\ new \in SUBSET Pids
    <2> HIDE DEF p1, cs, pr
    <2>1. Ages(p1, new, cs)
      BY <1>3, <1>5, ForkAges, Zenon
    <2> QED
      BY <1>3, <2>1, Zenon DEF Ages
  <1>8. p = p1
    <2>1. c = q
      <3>1. fpm_children_make(p1, cs, pr, max)
        BY <1>4, Zenon DEF fpm_children_make
      <3>2. Stays(pr)
        BY <3>1, MakeStays, Zenon
      <3> QED
        BY <1>t, <3>2, Zenon DEF Stays, Zombie
    <2> QED
      BY <2>1, <1>3, <1>e, Zenon DEF Exact
  <1>9. max = PmMaxChildren[p]
    <2>1. q \notin idle_kill
      BY <1>3, <1>8, Zenon DEF KeepInv, Keeping
    <2> QED
      BY <1>8, <2>1, Zenon DEF RestartChild, SpawnTarget
  <1>10. /\ cs[p] \in SUBSET children[p] /\ children[p] \in SUBSET Pids
         /\ Cardinality(children[p]) <= PmMaxChildren[p]
    BY <1>t, <1>6, Zenon DEF WithinLimits
  <1> HIDE DEF p1, cs, pr, max
  <1>11. Cardinality(new) = Positive(PmMaxChildren[p] - Cardinality(cs[p]))
    BY <1>5, <1>8, <1>9 DEF Missing
  <1>12. children'[p] = cs[p] \cup new /\ cs[p] \cap new = {} /\ PmMaxChildren[p] \in Nat
    BY <1>t, <1>7, <1>8
  <1> QED
    BY <1>10, <1>11, <1>12, Filled
============================================================================
