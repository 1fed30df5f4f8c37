------------------------- MODULE FpmRequestsProofs -------------------------
(* Slots, locks, stops and backtraces of FpmRequests, for any number of        *)
(* children and pids and any timeouts.                                        *)
EXTENDS FpmRequests, TLAPS

\* Which processes are listed children, and what the master holds on to while
\* workers go on.
Listed ==
  /\ \A p \in Pids : proc[p] = "none" <=> scoreboard_i[p] = -1
  /\ walk.left \subseteq Children
  /\ master \notin {"walk", "decide"} => walk.left = {}
  /\ master = "decide" => walk.child \in Children
  /\ master = "trace" => walk.child \in Pids /\ proc[walk.child] = "stopped"

TypeInv == TypeOK /\ Listed

\* What fpm_children_make keeps of the types, whatever it is called with.
LEMMA MakeType ==
  ASSUME NEW si \in [Pids -> {-1} \cup Slots], NEW sl \in [Slots -> SlotType],
         NEW hint \in Slots, NEW prc, ChildrenMake(si, sl, hint, prc),
         prc \in [Pids -> {"none", "run", "attached", "stopped", "held", "dead"}],
         \A p \in Pids : prc[p] = "none" <=> si[p] = -1,
         faults \in 0 .. MaxFaults
  PROVE  /\ slots' \in [Slots -> SlotType] /\ free_proc' \in Slots
         /\ scoreboard_i' \in [Pids -> {-1} \cup Slots]
         /\ proc' \in [Pids -> {"none", "run", "attached", "stopped", "held", "dead"}]
         /\ \A p \in Pids : proc'[p] = "none" <=> scoreboard_i'[p] = -1
         /\ \A p \in Pids : si[p] # -1 => scoreboard_i'[p] = si[p] /\ proc'[p] = prc[p]
         /\ faults' \in 0 .. MaxFaults
<1> USE ConfAssumption, ModelAssumption
<1>0. FreeSlot \in SlotType
  BY DEF FreeSlot, SlotType, Stages, Time
<1>1. CASE NotForked(si, sl, hint, prc)
  BY <1>1, Zenon DEF NotForked
<1>2. CASE \E i \in AllocSlots(sl, hint) : ForkFailed(i, si, sl, prc)
  <2> PICK i \in AllocSlots(sl, hint) : ForkFailed(i, si, sl, prc)
    BY <1>2, Zenon
  <2>1. i \in Slots
    BY Zenon DEF AllocSlots
  <2>2. ProcAlloc(sl, i) \in [Slots -> SlotType]
    BY <2>1, Zenon DEF ProcAlloc, SlotType
  <2>3. ProcFree(ProcAlloc(sl, i), i) \in [Slots -> SlotType]
    BY <1>0, <2>1, <2>2, Zenon DEF ProcFree
  <2> QED
    BY <2>1, <2>3 DEF ForkFailed
<1>3. CASE \E i \in AllocSlots(sl, hint), q \in Pids :
             prc[q] = "none" /\ Forked(q, i, si, sl, prc)
  <2> PICK i \in AllocSlots(sl, hint), q \in Pids :
             prc[q] = "none" /\ Forked(q, i, si, sl, prc)
    BY <1>3, Zenon
  <2>1. i \in Slots
    BY Zenon DEF AllocSlots
  <2>2. ProcAlloc(sl, i) \in [Slots -> SlotType]
    BY <2>1, Zenon DEF ProcAlloc, SlotType
  <2>3. NextHint(i) \in Slots
    BY <2>1 DEF NextHint, Slots
  <2>4. i # -1
    BY <2>1 DEF Slots
  <2> QED
    BY <2>1, <2>2, <2>3, <2>4, Zenon DEF Forked
<1> QED
  BY <1>1, <1>2, <1>3, Zenon DEF ChildrenMake

LEMMA NoneTyped ==
  /\ FreeSlot \in SlotType
  /\ NoJob \in [doing : Doings, at : Places, now : Time]
  /\ NoWalk \in [now : Time, left : SUBSET Pids, child : {"none"} \cup Pids, copy : SlotType]
BY ModelAssumption DEF FreeSlot, SlotType, Stages, Time, NoJob, Doings, Places, NoWalk

\* SIGTERM and other deaths keep the types, and no process comes or goes.
LEMMA KillType ==
  ASSUME TypeInv, NEW p \in Pids, Kill(p) \/ Die(p), proc[p] # "none"
  PROVE  /\ proc' \in [Pids -> {"none", "run", "attached", "stopped", "held", "dead"}]
         /\ term' \in [Pids -> {"no", "first", "later"}]
         /\ job' \in [Pids -> [doing : Doings, at : Places, now : Time]]
         /\ \A q \in Pids : (proc'[q] = "none" <=> proc[q] = "none")
         /\ \A q \in Pids : (proc'[q] = "stopped" <=> proc[q] = "stopped") \/ (Die(p) /\ q = p)
<1>1. CASE Die(p)
  BY <1>1, NoneTyped, Zenon DEF Die, TypeInv, TypeOK
<1>2. CASE Kill(p) /\ ~Die(p)
  BY <1>2, Zenon DEF Kill, TypeInv, TypeOK
<1> QED
  BY <1>1, <1>2, Zenon

LEMMA TypeInit == Init => TypeInv
BY ConfAssumption, ModelAssumption, NoneTyped
   DEF Init, TypeInv, TypeOK, Listed, Slots, Time, Children, NoWalk

\* The steps of a worker.
LEMMA TypeWorker ==
  ASSUME TypeInv, NEW p \in Pids,
         Worker(p) \/ Enter(p) \/ Leave(p) \/ Crash(p) \/ Stop(p)
  PROVE  TypeInv'
<1> USE ModelAssumption
<1>0. Running(p) => scoreboard_i[p] \in Slots
  BY Zenon DEF Running, TypeInv, TypeOK, Listed
<1>1. CASE LockSlot(p)
  <2>1. slots' \in [Slots -> SlotType]
    BY <1>0, <1>1, SMTT(30) DEF LockSlot, At, TypeInv, TypeOK, SlotType
  <2>2. job' \in [Pids -> [doing : Doings, at : Places, now : Time]]
    BY <1>1 DEF LockSlot, Go, TypeInv, TypeOK, Places
  <2> QED
    BY <1>1, <2>1, <2>2, Zenon DEF LockSlot, Elsewhere, TypeInv, TypeOK, Listed, Children,
       childVars, osVars
<1>2. CASE WriteSlot(p)
  <2>0. WrittenStage(job[p].doing) \in Stages /\ job[p].now \in Time
    BY Zenon DEF WrittenStage, Stages, TypeInv, TypeOK, Doings
  <2>a. Written(slots[scoreboard_i[p]], job[p]) \in SlotType
    BY <1>0, <1>2, <2>0, Zenon DEF WriteSlot, At, Written, TypeInv, TypeOK, SlotType
  <2>1. slots' \in [Slots -> SlotType]
    BY <1>0, <1>2, <2>a, Zenon DEF WriteSlot, At, TypeInv, TypeOK
  <2>2. job' \in [Pids -> [doing : Doings, at : Places, now : Time]]
    BY <1>2 DEF WriteSlot, TypeInv, TypeOK, Places, Time
  <2> QED
    BY <1>2, <2>1, <2>2, Zenon DEF WriteSlot, Elsewhere, TypeInv, TypeOK, Listed, Children,
       childVars, osVars
<1>3. CASE LockPool(p)
  <2>2. job' \in [Pids -> [doing : Doings, at : Places, now : Time]]
    BY <1>3 DEF LockPool, Go, TypeInv, TypeOK, Places
  <2> QED
    BY <1>3, <2>2, Zenon DEF LockPool, Elsewhere, TypeInv, TypeOK, Listed, Children,
       childVars, osVars
<1>4. CASE UpdatePool(p)
  <2>2. job' \in [Pids -> [doing : Doings, at : Places, now : Time]]
    BY <1>4 DEF UpdatePool, Go, TypeInv, TypeOK, Places
  <2> QED
    BY <1>4, <2>2, Zenon DEF UpdatePool, Elsewhere, TypeInv, TypeOK, Listed, Children,
       childVars, osVars
<1>5. CASE Enter(p)
  <2> PICK d \in Follows(job[p].doing) :
        LET new == d = "reading" \/ (job[p].doing = "end" /\ d = "info")
        IN  /\ new => requests > 0
            /\ requests' = IF new THEN requests - 1 ELSE requests
            /\ job' = [job EXCEPT ![p] = [doing |-> d, at |-> "lock",
                                          now |-> IF d = "reading" THEN clock ELSE 0]]
    BY <1>5, Zenon DEF Enter
  <2>1. d \in Doings
    BY Zenon DEF Follows, Doings, TypeInv, TypeOK
  <2>2. job' \in [Pids -> [doing : Doings, at : Places, now : Time]]
    BY <2>1 DEF TypeInv, TypeOK, Places, Time
  <2>3. requests' \in 0 .. MaxRequests
    BY DEF TypeInv, TypeOK
  <2> QED
    BY <1>5, <2>2, <2>3, Zenon DEF Enter, Elsewhere, TypeInv, TypeOK, Listed, Children,
       childVars, osVars
<1>6. CASE Leave(p) \/ Crash(p)
  <2>1. Die(p) /\ proc[p] \in {"run", "attached"}
    BY <1>6, Zenon DEF Leave, Crash, At, Running
  <2>2. UNCHANGED <<clock, requests, slots, free_proc, lock, scoreboard_i, slow_logged,
                    tracer, master, walk, requested>> /\ faults' \in 0 .. MaxFaults
    BY <1>6 DEF Leave, Crash, envVars, sbVars, childVars, TypeInv, TypeOK
  <2>3. proc[p] # "none" /\ proc[p] # "stopped"
    BY <2>1, Zenon
  <2>4. walk.child \in Pids /\ proc[walk.child] = "stopped" => proc'[walk.child] = "stopped"
    BY <2>1, <2>3, Zenon DEF Die, TypeInv, TypeOK
  <2> QED
    BY <2>1, <2>2, <2>3, <2>4, KillType, Zenon DEF TypeInv, TypeOK, Listed, Children
<1>7. CASE Stop(p)
  BY <1>7 DEF Stop, TypeInv, TypeOK, Listed, Children, envVars, sbVars, childVars
<1> QED
  BY <1>1, <1>2, <1>3, <1>4, <1>5, <1>6, <1>7, Zenon DEF Worker

\* The steps of the master and of the clock.
LEMMA TypeMaster ==
  ASSUME TypeInv, Handler \/ Waits \/ Heartbeat \/ Bury \/ Maintain \/ Tick
  PROVE  TypeInv'
<1> USE ModelAssumption
<1>1. CASE Heartbeat
  <2>1. walk' \in [now : Time, left : SUBSET Pids, child : {"none"} \cup Pids, copy : SlotType]
    <3>1. clock \in Time /\ Children \in SUBSET Pids
      BY DEF TypeInv, TypeOK, Time, Children
    <3> QED
      BY <1>1, <3>1, NoneTyped, Zenon DEF Heartbeat
  <2>2. walk'.left = Children
    BY <1>1, Zenon DEF Heartbeat, NoWalk
  <2> QED
    BY <1>1, <2>1, <2>2, Zenon DEF Heartbeat, TypeInv, TypeOK, Listed, Children, envVars, sbVars,
       childVars, osVars
<1>2. CASE HeartbeatDone
  BY <1>2, NoneTyped, Zenon DEF HeartbeatDone, TypeInv, TypeOK, Listed, Children, NoWalk, envVars,
     sbVars, childVars, osVars
<1>3. ASSUME NEW p \in Pids, CheckBusy(p) PROVE TypeInv'
  <2>1. /\ walk' \in [now : Time, left : SUBSET Pids, child : {"none"} \cup Pids, copy : SlotType]
        /\ walk'.left = walk.left \ {p}
    BY <1>3, Zenon DEF CheckBusy, TypeInv, TypeOK
  <2> QED
    BY <1>3, <2>1, Zenon DEF CheckBusy, TypeInv, TypeOK, Listed, Children, envVars, sbVars,
       childVars, osVars
<1>4. ASSUME NEW p \in Pids, CheckCopy(p) PROVE TypeInv'
  <2> DEFINE copy == slots[scoreboard_i[p]]
             sl == SlowLoggedNow(p, copy)
             due == SlowDue(copy, sl) \/ TerminateDue(copy)
  <2>1. p \in Children
    BY <1>4, Zenon DEF CheckCopy, TypeInv, Listed
  <2>2. copy \in SlotType
    BY <2>1, Zenon DEF Children, TypeInv, TypeOK
  <2>3. sl \in Time
    BY <2>2 DEF SlowLoggedNow, TypeInv, TypeOK, Time
  <2>4. walk' = [walk EXCEPT !.left = @ \ {p}, !.child = IF due THEN p ELSE "none",
                             !.copy = IF due THEN copy ELSE FreeSlot]
    BY <1>4, Zenon DEF CheckCopy
  <2> HIDE DEF due, copy
  <2>5. /\ walk' \in [now : Time, left : SUBSET Pids, child : {"none"} \cup Pids, copy : SlotType]
        /\ walk'.left = walk.left \ {p}
        /\ walk'.child = IF due THEN p ELSE "none"
    BY <2>2, <2>4, NoneTyped, Zenon DEF TypeInv, TypeOK
  <2>6. slow_logged' \in [Pids -> Time]
    <3>1. slow_logged' = [slow_logged EXCEPT ![p] = sl]
      BY <1>4, Zenon DEF CheckCopy, copy
    <3> QED
      BY <2>3, <3>1, Zenon DEF TypeInv, TypeOK
  <2>7. master = "walk" /\ master' = IF due THEN "decide" ELSE "walk"
    BY <1>4, Zenon DEF CheckCopy, due, copy
  <2> QED
    BY <1>4, <2>1, <2>5, <2>6, <2>7, Zenon DEF CheckCopy, TypeInv, TypeOK, Listed, Children, envVars,
       sbVars, osVars
<1>a. Decided => /\ walk' \in [now : Time, left : SUBSET Pids, child : {"none"} \cup Pids,
                               copy : SlotType]
                 /\ walk'.left = walk.left
  BY NoneTyped, Zenon DEF Decided, TypeInv, TypeOK
<1>5. CASE Trace
  <2>1. walk.child \in Children /\ walk.copy.accepted \in Time
    BY <1>5, Zenon DEF Trace, TypeInv, TypeOK, Listed, SlotType
  <2>2. slow_logged' \in [Pids -> Time] /\ tracer' \in [Pids -> BOOLEAN]
    BY <1>5, <2>1, Zenon DEF Trace, TypeInv, TypeOK, Children
  <2>3. /\ proc' \in [Pids -> {"none", "run", "attached", "stopped", "held", "dead"}]
        /\ \A q \in Pids : proc'[q] = "none" <=> proc[q] = "none"
    BY <1>5, <2>1, Zenon DEF Trace, TypeInv, TypeOK, Children
  <2>4. requested' \subseteq Pids \X Time
    BY <1>5, <2>1 DEF Trace, TypeInv, TypeOK, Children
  <2>5. master = "decide" /\ master' = "walk"
    BY <1>5, Zenon DEF Trace, Decided
  <2> QED
    BY <1>5, <1>a, <2>2, <2>3, <2>4, <2>5, Zenon DEF Trace, TypeInv, TypeOK, Listed, Children, envVars, sbVars
<1>6. CASE Terminate
  <2>1. walk.child \in Children /\ Kill(walk.child) /\ proc[walk.child] # "none"
    BY <1>6, Zenon DEF Terminate, TypeInv, TypeOK, Listed, Children
  <2>2. walk.child \in Pids
    BY <2>1, Zenon DEF Children
  <2>3. /\ proc' \in [Pids -> {"none", "run", "attached", "stopped", "held", "dead"}]
        /\ term' \in [Pids -> {"no", "first", "later"}]
        /\ job' \in [Pids -> [doing : Doings, at : Places, now : Time]]
        /\ \A q \in Pids : (proc'[q] = "none" <=> proc[q] = "none")
    BY <2>1, <2>2, KillType, Zenon
  <2>5. master = "decide" /\ master' = "walk"
    BY <1>6, Zenon DEF Terminate, Decided
  <2> QED
    BY <1>6, <1>a, <2>3, <2>5, Zenon DEF Terminate, TypeInv, TypeOK, Listed, Children, envVars,
       sbVars, childVars
<1>7. CASE Bury \/ BuryDone \/ Maintain
  BY <1>7 DEF Bury, BuryDone, Maintain, TypeInv, TypeOK, Listed, Children, envVars, sbVars,
     childVars, osVars
<1>8. ASSUME NEW p \in Pids, BuryDead(p) PROVE TypeInv'
  <2> DEFINE i == scoreboard_i[p]
             si == [scoreboard_i EXCEPT ![p] = -1]
             sl == ProcFree(slots, i)
             prc == [proc EXCEPT ![p] = "none"]
  <2>1. p \in Children /\ i \in Slots
    BY <1>8, Zenon DEF BuryDead, Waitable, Children, TypeInv, TypeOK
  <2>2. /\ si \in [Pids -> {-1} \cup Slots] /\ sl \in [Slots -> SlotType]
        /\ prc \in [Pids -> {"none", "run", "attached", "stopped", "held", "dead"}]
        /\ \A q \in Pids : prc[q] = "none" <=> si[q] = -1
    BY <2>1, NoneTyped DEF ProcFree, TypeInv, TypeOK, Listed
  <2>3. ChildrenMake(si, sl, i, prc) /\ faults \in 0 .. MaxFaults
    BY <1>8, Zenon DEF BuryDead, TypeInv, TypeOK
  <2> HIDE DEF i, si, sl, prc
  <2>4. /\ slots' \in [Slots -> SlotType] /\ free_proc' \in Slots
        /\ scoreboard_i' \in [Pids -> {-1} \cup Slots]
        /\ proc' \in [Pids -> {"none", "run", "attached", "stopped", "held", "dead"}]
        /\ \A q \in Pids : proc'[q] = "none" <=> scoreboard_i'[q] = -1
        /\ faults' \in 0 .. MaxFaults
    BY <2>1, <2>2, <2>3, MakeType, Zenon
  <2>5. /\ slow_logged' \in [Pids -> Time] /\ tracer' \in [Pids -> BOOLEAN]
        /\ lock' \in {"none", "lost"} \cup Pids /\ requested' \subseteq Pids \X Time
    BY <1>8 DEF BuryDead, TypeInv, TypeOK, Time
  <2>6. master = "bury" /\ master' = "bury" /\ walk' = walk
    BY <1>8, Zenon DEF BuryDead
  <2> QED
    BY <1>8, <2>4, <2>5, <2>6 DEF BuryDead, TypeInv, TypeOK, Listed, Children, envVars
<1>9. ASSUME NEW p \in Pids, BuryStopped(p) PROVE TypeInv'
  <2>1. /\ walk' \in [now : Time, left : SUBSET Pids, child : {"none"} \cup Pids, copy : SlotType]
        /\ walk'.left = walk.left /\ walk'.child = p
    BY <1>9, Zenon DEF BuryStopped, TypeInv, TypeOK
  <2> QED
    BY <1>9, <2>1, Zenon DEF BuryStopped, TypeInv, TypeOK, Listed, Children, envVars, sbVars,
       childVars, osVars
<1>10. CASE PhpTrace \/ PhpTraceFails
  <2> DEFINE p == walk.child
  <2>1. p \in Pids /\ proc[p] = "stopped"
    BY <1>10, Zenon DEF PhpTrace, PhpTraceFails, TypeInv, Listed
  <2>2. /\ proc' \in [Pids -> {"none", "run", "attached", "stopped", "held", "dead"}]
        /\ term' \in [Pids -> {"no", "first", "later"}]
        /\ job' \in [Pids -> [doing : Doings, at : Places, now : Time]]
        /\ \A q \in Pids : proc'[q] = "none" <=> proc[q] = "none"
    <3>1. CASE Die(p)
      BY <2>1, <3>1, NoneTyped, Zenon DEF Die, TypeInv, TypeOK
    <3>2. CASE /\ proc' = [proc EXCEPT ![p] = "run"] \/ proc' = [proc EXCEPT ![p] = "held"]
               /\ term' = [term EXCEPT ![p] = "no"] \/ term' = term
               /\ job' = job
      BY <2>1, <3>2, Zenon DEF TypeInv, TypeOK
    <3> QED
      BY <1>10, <3>1, <3>2, Zenon DEF PhpTrace, PhpTraceFails
  <2>3. TraceEnd(p) /\ faults' \in 0 .. MaxFaults
    BY <1>10 DEF PhpTrace, PhpTraceFails, TypeInv, TypeOK
  <2>4. tracer' \in [Pids -> BOOLEAN]
    BY <2>1, <2>3, Zenon DEF TraceEnd, TypeInv, TypeOK
  <2> QED
    BY <2>2, <2>3, <2>4, NoneTyped, Zenon DEF TraceEnd, TypeInv, TypeOK, Listed, Children, NoWalk,
       envVars, sbVars
<1>11. CASE Maintained
  <2>1. /\ ChildrenMake(scoreboard_i, slots, free_proc, proc)
        /\ scoreboard_i \in [Pids -> {-1} \cup Slots] /\ slots \in [Slots -> SlotType]
        /\ free_proc \in Slots /\ faults \in 0 .. MaxFaults
        /\ proc \in [Pids -> {"none", "run", "attached", "stopped", "held", "dead"}]
        /\ \A q \in Pids : proc[q] = "none" <=> scoreboard_i[q] = -1
    BY <1>11, Zenon DEF Maintained, TypeInv, TypeOK, Listed
  <2>2. /\ slots' \in [Slots -> SlotType] /\ free_proc' \in Slots
        /\ scoreboard_i' \in [Pids -> {-1} \cup Slots]
        /\ proc' \in [Pids -> {"none", "run", "attached", "stopped", "held", "dead"}]
        /\ \A q \in Pids : proc'[q] = "none" <=> scoreboard_i'[q] = -1
        /\ faults' \in 0 .. MaxFaults
    BY <2>1, MakeType, Zenon
  <2>3. master = "maintain" /\ master' = "loop" /\ walk' = walk
    BY <1>11, Zenon DEF Maintained
  <2> QED
    BY <1>11, <2>2, <2>3 DEF Maintained, TypeInv, TypeOK, Listed, Children, envVars
<1>12. CASE Tick
  BY <1>12 DEF Tick, TypeInv, TypeOK, Listed, Children, sbVars, childVars, osVars
<1> QED
  BY <1>1, <1>2, <1>3, <1>4, <1>5, <1>6, <1>7, <1>8, <1>9, <1>10, <1>11, <1>12, SMTT(30)
     DEF Handler, Waits

LEMMA TypeNext == TypeInv /\ [Next]_vars => TypeInv'
<1> SUFFICES ASSUME TypeInv, [Next]_vars PROVE TypeInv'
  OBVIOUS
<1>1. CASE UNCHANGED vars
  BY <1>1, Zenon DEF vars, TypeInv, TypeOK, Listed, Children, envVars, sbVars, childVars, osVars
<1> QED
  BY <1>1, TypeWorker, TypeMaster, Zenon DEF Next

LEMMA TypeHolds == Spec => []TypeInv
BY TypeInit, TypeNext, PTL DEF Spec

----------------------------------------------------------------------------
(* Slots and stops *)

TracerSet == \A p \in Pids : proc[p] \in {"attached", "stopped"} => tracer[p]

SlotInv == SlotsExact /\ SlotsClean /\ TracerSet

\* SlotsExact and SlotsClean of given tables.
Exact(si, sl) ==
  /\ \A i \in Slots : sl[i].used <=> \E p \in Pids : si[p] = i
  /\ \A p, q \in Pids : si[p] # -1 /\ si[p] = si[q] => p = q

Clean(si, sl, prc, jb) ==
  \A i \in Slots :
    /\ sl[i].lock # "none" =>
         si[sl[i].lock] = i /\ (prc[sl[i].lock] = "dead" \/ jb[sl[i].lock].at = "write")
    /\ ~sl[i].used => sl[i] = FreeSlot

LEMMA SlotTables ==
  /\ SlotsExact <=> Exact(scoreboard_i, slots)
  /\ SlotsClean <=> Clean(scoreboard_i, slots, proc, job)
  /\ (SlotsExact)' <=> Exact(scoreboard_i', slots')
  /\ (SlotsClean)' <=> Clean(scoreboard_i', slots', proc', job')
BY ConfAssumption DEF SlotsExact, SlotsClean, Exact, Clean, Children, Slots

\* fpm_children_make keeps the tables exact and clean.
LEMMA MakeSlots ==
  ASSUME NEW si \in [Pids -> {-1} \cup Slots], NEW sl \in [Slots -> SlotType],
         NEW hint \in Slots, NEW prc, ChildrenMake(si, sl, hint, prc),
         prc \in [Pids -> {"none", "run", "attached", "stopped", "held", "dead"}],
         \A p \in Pids : prc[p] = "none" <=> si[p] = -1,
         Exact(si, sl), Clean(si, sl, prc, job), job' = job
  PROVE  Exact(scoreboard_i', slots') /\ Clean(scoreboard_i', slots', proc', job')
<1> USE ConfAssumption, ModelAssumption
<1>1. CASE NotForked(si, sl, hint, prc)
  BY <1>1, Zenon DEF NotForked
<1>2. CASE \E i \in AllocSlots(sl, hint) : ForkFailed(i, si, sl, prc)
  <2> PICK i \in AllocSlots(sl, hint) : ForkFailed(i, si, sl, prc)
    BY <1>2, Zenon
  <2>1. i \in Slots /\ ~sl[i].used
    BY Zenon DEF AllocSlots
  <2>2. sl[i] = FreeSlot
    BY <2>1, Zenon DEF Clean
  <2>3. ProcFree(ProcAlloc(sl, i), i) = sl
    BY <2>1, <2>2, Zenon DEF ProcFree, ProcAlloc, SlotType
  <2> QED
    BY <2>3, Zenon DEF ForkFailed
<1>3. CASE \E i \in AllocSlots(sl, hint), q \in Pids :
             prc[q] = "none" /\ Forked(q, i, si, sl, prc)
  <2> PICK i \in AllocSlots(sl, hint), q \in Pids :
             prc[q] = "none" /\ Forked(q, i, si, sl, prc)
    BY <1>3, Zenon
  <2>1. i \in Slots /\ ~sl[i].used /\ i # -1
    BY DEF AllocSlots, Slots
  <2>2. sl[i] = FreeSlot /\ si[q] = -1
    BY <2>1, Zenon DEF Clean
  <2>3. /\ scoreboard_i' = [si EXCEPT ![q] = i] /\ proc' = [prc EXCEPT ![q] = "run"]
        /\ slots' = [sl EXCEPT ![i].used = TRUE]
    BY Zenon DEF Forked, ProcAlloc
  <2>4. \A p \in Pids : si[p] # i
    BY <2>1, Zenon DEF Exact
  <2>5. Exact(scoreboard_i', slots')
    <3>1. \A j \in Slots : slots'[j].used <=> (j = i \/ sl[j].used)
      BY <2>1, <2>3, Zenon DEF SlotType
    <3>2. \A p \in Pids : scoreboard_i'[p] = IF p = q THEN i ELSE si[p]
      BY <2>3, Zenon
    <3>3. \A j \in Slots : slots'[j].used <=> \E p \in Pids : scoreboard_i'[p] = j
      BY <2>2, <2>4, <3>1, <3>2 DEF Exact, Slots
    <3>4. \A p, r \in Pids : scoreboard_i'[p] # -1 /\ scoreboard_i'[p] = scoreboard_i'[r] => p = r
      BY <2>4, <3>2 DEF Exact
    <3> QED
      BY <3>3, <3>4, Zenon DEF Exact
  <2>6. ASSUME NEW j \in Slots, slots'[j].lock # "none"
        PROVE  /\ scoreboard_i'[slots'[j].lock] = j
               /\ proc'[slots'[j].lock] = "dead" \/ job'[slots'[j].lock].at = "write"
    <3>1. j # i /\ slots'[j] = sl[j]
      BY <2>1, <2>2, <2>3, <2>6 DEF FreeSlot, SlotType
    <3>2. si[sl[j].lock] = j /\ sl[j].lock \in Pids
      BY <2>6, <3>1 DEF Clean, SlotType
    <3>3. sl[j].lock # q
      BY <2>2, <3>2 DEF Slots
    <3> QED
      BY <2>3, <2>6, <3>1, <3>2, <3>3 DEF Clean
  <2>7. \A j \in Slots : ~slots'[j].used => slots'[j] = FreeSlot
    BY <2>1, <2>2, <2>3, ZenonT(30) DEF Clean, SlotType, FreeSlot
  <2> QED
    BY <2>5, <2>6, <2>7, Zenon DEF Clean
<1> QED
  BY <1>1, <1>2, <1>3, Zenon DEF ChildrenMake

LEMMA SlotInit == Init => SlotInv
BY ConfAssumption DEF Init, SlotInv, SlotsExact, SlotsClean, TracerSet, Children, FreeSlot, Slots

\* The steps of a worker.
LEMMA SlotWorker ==
  ASSUME TypeInv, SlotInv, NEW p \in Pids,
         Worker(p) \/ Enter(p) \/ Leave(p) \/ Crash(p) \/ Stop(p)
  PROVE  SlotInv'
<1> USE ModelAssumption
<1>0. Running(p) => scoreboard_i[p] \in Slots /\ proc[p] # "dead"
  BY Zenon DEF Running, TypeInv, TypeOK, Listed
<1>t. TypeOK /\ Exact(scoreboard_i, slots) /\ Clean(scoreboard_i, slots, proc, job) /\ TracerSet
  BY SlotTables, Zenon DEF TypeInv, SlotInv
<1>s. SUFFICES Exact(scoreboard_i', slots') /\ Clean(scoreboard_i', slots', proc', job') /\ TracerSet'
  BY SlotTables, Zenon DEF SlotInv
<1>1. CASE LockSlot(p)
  <2> DEFINE i == scoreboard_i[p]
  <2>1. /\ slots' = [slots EXCEPT ![i].lock = p] /\ i \in Slots
        /\ job' = [job EXCEPT ![p].at = "write"]
        /\ UNCHANGED <<scoreboard_i, proc, tracer>>
    BY <1>0, <1>1, Zenon DEF LockSlot, At, Go, Elsewhere, childVars, osVars
  <2>2. slots[i].used
    BY <1>t, <2>1, Zenon DEF Exact
  <2>3. \A j \in Slots : /\ slots'[j].used = slots[j].used
                         /\ slots'[j].lock = IF j = i THEN p ELSE slots[j].lock
                         /\ j # i => slots'[j] = slots[j]
    BY <1>t, <2>1, Zenon DEF TypeOK, SlotType
  <2>4. job'[p].at = "write" /\ \A q \in Pids : q # p => job'[q] = job[q]
    BY <1>t, <2>1 DEF TypeOK
  <2>5. \A j \in Slots : slots[j].lock \in {"none"} \cup Pids
    BY <1>t, Zenon DEF TypeOK, SlotType
  <2> QED
    BY <1>t, <2>1, <2>2, <2>3, <2>4, <2>5 DEF Exact, Clean, TracerSet
<1>2. CASE WriteSlot(p)
  <2> DEFINE i == scoreboard_i[p]
  <2>1. /\ slots' = [slots EXCEPT ![i] = Written(slots[i], job[p])] /\ i \in Slots
        /\ \A q \in Pids : q # p => job'[q] = job[q]
        /\ UNCHANGED <<scoreboard_i, proc, tracer>>
    BY <1>0, <1>t, <1>2, SMTT(30) DEF WriteSlot, At, Elsewhere, childVars, osVars, TypeOK
  <2>2. slots[i].used
    BY <1>t, <2>1, SMTT(30) DEF Exact
  <2>3. \A j \in Slots : /\ slots'[j].used = slots[j].used
                         /\ slots'[j].lock = IF j = i THEN "none" ELSE slots[j].lock
                         /\ j # i => slots'[j] = slots[j]
    BY <1>t, <2>1, Zenon DEF TypeOK, SlotType, Written
  <2>5. \A j \in Slots : slots[j].lock \in {"none"} \cup Pids
    BY <1>t, Zenon DEF TypeOK, SlotType
  <2> QED
    BY <1>t, <2>1, <2>2, <2>3, <2>5 DEF Exact, Clean, TracerSet
<1>3. CASE LockPool(p) \/ UpdatePool(p) \/ Enter(p)
  <2>1. /\ UNCHANGED <<slots, scoreboard_i, proc, tracer>>
        /\ \A q \in Pids : q # p => job'[q] = job[q]
        /\ job[p].at # "write" /\ proc[p] # "dead"
    BY <1>0, <1>t, <1>3, Zenon DEF LockPool, UpdatePool, Enter, At, Go, Elsewhere, childVars, osVars, TypeOK
  <2>5. \A j \in Slots : slots[j].lock \in {"none"} \cup Pids
    BY <1>t, Zenon DEF TypeOK, SlotType
  <2> QED
    BY <1>t, <2>1, <2>5 DEF Exact, Clean, TracerSet
<1>4. CASE Leave(p) \/ Crash(p)
  <2>1. /\ UNCHANGED <<slots, scoreboard_i, tracer>>
        /\ \A q \in Pids : q # p => job'[q] = job[q] /\ proc'[q] = proc[q]
        /\ proc'[p] = "dead"
    BY <1>t, <1>4, SMTT(30) DEF Leave, Crash, Die, sbVars, childVars, TypeOK
  <2>5. \A j \in Slots : slots[j].lock \in {"none"} \cup Pids
    BY <1>t, Zenon DEF TypeOK, SlotType
  <2> QED
    BY <1>t, <2>1, <2>5 DEF Exact, Clean, TracerSet
<1>5. CASE Stop(p)
  <2>1. /\ UNCHANGED <<slots, scoreboard_i, tracer, job>>
        /\ \A q \in Pids : q # p => proc'[q] = proc[q]
        /\ proc[p] = "attached"
    BY <1>t, <1>5, Zenon DEF Stop, sbVars, childVars, TypeOK
  <2>5. \A j \in Slots : slots[j].lock \in {"none"} \cup Pids
    BY <1>t, Zenon DEF TypeOK, SlotType
  <2> QED
    BY <1>t, <2>1, <2>5 DEF Exact, Clean, TracerSet
<1> QED
  BY <1>1, <1>2, <1>3, <1>4, <1>5, Zenon DEF Worker

\* The steps of the master and of the clock.
LEMMA SlotMaster ==
  ASSUME TypeInv, SlotInv, Handler \/ Waits \/ Heartbeat \/ Bury \/ Maintain \/ Tick
  PROVE  SlotInv'
<1> USE ModelAssumption
<1>t. TypeOK /\ Exact(scoreboard_i, slots) /\ Clean(scoreboard_i, slots, proc, job) /\ TracerSet
  BY SlotTables, Zenon DEF TypeInv, SlotInv
<1>s. SUFFICES Exact(scoreboard_i', slots') /\ Clean(scoreboard_i', slots', proc', job') /\ TracerSet'
  BY SlotTables, Zenon DEF SlotInv
<1>l. \A j \in Slots : slots[j].lock \in {"none"} \cup Pids
  BY <1>t, Zenon DEF TypeOK, SlotType
<1>1. CASE UNCHANGED <<slots, scoreboard_i, proc, tracer, job>>
  BY <1>t, <1>1, SMTT(30) DEF TracerSet
<1>2. Heartbeat \/ HeartbeatDone \/ Bury \/ BuryDone \/ Maintain \/ Tick
      \/ (\E p \in Pids : CheckBusy(p) \/ CheckCopy(p) \/ BuryStopped(p))
      => UNCHANGED <<slots, scoreboard_i, proc, tracer, job>>
  BY Zenon DEF Heartbeat, HeartbeatDone, Bury, BuryDone, Maintain, Tick, CheckBusy, CheckCopy,
     BuryStopped, sbVars, childVars, osVars
<1>3. CASE Trace
  <2> DEFINE p == walk.child
  <2>1. /\ p \in Pids /\ UNCHANGED <<slots, scoreboard_i, job>>
        /\ \A q \in Pids : q # p => proc'[q] = proc[q] /\ tracer'[q] = tracer[q]
        /\ tracer'[p] /\ (proc[p] = "dead" => proc'[p] = "dead")
    BY <1>t, <1>3 DEF Trace, sbVars, TypeOK, TypeInv, Listed, Children
  <2> QED
    BY <1>t, <1>l, <2>1 DEF Exact, Clean, TracerSet
<1>4. CASE Terminate
  <2> DEFINE p == walk.child
  <2>1. p \in Pids /\ UNCHANGED <<slots, scoreboard_i, tracer>> /\ Kill(p)
    BY <1>4, Zenon DEF Terminate, sbVars, childVars, TypeInv, Listed, Children
  <2>2. CASE proc[p] = "run"
    <3>1. /\ proc'[p] = "dead"
          /\ \A q \in Pids : q # p => proc'[q] = proc[q] /\ job'[q] = job[q]
      BY <1>t, <2>1, <2>2 DEF Kill, Die, TypeOK
    <3> QED
      BY <1>t, <1>l, <2>1, <3>1 DEF Exact, Clean, TracerSet
  <2>3. CASE proc[p] # "run"
    <3>1. UNCHANGED <<proc, job>>
      BY <2>1, <2>3, Zenon DEF Kill
    <3> QED
      BY <1>1, <2>1, <3>1, Zenon
  <2> QED
    BY <2>2, <2>3, Zenon
<1>5. ASSUME NEW p \in Pids, BuryDead(p)
      PROVE  Exact(scoreboard_i', slots') /\ Clean(scoreboard_i', slots', proc', job') /\ TracerSet'
  <2> DEFINE i == scoreboard_i[p]
             si == [scoreboard_i EXCEPT ![p] = -1]
             sl == ProcFree(slots, i)
             prc == [proc EXCEPT ![p] = "none"]
  <2>1. i \in Slots /\ i # -1 /\ slots[i].used
    BY <1>t, <1>5, Zenon DEF BuryDead, Waitable, Children, TypeOK, Exact
  <2>2. sl = [slots EXCEPT ![i] = FreeSlot]
    BY <2>1, Zenon DEF ProcFree
  <2>3. /\ si \in [Pids -> {-1} \cup Slots] /\ sl \in [Slots -> SlotType]
        /\ prc \in [Pids -> {"none", "run", "attached", "stopped", "held", "dead"}]
        /\ \A q \in Pids : prc[q] = "none" <=> si[q] = -1
    BY <2>1, <2>2, NoneTyped DEF TypeInv, TypeOK, Listed
  <2>4. Exact(si, sl)
    <3>1. \A j \in Slots : sl[j] = IF j = i THEN FreeSlot ELSE slots[j]
      BY <1>t, <2>1, <2>2, Zenon DEF TypeOK
    <3>2. \A q \in Pids : si[q] = IF q = p THEN -1 ELSE scoreboard_i[q]
      BY <1>t, Zenon DEF TypeOK
    <3>3. ~FreeSlot.used /\ \A j \in Slots : j # -1
      BY DEF FreeSlot, Slots
    <3> QED
      BY <1>t, <2>1, <3>1, <3>2, <3>3 DEF Exact
  <2>5. Clean(si, sl, prc, job)
    <3>1. \A j \in Slots : sl[j] = IF j = i THEN FreeSlot ELSE slots[j]
      BY <1>t, <2>1, <2>2, Zenon DEF TypeOK
    <3>2. \A q \in Pids : q # p => si[q] = scoreboard_i[q] /\ prc[q] = proc[q]
      BY <1>t, Zenon DEF TypeOK
    <3>3. FreeSlot.lock = "none" /\ ~FreeSlot.used
      BY Zenon DEF FreeSlot
    <3> QED
      BY <1>t, <1>l, <2>1, <3>1, <3>2, <3>3 DEF Clean
  <2>6. ChildrenMake(si, sl, i, prc) /\ job' = job /\ faults \in 0 .. MaxFaults
    BY <1>5, Zenon DEF BuryDead, TypeInv, TypeOK
  <2>7. tracer' = [tracer EXCEPT ![p] = FALSE] /\ proc[p] = "dead"
    BY <1>5, Zenon DEF BuryDead
  <2>8. \A q \in Pids : q # p => prc[q] = proc[q] /\ tracer'[q] = tracer[q]
    BY <1>t, <2>7, Zenon DEF TypeOK
  <2>9. prc[p] = "none"
    BY <1>t, Zenon DEF TypeOK
  <2> HIDE DEF i, si, sl, prc
  <2>10. Exact(scoreboard_i', slots') /\ Clean(scoreboard_i', slots', proc', job')
    BY <2>1, <2>3, <2>4, <2>5, <2>6, MakeSlots, Zenon
  <2>11. \A q \in Pids : proc'[q] = prc[q] \/ proc'[q] = "run"
    BY <2>3, <2>6, Zenon DEF ChildrenMake, NotForked, ForkFailed, Forked
  <2> QED
    BY <1>t, <2>8, <2>9, <2>10, <2>11, Zenon DEF TracerSet
<1>6. CASE PhpTrace \/ PhpTraceFails
  <2> DEFINE p == walk.child
  <2>1. /\ p \in Pids /\ UNCHANGED <<slots, scoreboard_i>>
        /\ \A q \in Pids : q # p => tracer'[q] = tracer[q]
    BY <1>t, <1>6, Zenon DEF PhpTrace, PhpTraceFails, TraceEnd, sbVars, TypeInv, Listed, TypeOK
  <2>2. proc[p] = "stopped"
    BY <1>6, Zenon DEF PhpTrace, PhpTraceFails, TypeInv, Listed
  <2>3. CASE Die(p)
    <3>1. /\ proc'[p] = "dead"
          /\ \A q \in Pids : q # p => proc'[q] = proc[q] /\ job'[q] = job[q]
      BY <1>t, <2>1, <2>3, Zenon DEF Die, TypeOK
    <3> QED
      BY <1>t, <1>l, <2>1, <3>1 DEF Exact, Clean, TracerSet
  <2>4. CASE /\ proc' = [proc EXCEPT ![p] = "run"] \/ proc' = [proc EXCEPT ![p] = "held"]
             /\ job' = job
    <3>1. /\ proc'[p] \in {"run", "held"}
          /\ \A q \in Pids : q # p => proc'[q] = proc[q]
      BY <1>t, <2>1, <2>4, Zenon DEF TypeOK
    <3> QED
      BY <1>t, <1>l, <2>1, <2>2, <2>4, <3>1 DEF Exact, Clean, TracerSet
  <2> QED
    BY <1>6, <2>3, <2>4, Zenon DEF PhpTrace, PhpTraceFails
<1>7. CASE Maintained
  <2>1. /\ ChildrenMake(scoreboard_i, slots, free_proc, proc) /\ job' = job /\ tracer' = tracer
        /\ scoreboard_i \in [Pids -> {-1} \cup Slots] /\ slots \in [Slots -> SlotType]
        /\ free_proc \in Slots
        /\ proc \in [Pids -> {"none", "run", "attached", "stopped", "held", "dead"}]
        /\ \A q \in Pids : proc[q] = "none" <=> scoreboard_i[q] = -1
    BY <1>7, Zenon DEF Maintained, TypeInv, TypeOK, Listed
  <2>2. Exact(scoreboard_i', slots') /\ Clean(scoreboard_i', slots', proc', job')
    BY <1>t, <2>1, MakeSlots, Zenon
  <2>3. \A q \in Pids : proc'[q] = proc[q] \/ proc'[q] = "run"
    BY <2>1, Zenon DEF ChildrenMake, NotForked, ForkFailed, Forked
  <2> QED
    BY <1>t, <2>1, <2>2, <2>3, Zenon DEF TracerSet
<1> QED
  BY <1>1, <1>2, <1>3, <1>4, <1>5, <1>6, <1>7, Zenon DEF Handler, Waits

LEMMA SlotNext == TypeInv /\ SlotInv /\ [Next]_vars => SlotInv'
<1> SUFFICES ASSUME TypeInv, SlotInv, [Next]_vars PROVE SlotInv'
  OBVIOUS
<1>1. CASE UNCHANGED vars
  BY <1>1, SlotTables, Zenon DEF vars, SlotInv, TracerSet, sbVars, childVars, osVars
<1> QED
  BY <1>1, SlotWorker, SlotMaster, Zenon DEF Next

\* The types of the module's state, for all constants.
THEOREM RequestsTyped == Spec => []TypeOK
BY TypeHolds, PTL DEF TypeInv

\* fpm_scoreboard_proc_alloc and fpm_scoreboard_proc_free, called where
\* fpm_children.c calls them, give every child a slot of its own and lose none.
THEOREM SlotsAreExact == Spec => []SlotsExact
<1>1. SlotInv => SlotsExact
  BY Zenon DEF SlotInv
<1> QED
  BY <1>1, TypeHolds, SlotInit, SlotNext, PTL DEF Spec

\* A worker finds its slot unlocked and empty, whatever became of the one
\* before it.
THEOREM SlotsAreClean == Spec => []SlotsClean
<1>1. SlotInv => SlotsClean
  BY Zenon DEF SlotInv
<1> QED
  BY <1>1, TypeHolds, SlotInit, SlotNext, PTL DEF Spec

\* fpm_children_bury resumes every worker that was stopped for the slow log.
THEOREM StopsAreTraced == Spec => []StopsTraced
<1>1. TypeInv /\ SlotInv => StopsTraced
  BY Zenon DEF TypeInv, Listed, SlotInv, TracerSet, StopsTraced, Children
<1> QED
  BY <1>1, TypeHolds, SlotInit, SlotNext, PTL DEF Spec

----------------------------------------------------------------------------
\* Backtraces.

\* A job that has read the clock for reading_headers and not yet written it.
Stamping(j) == j.doing = "reading" /\ j.at \in {"lock", "write"}

\* A worker's place in its code, its state in the kernel and its slot agree:
\* the slot shows "executing" only until the worker has written the next stage,
\* and an accept time is there once a request is served.
JobOK(pr, j, listed, s) ==
  /\ pr \in {"none", "dead"} => j = NoJob
  /\ Stamping(j) => j.now >= 1
  /\ listed => /\ s.stage = "executing" =>
                    /\ s.accepted >= 1
                    /\ \/ pr = "dead" \/ j.doing = "executing"
                       \/ j.doing \in {"detach", "end"} /\ j.at \in {"lock", "write"}
               /\ j.doing # "accepting" /\ ~Stamping(j) => s.accepted >= 1

Jobs == \A p \in Pids : JobOK(proc[p], job[p], p \in Children, slots[scoreboard_i[p]])

\* A backtrace was asked for at accept time t.  It is remembered in slow_logged,
\* or the child has accepted again since; and accept times grow.
StampOK(t, sl, j, s) ==
  /\ 1 <= t /\ t < clock /\ t <= s.accepted
  /\ sl = t \/ t < s.accepted
  /\ Stamping(j) => t < j.now

Stamps ==
  \A p \in Pids, t \in Time : <<p, t>> \in requested =>
    p \in Children /\ StampOK(t, slow_logged[p], job[p], slots[scoreboard_i[p]])

\* Between the copy and the decision the worker goes on, but its accept time
\* only grows, and no earlier backtrace was for the time in the copy.
DecideOK(c, copy) ==
  /\ 1 <= copy.accepted /\ copy.accepted < clock
  /\ copy.accepted <= slots[scoreboard_i[c]].accepted
  /\ Stamping(job[c]) => copy.accepted < job[c].now
  /\ \A t \in Time : <<c, t>> \in requested => t < copy.accepted

Deciding ==
  /\ master \in {"walk", "decide"} => walk.now <= clock
  /\ master = "decide" /\ SlowDue(walk.copy, slow_logged[walk.child]) =>
       DecideOK(walk.child, walk.copy) /\ walk.copy.accepted < walk.now

TraceInv == Jobs /\ Stamps /\ Deciding

LEMMA TraceInit == Init => TraceInv
BY DEF Init, TraceInv, Jobs, JobOK, Stamping, NoJob, Stamps, Deciding, Children

\* What is true of a stage change in p's own slot is true of TraceInv, since
\* other children have other slots.
LEMMA OneWorker ==
  ASSUME TypeInv, SlotInv, TraceInv, NEW p \in Pids, p \in Children,
         UNCHANGED <<clock, scoreboard_i, slow_logged, requested, master, walk>>,
         \A q \in Pids : q # p => proc'[q] = proc[q] /\ job'[q] = job[q],
         \A i \in Slots : i # scoreboard_i[p] => slots'[i] = slots[i],
         JobOK(proc'[p], job'[p], TRUE, slots'[scoreboard_i[p]]),
         slots'[scoreboard_i[p]].accepted \in {slots[scoreboard_i[p]].accepted}
           \cup IF Stamping(job[p]) THEN {job[p].now} ELSE {},
         Stamping(job'[p]) =>
           \/ job'[p].now = clock
           \/ Stamping(job[p]) /\ job'[p].now = job[p].now
  PROVE  TraceInv'
<1> DEFINE s(q) == slots[scoreboard_i[q]]
<1>t. TypeOK /\ Exact(scoreboard_i, slots)
  BY SlotTables, Zenon DEF TypeInv, SlotInv
<1>1. \A q \in Pids : q # p /\ q \in Children => slots'[scoreboard_i[q]] = s(q)
  BY <1>t, Zenon DEF Exact, Children, TypeOK
<1>n. job[p].now \in Nat /\ clock \in Nat
  BY <1>t DEF TypeOK, Time, Children
<1>2. Jobs'
  <2> SUFFICES ASSUME NEW q \in Pids
               PROVE  JobOK(proc'[q], job'[q], (q \in Children)', slots'[scoreboard_i'[q]])
    BY Zenon DEF Jobs
  <2>1. CASE q = p
    BY <2>1, Zenon DEF Children, JobOK
  <2>2. CASE q # p
    BY <1>1, <2>2 DEF TraceInv, Jobs, JobOK, Children
  <2> QED
    BY <2>1, <2>2, Zenon
<1>3. Stamps'
  <2> SUFFICES ASSUME NEW q \in Pids, NEW t \in Time, <<q, t>> \in requested
               PROVE  q \in Children /\ StampOK(t, slow_logged[q], job[q], s(q))'
    BY Zenon DEF Stamps, Children
  <2>1. q \in Children /\ StampOK(t, slow_logged[q], job[q], s(q))
    BY Zenon DEF TraceInv, Stamps
  <2>2. CASE q = p
    <3>1. s(p).accepted \in Nat /\ t \in Nat
      BY <1>t DEF TypeOK, SlotType, Time, Children
    <3>2. slots'[scoreboard_i'[p]].accepted = s(p).accepted
          \/ (Stamping(job[p]) /\ slots'[scoreboard_i'[p]].accepted = job[p].now)
      OBVIOUS
    <3> QED
      BY <1>n, <2>1, <2>2, <3>1, <3>2 DEF StampOK
  <2>3. CASE q # p
    BY <1>1, <2>1, <2>3, Zenon DEF StampOK
  <2> QED
    BY <2>1, <2>2, <2>3, Zenon
<1>4. Deciding'
  <2>1. master \in {"walk", "decide"} => walk.now <= clock
    BY Zenon DEF TraceInv, Deciding
  <2> SUFFICES ASSUME master = "decide", SlowDue(walk.copy, slow_logged[walk.child])
               PROVE  DecideOK(walk.child, walk.copy)' /\ walk.copy.accepted < walk.now
    BY <2>1, Zenon DEF Deciding, SlowDue, Elapsed
  <2>2. DecideOK(walk.child, walk.copy) /\ walk.copy.accepted < walk.now /\ walk.child \in Children
    BY Zenon DEF TraceInv, Deciding, TypeInv, Listed
  <2>3. CASE walk.child = p
    <3>1. s(p).accepted \in Nat /\ walk.copy.accepted \in Nat
      BY <1>t DEF TypeOK, SlotType, Time, Children
    <3>2. slots'[scoreboard_i'[p]].accepted = s(p).accepted
          \/ (Stamping(job[p]) /\ slots'[scoreboard_i'[p]].accepted = job[p].now)
      OBVIOUS
    <3> QED
      BY <1>n, <2>1, <2>2, <2>3, <3>1, <3>2 DEF DecideOK
  <2>4. CASE walk.child # p
    BY <1>1, <2>2, <2>4, Zenon DEF DecideOK, Children
  <2> QED
    BY <2>3, <2>4, Zenon
<1> QED
  BY <1>2, <1>3, <1>4, Zenon DEF TraceInv

LEMMA TraceWorker ==
  ASSUME TypeInv, SlotInv, TraceInv, NEW p \in Pids,
         Worker(p) \/ Enter(p) \/ Leave(p) \/ Crash(p) \/ Stop(p)
  PROVE  TraceInv'
<1> DEFINE i == scoreboard_i[p]
           j == job[p]
<1>0. p \in Children /\ i \in Slots /\ proc[p] \notin {"none", "dead"}
  BY Zenon DEF Worker, LockSlot, WriteSlot, LockPool, UpdatePool, Enter, Leave, Crash, Stop, At,
     Running, TypeInv, TypeOK, Listed, Children
<1>t. TypeOK /\ JobOK(proc[p], j, TRUE, slots[i])
  BY <1>0, Zenon DEF TypeInv, TraceInv, Jobs
<1>u. UNCHANGED <<clock, scoreboard_i, slow_logged, requested, master, walk>>
  BY Zenon DEF Worker, LockSlot, WriteSlot, LockPool, UpdatePool, Enter, Leave, Crash, Stop,
     Elsewhere, envVars, childVars
<1>1. CASE LockSlot(p)
  <2>1. /\ slots' = [slots EXCEPT ![i].lock = p] /\ j.at = "lock" /\ proc' = proc
        /\ job' = [job EXCEPT ![p].at = "write"]
    BY <1>1, Zenon DEF LockSlot, At, Go, Elsewhere, osVars
  <2>2. /\ slots'[i].accepted = slots[i].accepted /\ slots'[i].stage = slots[i].stage
        /\ \A k \in Slots : k # i => slots'[k] = slots[k]
    BY <1>0, <1>t, <2>1 DEF TypeOK, SlotType
  <2>3. /\ job'[p].doing = j.doing /\ job'[p].at = "write" /\ job'[p].now = j.now
        /\ \A q \in Pids : q # p => proc'[q] = proc[q] /\ job'[q] = job[q]
    BY <1>t, <2>1, Zenon DEF TypeOK
  <2>4. JobOK(proc'[p], job'[p], TRUE, slots'[i])
    BY <1>0, <1>t, <2>1, <2>2, <2>3, Zenon DEF JobOK, Stamping
  <2> QED
    BY <1>0, <1>u, <2>1, <2>2, <2>3, <2>4, OneWorker, Zenon DEF Stamping
<1>2. CASE WriteSlot(p)
  <2>1. /\ slots' = [slots EXCEPT ![i] = Written(slots[i], j)] /\ j.at = "write" /\ proc' = proc
        /\ job' = [job EXCEPT ![p] =
                     [doing |-> j.doing, now |-> 0,
                      at |-> IF j.doing \in {"accepting", "reading"} THEN "plock" ELSE "in"]]
    BY <1>2, Zenon DEF WriteSlot, At, Elsewhere, osVars
  <2>2. /\ slots'[i] = Written(slots[i], j)
        /\ \A k \in Slots : k # i => slots'[k] = slots[k]
    BY <1>0, <1>t, <2>1, Zenon DEF TypeOK
  <2>3. /\ slots'[i].accepted = IF j.doing = "reading" THEN j.now ELSE slots[i].accepted
        /\ slots'[i].stage = WrittenStage(j.doing)
    BY <2>2 DEF Written
  <2>4. /\ job'[p].doing = j.doing /\ job'[p].at \in {"plock", "in"}
        /\ \A q \in Pids : q # p => proc'[q] = proc[q] /\ job'[q] = job[q]
    BY <1>t, <2>1, Zenon DEF TypeOK
  <2>5. ~Stamping(job'[p]) /\ (j.doing = "reading" => Stamping(j))
    BY <2>1, <2>4, Zenon DEF Stamping
  <2>6. JobOK(proc'[p], job'[p], TRUE, slots'[i])
    BY <1>0, <1>t, <2>1, <2>3, <2>4, <2>5 DEF JobOK, Stamping, WrittenStage, TypeOK, Time, SlotType
  <2> QED
    BY <1>0, <1>u, <2>2, <2>3, <2>4, <2>5, <2>6, OneWorker, Zenon
<1>3. CASE LockPool(p) \/ UpdatePool(p)
  <2>1. /\ slots' = slots /\ j.at \in {"plock", "pwrite"} /\ proc' = proc
        /\ job' = [job EXCEPT ![p].at = "pwrite"] \/ job' = [job EXCEPT ![p].at = "in"]
    BY <1>3, Zenon DEF LockPool, UpdatePool, At, Go, Elsewhere, osVars
  <2>2. /\ job'[p].doing = j.doing /\ job'[p].at \in {"pwrite", "in"}
        /\ \A q \in Pids : q # p => proc'[q] = proc[q] /\ job'[q] = job[q]
    BY <1>t, <2>1 DEF TypeOK
  <2>3. JobOK(proc'[p], job'[p], TRUE, slots'[i])
    BY <1>0, <1>t, <2>1, <2>2, Zenon DEF JobOK, Stamping
  <2> QED
    BY <1>0, <1>u, <2>1, <2>2, <2>3, OneWorker, Zenon DEF Stamping
<1>4. CASE Enter(p)
  <2>1. PICK d \in Follows(j.doing) :
          job' = [job EXCEPT ![p] = [doing |-> d, at |-> "lock",
                                     now |-> IF d = "reading" THEN clock ELSE 0]]
    BY <1>4, Zenon DEF Enter
  <2>2. slots' = slots /\ j.at = "in" /\ proc' = proc
    BY <1>4, Zenon DEF Enter, At, Elsewhere, osVars
  <2>3. /\ job'[p].doing = d /\ job'[p].at = "lock" /\ (d = "reading" => job'[p].now = clock)
        /\ \A q \in Pids : q # p => proc'[q] = proc[q] /\ job'[q] = job[q]
    BY <1>t, <2>1, <2>2, Zenon DEF TypeOK
  <2>4. /\ j.doing \in Doings
        /\ d \notin {"accepting", "reading"} => j.doing # "accepting"
        /\ j.doing = "executing" => d \in {"detach", "end"}
    BY <1>t, <2>1, Zenon DEF Follows, TypeOK, Doings
  <2>5. JobOK(proc'[p], job'[p], TRUE, slots'[i])
    BY <1>0, <1>t, <2>2, <2>3, <2>4, SMTT(30) DEF JobOK, Stamping, TypeOK
  <2> QED
    BY <1>0, <1>u, <2>2, <2>3, <2>5, OneWorker, Zenon DEF Stamping
<1>5. CASE Leave(p) \/ Crash(p)
  <2>1. slots' = slots /\ Die(p)
    BY <1>5, Zenon DEF Leave, Crash, sbVars
  <2>2. /\ proc'[p] = "dead" /\ job'[p] = NoJob
        /\ \A q \in Pids : q # p => proc'[q] = proc[q] /\ job'[q] = job[q]
    BY <1>t, <2>1, Zenon DEF Die, TypeOK
  <2>3. NoJob.doing = "accepting"
    BY DEF NoJob
  <2>4. JobOK(proc'[p], job'[p], TRUE, slots'[i]) /\ ~Stamping(job'[p])
    BY <1>t, <2>1, <2>2, <2>3, Zenon DEF JobOK, Stamping
  <2> QED
    BY <1>0, <1>u, <2>1, <2>2, <2>4, OneWorker, Zenon
<1>6. CASE Stop(p)
  <2>1. slots' = slots /\ job' = job /\ proc' = [proc EXCEPT ![p] = "stopped"]
    BY <1>6, Zenon DEF Stop, sbVars
  <2>2. proc'[p] = "stopped" /\ \A q \in Pids : q # p => proc'[q] = proc[q]
    BY <1>t, <2>1, Zenon DEF TypeOK
  <2>3. JobOK(proc'[p], job'[p], TRUE, slots'[i])
    BY <1>0, <1>t, <2>1, <2>2, Zenon DEF JobOK
  <2> QED
    BY <1>0, <1>u, <2>1, <2>2, <2>3, OneWorker, Zenon
<1> QED
  BY <1>1, <1>2, <1>3, <1>4, <1>5, <1>6, Zenon DEF Worker

\* fpm_children_make leaves the slots of other children alone, and a new child
\* starts with an empty one.
LEMMA MakeJobs ==
  ASSUME NEW si \in [Pids -> {-1} \cup Slots], NEW sl \in [Slots -> SlotType],
         NEW hint \in Slots, NEW prc, ChildrenMake(si, sl, hint, prc),
         prc \in [Pids -> {"none", "run", "attached", "stopped", "held", "dead"}],
         \A p \in Pids : prc[p] = "none" <=> si[p] = -1,
         Exact(si, sl), Clean(si, sl, prc, job), job' = job,
         \A p \in Pids : JobOK(prc[p], job[p], si[p] # -1, sl[si[p]])
  PROVE  /\ Jobs'
         /\ \A p \in Pids : si[p] # -1 =>
              scoreboard_i'[p] = si[p] /\ slots'[si[p]] = sl[si[p]]
<1>1. CASE NotForked(si, sl, hint, prc)
  BY <1>1 DEF NotForked, Jobs, Children
<1>2. CASE \E i \in AllocSlots(sl, hint) : ForkFailed(i, si, sl, prc)
  <2> PICK i \in AllocSlots(sl, hint) : ForkFailed(i, si, sl, prc)
    BY <1>2, Zenon
  <2>1. i \in Slots /\ ~sl[i].used
    BY Zenon DEF AllocSlots
  <2>2. sl[i] = FreeSlot
    BY <2>1, Zenon DEF Clean
  <2>3. ProcFree(ProcAlloc(sl, i), i) = sl
    BY <2>1, <2>2, Zenon DEF ProcFree, ProcAlloc, SlotType
  <2> QED
    BY <2>3 DEF ForkFailed, Jobs, Children
<1>3. CASE \E i \in AllocSlots(sl, hint), q \in Pids :
             prc[q] = "none" /\ Forked(q, i, si, sl, prc)
  <2> PICK i \in AllocSlots(sl, hint), q \in Pids :
             prc[q] = "none" /\ Forked(q, i, si, sl, prc)
    BY <1>3, Zenon
  <2>1. i \in Slots /\ ~sl[i].used
    BY Zenon DEF AllocSlots
  <2>2. sl[i] = FreeSlot /\ si[q] = -1
    BY <2>1, Zenon DEF Clean
  <2>3. /\ scoreboard_i' = [si EXCEPT ![q] = i] /\ proc' = [prc EXCEPT ![q] = "run"]
        /\ slots' = [sl EXCEPT ![i].used = TRUE]
    BY Zenon DEF Forked, ProcAlloc
  <2>4. \A p \in Pids : si[p] # i
    BY <2>1, Zenon DEF Exact
  <2>5. \A p \in Pids : p # q => scoreboard_i'[p] = si[p] /\ proc'[p] = prc[p]
    BY <2>3, Zenon
  <2>6. \A p \in Pids : p # q /\ si[p] # -1 => slots'[si[p]] = sl[si[p]]
    BY <2>1, <2>3, <2>4, Zenon
  <2>7. slots'[scoreboard_i'[q]].stage = "zero" /\ proc'[q] = "run"
    BY <2>1, <2>2, <2>3 DEF FreeSlot, SlotType
  <2>8. job'[q] = NoJob
    BY Zenon DEF JobOK
  <2>9. ASSUME NEW p \in Pids
        PROVE  JobOK(proc'[p], job'[p], scoreboard_i'[p] # -1, slots'[scoreboard_i'[p]])
    <3>1. CASE p = q
      BY <2>7, <2>8, <3>1 DEF JobOK, NoJob, Stamping
    <3>2. CASE p # q
      BY <2>5, <2>6, <3>2 DEF JobOK
    <3> QED
      BY <3>1, <3>2, Zenon
  <2>10. Jobs'
    BY <2>9 DEF Jobs, Children
  <2> QED
    BY <2>2, <2>5, <2>6, <2>10, Zenon
<1> QED
  BY <1>1, <1>2, <1>3, Zenon DEF ChildrenMake

\* The copy that fpm_request_check_timed_out decides about.
LEMMA TraceCopy ==
  ASSUME TypeInv, SlotInv, TraceInv, NEW p \in Pids, CheckCopy(p)
  PROVE  TraceInv'
<1> DEFINE copy == slots[scoreboard_i[p]]
           sl == SlowLoggedNow(p, copy)
           due == SlowDue(copy, sl) \/ TerminateDue(copy)
<1>1. p \in Children /\ copy \in SlotType /\ TypeOK
  BY Zenon DEF CheckCopy, TypeInv, TypeOK, Listed, Children
<1>2. /\ slow_logged' = [slow_logged EXCEPT ![p] = sl]
      /\ master = "walk" /\ master' = IF due THEN "decide" ELSE "walk"
      /\ UNCHANGED <<clock, slots, scoreboard_i, proc, job, requested>>
      /\ walk' = [walk EXCEPT !.left = @ \ {p}, !.child = IF due THEN p ELSE "none",
                              !.copy = IF due THEN copy ELSE FreeSlot]
  BY Zenon DEF CheckCopy, envVars, sbVars, osVars
<1>3. /\ walk'.now = walk.now /\ (due => walk'.child = p /\ walk'.copy = copy)
      /\ walk.now <= clock /\ walk.now \in Nat /\ clock \in Nat /\ copy.accepted \in Nat
  BY <1>1, <1>2 DEF TypeOK, TraceInv, Deciding, Time, SlotType
<1>4. slow_logged'[p] = sl /\ \A q \in Pids : q # p => slow_logged'[q] = slow_logged[q]
  BY <1>1, <1>2, Zenon DEF TypeOK
<1>5. Jobs'
  BY <1>2, Zenon DEF TraceInv, Jobs, Children
<1>6. \A t \in Time : <<p, t>> \in requested =>
        StampOK(t, slow_logged[p], job[p], copy) /\ (sl = t \/ t < copy.accepted)
  BY <1>1, <1>3 DEF TraceInv, Stamps, StampOK, SlowLoggedNow, Time
<1>7. Stamps'
  <2> SUFFICES ASSUME NEW q \in Pids, NEW t \in Time, <<q, t>> \in requested
               PROVE  q \in Children
                      /\ StampOK(t, slow_logged'[q], job[q], slots[scoreboard_i[q]])
    BY <1>2, Zenon DEF Stamps, Children, StampOK
  <2>1. CASE q = p
    BY <1>1, <1>4, <1>6, <2>1, Zenon DEF StampOK
  <2>2. CASE q # p
    BY <1>4, <2>2, Zenon DEF TraceInv, Stamps
  <2> QED
    BY <2>1, <2>2, Zenon
<1>8. CASE ~SlowDue(copy, sl)
  <2>1. ~(master = "decide" /\ SlowDue(walk.copy, slow_logged[walk.child]))'
    BY <1>2, <1>3, <1>4, <1>8, Zenon DEF SlowDue, Elapsed
  <2> QED
    BY <1>2, <1>3, <1>5, <1>7, <2>1, Zenon DEF TraceInv, Deciding
<1>9. CASE SlowDue(copy, sl)
  <2>1. sl = 0 /\ copy.stage = "executing" /\ copy.accepted < walk.now
    BY <1>3, <1>9, ConfAssumption DEF SlowDue, Elapsed
  <2>2. JobOK(proc[p], job[p], TRUE, copy)
    BY <1>1, Zenon DEF TraceInv, Jobs
  <2>3. copy.accepted >= 1 /\ ~Stamping(job[p])
    BY <2>1, <2>2 DEF JobOK, Stamping, NoJob
  <2>4. \A t \in Time : <<p, t>> \in requested => t < copy.accepted
    BY <1>6, <2>1 DEF StampOK
  <2>5. DecideOK(p, copy)
    BY <1>3, <2>1, <2>3, <2>4 DEF DecideOK
  <2>6. DecideOK(walk.child, walk.copy)'
    BY <1>2, <1>3, <1>9, <2>5 DEF DecideOK
  <2> QED
    BY <1>2, <1>3, <1>5, <1>7, <1>9, <2>1, <2>6, Zenon DEF TraceInv, Deciding
<1> QED
  BY <1>8, <1>9, Zenon

\* Asking for a backtrace.
LEMMA TraceAsk ==
  ASSUME TypeInv, SlotInv, TraceInv, Trace
  PROVE  /\ TraceInv'
         /\ <<walk.child, walk.copy.accepted>> \notin requested
<1> DEFINE p == walk.child
           a == walk.copy.accepted
<1>1. p \in Children /\ p \in Pids /\ a \in Time /\ TypeOK
  BY Zenon DEF Trace, TypeInv, TypeOK, Listed, Children, SlotType
<1>2. /\ DecideOK(p, walk.copy) /\ a < walk.now /\ walk.now <= clock
  BY Zenon DEF Trace, TraceInv, Deciding
<1>3. <<p, a>> \notin requested
  BY <1>1, <1>2 DEF DecideOK, Time
<1>4. /\ UNCHANGED <<clock, slots, scoreboard_i, job>> /\ master' = "walk"
      /\ walk'.now = walk.now
      /\ slow_logged' = [slow_logged EXCEPT ![p] = a]
      /\ requested' = requested \cup {<<p, a>>}
      /\ proc' = [proc EXCEPT ![p] = IF @ = "run" THEN "attached" ELSE @]
  BY <1>1, Zenon DEF Trace, Decided, envVars, sbVars, TypeOK
<1>5. /\ slow_logged'[p] = a
      /\ \A q \in Pids : q # p => slow_logged'[q] = slow_logged[q]
      /\ \A q \in Pids : proc'[q] \in {"none", "dead"} <=> proc[q] \in {"none", "dead"}
      /\ \A q \in Pids : proc'[q] = "dead" <=> proc[q] = "dead"
  BY <1>1, <1>4, Zenon DEF TypeOK
<1>6. Jobs'
  BY <1>4, <1>5, Zenon DEF TraceInv, Jobs, JobOK, Children
<1>7. Stamps'
  <2> SUFFICES ASSUME NEW q \in Pids, NEW t \in Time, <<q, t>> \in requested'
               PROVE  q \in Children
                      /\ StampOK(t, slow_logged'[q], job[q], slots[scoreboard_i[q]])
    BY <1>4, Zenon DEF Stamps, Children, StampOK
  <2>1. CASE q = p /\ t = a
    BY <1>1, <1>2, <1>5, <2>1, Zenon DEF DecideOK, StampOK
  <2>2. CASE q = p /\ t # a
    <3>1. <<p, t>> \in requested
      BY <1>4, <2>2, Zenon
    <3>2. StampOK(t, slow_logged[p], job[p], slots[scoreboard_i[p]]) /\ t < a
      BY <1>1, <1>2, <3>1, Zenon DEF TraceInv, Stamps, DecideOK
    <3>3. slots[scoreboard_i[p]].accepted \in Nat /\ t \in Nat /\ a \in Nat
      BY <1>1 DEF TypeOK, SlotType, Time, Children
    <3> QED
      BY <1>1, <1>2, <2>2, <3>2, <3>3 DEF StampOK, DecideOK
  <2>3. CASE q # p
    BY <1>4, <1>5, <2>3, Zenon DEF TraceInv, Stamps
  <2> QED
    BY <2>1, <2>2, <2>3, Zenon
<1>8. Deciding'
  BY <1>2, <1>4, Zenon DEF Deciding
<1> QED
  BY <1>3, <1>6, <1>7, <1>8, Zenon DEF TraceInv

\* A step that changes neither slots nor times, kills at most, and is not about
\* to decide.
LEMMA TraceQuiet ==
  ASSUME TypeInv, TraceInv,
         UNCHANGED <<clock, slots, scoreboard_i, slow_logged, requested>>,
         \A q \in Pids : \/ /\ job'[q] = job[q]
                            /\ proc'[q] \in {"none", "dead"} <=> proc[q] \in {"none", "dead"}
                            /\ proc'[q] = "dead" <=> proc[q] = "dead"
                         \/ proc'[q] = "dead" /\ job'[q] = NoJob,
         master' # "decide", master' = "walk" => walk'.now <= clock
  PROVE  TraceInv'
<1>1. Jobs'
  BY SMTT(30) DEF TraceInv, Jobs, JobOK, Children, Stamping, NoJob
<1>2. Stamps'
  BY DEF TraceInv, Stamps, StampOK, Children, Stamping, NoJob
<1>3. Deciding'
  BY Zenon DEF Deciding
<1> QED
  BY <1>1, <1>2, <1>3, Zenon DEF TraceInv

LEMMA TraceMaster ==
  ASSUME TypeInv, SlotInv, TraceInv, Handler \/ Waits \/ Heartbeat \/ Bury \/ Maintain \/ Tick
  PROVE  TraceInv'
<1>t. TypeOK
  BY Zenon DEF TypeInv
<1>1. CASE Heartbeat \/ HeartbeatDone \/ Bury \/ BuryDone \/ Maintain
           \/ (\E p \in Pids : CheckBusy(p) \/ BuryStopped(p))
  <2>1. /\ UNCHANGED <<clock, slots, scoreboard_i, slow_logged, requested, job, proc>>
        /\ master' # "decide"
    BY <1>1, Zenon DEF Heartbeat, HeartbeatDone, Bury, BuryDone, Maintain, CheckBusy, BuryStopped,
       envVars, sbVars, childVars, osVars
  <2>2. master' = "walk" => walk'.now <= clock
    <3>1. CASE Heartbeat
      BY <1>t, <3>1 DEF Heartbeat, NoWalk, TypeOK
    <3>2. CASE \E p \in Pids : CheckBusy(p)
      BY <1>t, <3>2, Zenon DEF CheckBusy, TraceInv, Deciding, TypeOK
    <3> QED
      BY <1>1, <3>1, <3>2, Zenon DEF HeartbeatDone, Bury, BuryDone, Maintain, BuryStopped
  <2> QED
    BY <2>1, <2>2, TraceQuiet, Zenon
<1>2. CASE Terminate
  <2> DEFINE p == walk.child
  <2>1. /\ p \in Pids /\ Kill(p) /\ master' = "walk" /\ walk'.now = walk.now /\ walk.now <= clock
        /\ UNCHANGED <<clock, slots, scoreboard_i, slow_logged, requested>>
    BY <1>2, <1>t, Zenon DEF Terminate, Decided, TypeInv, Listed, Children, TraceInv, Deciding, envVars,
       sbVars, childVars, TypeOK
  <2>2. \A q \in Pids : (job'[q] = job[q] /\ proc'[q] = proc[q])
                        \/ (proc'[q] = "dead" /\ job'[q] = NoJob)
    BY <1>t, <2>1 DEF Kill, Die, TypeOK
  <2> QED
    BY <2>1, <2>2, TraceQuiet, Zenon
<1>3. CASE PhpTrace \/ PhpTraceFails
  <2> DEFINE p == walk.child
  <2>1. /\ p \in Pids /\ proc[p] = "stopped" /\ master' = "bury"
        /\ UNCHANGED <<clock, slots, scoreboard_i, slow_logged, requested>>
    BY <1>3, Zenon DEF PhpTrace, PhpTraceFails, TraceEnd, TypeInv, Listed, envVars, sbVars
  <2>2. \/ Die(p)
        \/ /\ proc' = [proc EXCEPT ![p] = "run"] \/ proc' = [proc EXCEPT ![p] = "held"]
           /\ job' = job
    BY <1>3, Zenon DEF PhpTrace, PhpTraceFails
  <2>3. \A q \in Pids : \/ /\ job'[q] = job[q]
                           /\ proc'[q] \in {"none", "dead"} <=> proc[q] \in {"none", "dead"}
                           /\ proc'[q] = "dead" <=> proc[q] = "dead"
                        \/ proc'[q] = "dead" /\ job'[q] = NoJob
    BY <1>t, <2>1, <2>2, SMTT(30) DEF Die, TypeOK
  <2> QED
    BY <2>1, <2>3, TraceQuiet, Zenon
<1>4. ASSUME NEW p \in Pids, BuryDead(p) PROVE TraceInv'
  <2> DEFINE i == scoreboard_i[p]
             si == [scoreboard_i EXCEPT ![p] = -1]
             sl == ProcFree(slots, i)
             prc == [proc EXCEPT ![p] = "none"]
  <2>0. Exact(scoreboard_i, slots) /\ Clean(scoreboard_i, slots, proc, job)
    BY SlotTables, SMTT(30) DEF SlotInv
  <2>1. i \in Slots /\ i # -1 /\ slots[i].used /\ proc[p] = "dead"
    BY <1>t, <1>4, <2>0, Zenon DEF BuryDead, Waitable, Children, TypeOK, Exact
  <2>2. sl = [slots EXCEPT ![i] = FreeSlot]
    BY <2>1, Zenon DEF ProcFree
  <2>3. /\ \A j \in Slots : sl[j] = IF j = i THEN FreeSlot ELSE slots[j]
        /\ \A q \in Pids : si[q] = IF q = p THEN -1 ELSE scoreboard_i[q]
        /\ \A q \in Pids : prc[q] = IF q = p THEN "none" ELSE proc[q]
    BY <1>t, <2>1, <2>2, Zenon DEF TypeOK
  <2>4. /\ si \in [Pids -> {-1} \cup Slots] /\ sl \in [Slots -> SlotType]
        /\ prc \in [Pids -> {"none", "run", "attached", "stopped", "held", "dead"}]
        /\ \A q \in Pids : prc[q] = "none" <=> si[q] = -1
    BY <2>1, <2>2, NoneTyped DEF TypeInv, TypeOK, Listed
  <2>5. ~FreeSlot.used /\ FreeSlot.lock = "none" /\ \A j \in Slots : j # -1
    BY DEF FreeSlot, Slots
  <2>6. /\ ChildrenMake(si, sl, i, prc) /\ job' = job /\ master' = "bury" /\ clock' = clock
        /\ slow_logged' = [slow_logged EXCEPT ![p] = 0]
        /\ requested' = {r \in requested : r[1] # p}
    BY <1>4, Zenon DEF BuryDead, envVars
  <2>7. \A q \in Pids : JobOK(prc[q], job[q], si[q] # -1, sl[si[q]])
    <3> SUFFICES ASSUME NEW q \in Pids PROVE JobOK(prc[q], job[q], si[q] # -1, sl[si[q]])
      OBVIOUS
    <3>1. JobOK(proc[q], job[q], q \in Children, slots[scoreboard_i[q]])
      BY Zenon DEF TraceInv, Jobs
    <3>2. CASE q = p
      BY <2>1, <2>3, <3>1, <3>2, SMTT(30) DEF JobOK
    <3>3. CASE q # p
      <4>1. si[q] = scoreboard_i[q] /\ prc[q] = proc[q] /\ (q \in Children <=> si[q] # -1)
        BY <2>3, <3>3, Zenon DEF Children
      <4>2. si[q] # -1 => sl[si[q]] = slots[scoreboard_i[q]]
        BY <1>t, <2>0, <2>1, <2>3, <3>3, <4>1, SMTT(30) DEF Exact, TypeOK
      <4> HIDE DEF si, sl, prc
      <4> QED
        BY <3>1, <4>1, <4>2, Zenon DEF JobOK
    <3> QED
      BY <3>2, <3>3, Zenon
  <2>8. Exact(si, sl) /\ Clean(si, sl, prc, job)
    <3>1. \A j \in Slots : slots[j].lock \in {"none"} \cup Pids
      BY <1>t, SMTT(30) DEF TypeOK, SlotType
    <3> HIDE DEF si, sl, prc
    <3> QED
      BY <2>0, <2>1, <2>3, <2>5, <3>1 DEF Exact, Clean
  <2>9. \A q \in Pids : q # p => /\ si[q] = scoreboard_i[q] /\ slow_logged'[q] = slow_logged[q]
                                 /\ si[q] # -1 => sl[si[q]] = slots[scoreboard_i[q]]
    BY <1>t, <2>0, <2>1, <2>3, <2>6, SMTT(30) DEF Exact, TypeOK
  <2> HIDE DEF i, si, sl, prc
  <2>10. /\ Jobs'
         /\ \A q \in Pids : si[q] # -1 => scoreboard_i'[q] = si[q] /\ slots'[si[q]] = sl[si[q]]
    BY <2>1, <2>4, <2>6, <2>7, <2>8, MakeJobs, SMTT(30)
  <2>11. Stamps'
    <3> SUFFICES ASSUME NEW q \in Pids, NEW t \in Time, <<q, t>> \in requested'
                 PROVE  /\ scoreboard_i'[q] # -1
                        /\ StampOK(t, slow_logged[q], job[q], slots[scoreboard_i[q]])'
      BY Zenon DEF Stamps, Children
    <3>1. <<q, t>> \in requested /\ q # p
      BY <2>6, Zenon
    <3>2. q \in Children /\ StampOK(t, slow_logged[q], job[q], slots[scoreboard_i[q]])
      BY <3>1, Zenon DEF TraceInv, Stamps
    <3>3. scoreboard_i'[q] = scoreboard_i[q] /\ slots'[scoreboard_i[q]] = slots[scoreboard_i[q]]
      BY <2>9, <2>10, <3>1, <3>2, SMTT(30) DEF Children
    <3> QED
      BY <2>6, <2>9, <3>1, <3>2, <3>3, Zenon DEF StampOK, Children
  <2> QED
    BY <2>6, <2>10, <2>11, Zenon DEF TraceInv, Deciding
<1>5. CASE Maintained
  <2>1. /\ ChildrenMake(scoreboard_i, slots, free_proc, proc)
        /\ UNCHANGED <<job, clock, requested, slow_logged>> /\ master' = "loop"
        /\ scoreboard_i \in [Pids -> {-1} \cup Slots] /\ slots \in [Slots -> SlotType]
        /\ free_proc \in Slots
        /\ proc \in [Pids -> {"none", "run", "attached", "stopped", "held", "dead"}]
        /\ \A q \in Pids : proc[q] = "none" <=> scoreboard_i[q] = -1
    BY <1>5, Zenon DEF Maintained, TypeInv, TypeOK, Listed, envVars
  <2>2. Exact(scoreboard_i, slots) /\ Clean(scoreboard_i, slots, proc, job)
    BY SlotTables, Zenon DEF SlotInv
  <2>3. \A q \in Pids : JobOK(proc[q], job[q], scoreboard_i[q] # -1, slots[scoreboard_i[q]])
    BY SMTT(30) DEF TraceInv, Jobs, Children
  <2>4. /\ Jobs'
        /\ \A q \in Pids : scoreboard_i[q] # -1 =>
             scoreboard_i'[q] = scoreboard_i[q] /\ slots'[scoreboard_i[q]] = slots[scoreboard_i[q]]
    BY <2>1, <2>2, <2>3, MakeJobs, Zenon
  <2>5. Stamps'
    BY <2>1, <2>4, Zenon DEF TraceInv, Stamps, StampOK, Children
  <2> QED
    BY <2>1, <2>4, <2>5, Zenon DEF TraceInv, Deciding
<1>6. CASE Tick
  <2>1. /\ clock' = clock + 1 /\ clock \in Nat
        /\ UNCHANGED <<slots, scoreboard_i, slow_logged, requested, proc, job, master, walk>>
    BY <1>6, <1>t DEF Tick, sbVars, childVars, osVars, TypeOK
  <2>2. Jobs'
    BY <2>1, Zenon DEF TraceInv, Jobs, Children
  <2>3. Stamps'
    BY <2>1 DEF TraceInv, Stamps, StampOK, Children, Time
  <2>4. walk.now \in Nat /\ walk.copy.accepted \in Nat
    BY <1>t DEF TypeOK, Time, SlotType
  <2>5. Deciding'
    BY <2>1, <2>4 DEF TraceInv, Deciding, DecideOK, SlowDue, Elapsed
  <2> QED
    BY <2>2, <2>3, <2>5, Zenon DEF TraceInv
<1> QED
  BY <1>1, <1>2, <1>3, <1>4, <1>5, <1>6, TraceCopy, TraceAsk, Zenon DEF Handler, Waits

LEMMA TraceNext == TypeInv /\ SlotInv /\ TraceInv /\ [Next]_vars => TraceInv'
<1> SUFFICES ASSUME TypeInv, SlotInv, TraceInv, [Next]_vars PROVE TraceInv'
  BY SMTT(30)
<1>1. CASE UNCHANGED vars
  BY <1>1, Zenon DEF vars, TraceInv, Jobs, Stamps, StampOK, Deciding, DecideOK, SlowDue, Elapsed,
     Children, envVars, sbVars, childVars, osVars
<1> QED
  BY <1>1, TraceWorker, TraceMaster, Zenon DEF Next

\* fpm_request_check_timed_out asks for at most one backtrace per accepted
\* connection, although it decides about a copy of the slot.
THEOREM BacktracesAreOnce == Spec => BacktraceOnce
<1>1. TypeInv /\ SlotInv /\ TraceInv /\ [Next]_vars =>
        [\A p \in Pids, t \in Time :
           Trace /\ p = walk.child /\ t = walk.copy.accepted => <<p, t>> \notin requested]_vars
  BY TraceAsk, Zenon
<1> QED
  BY <1>1, TypeHolds, SlotInit, SlotNext, TraceInit, TraceNext, PTL DEF Spec, BacktraceOnce

============================================================================
