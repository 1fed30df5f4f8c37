---------------------------- MODULE FpmRequests ----------------------------
(* The scoreboard of one pool and what the master does with it: slots and     *)
(* their allocation, the two kinds of spin lock, the request stages that the  *)
(* workers write, request_terminate_timeout, and the slow log, which stops a  *)
(* worker with ptrace to dump its backtrace.  When the master forks, and how  *)
(* it stops, is in FpmMaster; here a child is forked whenever there is room.  *)
EXTENDS Integers, FiniteSets, TLC

CONSTANTS
  Pids,             \* process ids of workers
  MaxChildren,      \* pm.max_children, and nprocs of the scoreboard
  SlowlogTimeout,   \* request_slowlog_timeout in ticks of the clock; 0 is off
  TerminateTimeout, \* request_terminate_timeout in ticks; 0 is off
  KeepAlive,        \* whether clients send several requests per connection
  MaxClock,         \* bound: last value of the clock
  MaxRequests,      \* bound: requests that clients send
  MaxFaults         \* bound: crashes of workers, failed forks, failures to
                    \*   open the slow log

ASSUME ConfAssumption ==
  /\ MaxChildren \in Nat \ {0}
  /\ SlowlogTimeout \in Nat /\ TerminateTimeout \in Nat
  /\ KeepAlive \in BOOLEAN

ASSUME ModelAssumption ==
  /\ IsFiniteSet(Pids)
  /\ MaxClock \in Nat \ {0} /\ MaxRequests \in Nat /\ MaxFaults \in Nat
  /\ {"none", "lost"} \cap Pids = {}

VARIABLES
  clock,        \* fpm_clock_get, in seconds; the machine was booted before 1
  slots,        \* scoreboard->procs
  free_proc,    \* scoreboard->free_proc
  lock,         \* scoreboard->lock: "none", the holder, or "lost" with a reaped one
  scoreboard_i, \* the slot of each listed child, -1 if there is no such child
  slow_logged,  \* the field of each child
  tracer,       \* the field of each child: whether it is fpm_php_trace
  proc,         \* each process as the kernel has it
  term,         \* a SIGTERM at a traced process: before its stop, or after
  job,          \* where each worker is in its code
  master,       \* where the master is
  walk,         \* locals of fpm_pctl_check_request_timeout and its callees
  requested,    \* history: the backtraces asked for, as child and accept time
  requests,     \* how many requests may still come
  faults        \* how many faults may still happen

sbVars == <<slots, free_proc, lock>>
childVars == <<scoreboard_i, slow_logged, tracer>>
osVars == <<proc, term>>
envVars == <<clock, requests>>
vars == <<envVars, sbVars, childVars, osVars, job, master, walk, requested, faults>>

Slots == 0 .. MaxChildren - 1

Time == 0 .. MaxClock

Stages == {"zero", "accepting", "reading", "info", "executing", "finished"}

\* What a worker is entering or doing.  The last three all write FINISHED:
\* fpm_request_end, the end of a connection, and fastcgi_finish_request().
Doings == {"accepting", "reading", "info", "executing", "end", "close", "detach"}

Places == {"lock", "write", "plock", "pwrite", "in"}

Children == {p \in Pids : scoreboard_i[p] # -1}

\* A process that executes its own code.
Running(p) == proc[p] \in {"run", "attached"}

\* A slot as fpm_scoreboard_proc_free leaves it.
FreeSlot == [used |-> FALSE, lock |-> "none", stage |-> "zero", accepted |-> 0]

NoJob == [doing |-> "accepting", at |-> "lock", now |-> 0]

NoWalk == [now |-> 0, left |-> {}, child |-> "none", copy |-> FreeSlot]

SlotType == [used : BOOLEAN, lock : {"none"} \cup Pids, stage : Stages, accepted : Time]

TypeOK ==
  /\ clock \in 1 .. MaxClock
  /\ slots \in [Slots -> SlotType]
  /\ free_proc \in Slots
  /\ lock \in {"none", "lost"} \cup Pids
  /\ scoreboard_i \in [Pids -> {-1} \cup Slots]
  /\ slow_logged \in [Pids -> Time]
  /\ tracer \in [Pids -> BOOLEAN]
  /\ proc \in [Pids -> {"none", "run", "attached", "stopped", "held", "dead"}]
  /\ term \in [Pids -> {"no", "first", "later"}]
  /\ job \in [Pids -> [doing : Doings, at : Places, now : Time]]
  /\ master \in {"loop", "walk", "decide", "bury", "trace", "maintain"}
  /\ walk \in [now : Time, left : SUBSET Pids, child : {"none"} \cup Pids, copy : SlotType]
  /\ requested \subseteq Pids \X Time
  /\ requests \in 0 .. MaxRequests
  /\ faults \in 0 .. MaxFaults

----------------------------------------------------------------------------
(* Slots *)

\* Where fpm_scoreboard_proc_alloc finds a slot: at the hint, or by a search.
\* The code takes the first one it finds; any free one will do here.
AllocSlots(sl, hint) ==
  IF ~sl[hint].used THEN {hint} ELSE {i \in Slots : ~sl[i].used}

\* Mutant: the hint does not wrap around.
MutNextHint(i) == i + 1

NextHint(i) == IF i + 1 >= MaxChildren THEN 0 ELSE i + 1

ProcAlloc(sl, i) == [sl EXCEPT ![i].used = TRUE]

\* Mutant: everything is cleared but the lock.
MutProcFree(sl, i) ==
  IF sl[i].used THEN [sl EXCEPT ![i] = [FreeSlot EXCEPT !.lock = sl[i].lock]] ELSE sl

ProcFree(sl, i) == IF sl[i].used THEN [sl EXCEPT ![i] = FreeSlot] ELSE sl

----------------------------------------------------------------------------
(* Forking, at the end of fpm_children_bury and of the idle maintenance.      *)
(* fpm_resources_prepare takes a slot before fork(); a failed fork gives it   *)
(* back.  Whether there is a fork at all is decided in FpmMaster.             *)

Forked(q, i, si, sl, prc) ==
  /\ slots' = ProcAlloc(sl, i)
  /\ free_proc' = NextHint(i)
  /\ scoreboard_i' = [si EXCEPT ![q] = i]
  /\ proc' = [prc EXCEPT ![q] = "run"]
  /\ UNCHANGED faults

\* Mutant: a failed fork keeps the slot.
MutForkFailed(i, si, sl, prc) ==
  /\ faults > 0 /\ faults' = faults - 1
  /\ slots' = ProcAlloc(sl, i)
  /\ free_proc' = NextHint(i)
  /\ scoreboard_i' = si /\ proc' = prc

ForkFailed(i, si, sl, prc) ==
  /\ faults > 0 /\ faults' = faults - 1
  /\ slots' = ProcFree(ProcAlloc(sl, i), i)
  /\ free_proc' = i
  /\ scoreboard_i' = si /\ proc' = prc

NotForked(si, sl, hint, prc) ==
  /\ slots' = sl /\ free_proc' = hint /\ scoreboard_i' = si /\ proc' = prc
  /\ UNCHANGED faults

ChildrenMake(si, sl, hint, prc) ==
  \/ NotForked(si, sl, hint, prc)
  \/ /\ Cardinality({p \in Pids : si[p] # -1}) < MaxChildren
     /\ \E i \in AllocSlots(sl, hint) :
          \/ ForkFailed(i, si, sl, prc)
          \/ \E q \in Pids : prc[q] = "none" /\ Forked(q, i, si, sl, prc)

----------------------------------------------------------------------------
(* A worker.  It enters a stage by reading the clock, taking the lock of its  *)
(* slot, writing and releasing it; accepting and reading_headers go on to     *)
(* fpm_scoreboard_update, which takes the lock of the pool.                   *)

At(p, place) == Running(p) /\ job[p].at = place

Go(p, place) == job' = [job EXCEPT ![p].at = place]

Elsewhere == UNCHANGED <<clock, free_proc, childVars, osVars, master, walk, requested, faults>>

WrittenStage(d) == IF d \in {"end", "close", "detach"} THEN "finished" ELSE d

\* A slot as the stage function of job j leaves it, unlocked.
Written(slot, j) ==
  [used |-> slot.used, lock |-> "none", stage |-> WrittenStage(j.doing),
   accepted |-> IF j.doing = "reading" THEN j.now ELSE slot.accepted]

LockSlot(p) ==
  /\ At(p, "lock")
  /\ slots[scoreboard_i[p]].lock = "none"
  /\ slots' = [slots EXCEPT ![scoreboard_i[p]].lock = p]
  /\ Go(p, "write")
  /\ UNCHANGED <<lock, requests>> /\ Elsewhere

WriteSlot(p) ==
  LET d == job[p].doing
  IN  /\ At(p, "write")
      /\ slots' = [slots EXCEPT ![scoreboard_i[p]] = Written(@, job[p])]
      /\ job' = [job EXCEPT ![p] =
                   [doing |-> d, now |-> 0,
                    at |-> IF d \in {"accepting", "reading"} THEN "plock" ELSE "in"]]
      /\ UNCHANGED <<lock, requests>> /\ Elsewhere

LockPool(p) ==
  /\ At(p, "plock")
  /\ lock = "none" /\ lock' = p
  /\ Go(p, "pwrite")
  /\ UNCHANGED <<slots, requests>> /\ Elsewhere

UpdatePool(p) ==
  /\ At(p, "pwrite")
  /\ lock' = "none"
  /\ Go(p, "in")
  /\ UNCHANGED <<slots, requests>> /\ Elsewhere

\* The stages in the order of fcgi_accept_request and of the loop in main().
\* From "end" the connection is closed, was closed by fastcgi_finish_request()
\* already, or is kept: then no accept, no reading_headers and no new accept time.
Follows(d) ==
  CASE d = "accepting" -> {"accepting", "reading"}
    [] d = "reading"   -> {"info", "close"}
    [] d = "info"      -> {"executing", "end"}
    [] d = "executing" -> {"detach", "end"}
    [] d = "detach"    -> {"end"}
    [] d = "end"       -> {"accepting", "close"} \cup (IF KeepAlive THEN {"info"} ELSE {})
    [] d = "close"     -> {"accepting"}

Enter(p) ==
  /\ At(p, "in")
  /\ \E d \in Follows(job[p].doing) :
       LET new == d = "reading" \/ (job[p].doing = "end" /\ d = "info")
       IN  /\ new => requests > 0
           /\ requests' = IF new THEN requests - 1 ELSE requests
           /\ job' = [job EXCEPT ![p] = [doing |-> d, at |-> "lock",
                                         now |-> IF d = "reading" THEN clock ELSE 0]]
  /\ UNCHANGED <<slots, lock>> /\ Elsewhere

Die(p) ==
  /\ proc' = [proc EXCEPT ![p] = "dead"]
  /\ term' = [term EXCEPT ![p] = "no"]
  /\ job' = [job EXCEPT ![p] = NoJob]

\* pm.max_requests, or a request that could not be started: leave after closing.
Leave(p) ==
  /\ At(p, "in") /\ job[p].doing = "close"
  /\ Die(p)
  /\ UNCHANGED <<envVars, sbVars, childVars, master, walk, requested, faults>>

\* A script that crashes the worker.
Crash(p) ==
  /\ At(p, "in") /\ job[p].doing \in {"executing", "detach"}
  /\ faults > 0 /\ faults' = faults - 1
  /\ Die(p)
  /\ UNCHANGED <<envVars, sbVars, childVars, master, walk, requested>>

----------------------------------------------------------------------------
(* The kernel *)

\* SIGTERM.  A traced process does not get it: it stops for it, and if that is
\* the stop it is resumed from, PTRACE_DETACH with signal 0 throws it away.
Kill(p) ==
  CASE proc[p] = "run"      -> Die(p)
    [] proc[p] = "attached" -> term' = [term EXCEPT ![p] = "first"] /\ UNCHANGED <<proc, job>>
    [] proc[p] \in {"stopped", "held"} ->
         /\ term' = [term EXCEPT ![p] = "later"]
         /\ UNCHANGED <<proc, job>>
    [] OTHER -> UNCHANGED <<proc, term, job>>

Stop(p) ==
  /\ proc[p] = "attached"
  /\ proc' = [proc EXCEPT ![p] = "stopped"]
  /\ UNCHANGED <<envVars, sbVars, childVars, term, job, master, walk, requested, faults>>

Tick ==
  /\ clock < MaxClock /\ clock' = clock + 1
  /\ UNCHANGED <<sbVars, childVars, osVars, job, master, walk, requested, requests, faults>>

----------------------------------------------------------------------------
(* The heartbeat: fpm_pctl_check_request_timeout over all children, with the  *)
(* time at its start.                                                         *)

Heartbeat ==
  /\ master = "loop"
  /\ SlowlogTimeout > 0 \/ TerminateTimeout > 0
  /\ master' = "walk"
  /\ walk' = [NoWalk EXCEPT !.now = clock, !.left = Children]
  /\ UNCHANGED <<envVars, sbVars, childVars, osVars, job, requested, faults>>

HeartbeatDone ==
  /\ master = "walk" /\ walk.left = {}
  /\ master' = "loop" /\ walk' = NoWalk
  /\ UNCHANGED <<envVars, sbVars, childVars, osVars, job, requested, faults>>

\* The slot is locked, by its worker or by one that died: try next time.
CheckBusy(p) ==
  /\ master = "walk" /\ p \in walk.left
  /\ slots[scoreboard_i[p]].lock # "none"
  /\ walk' = [walk EXCEPT !.left = @ \ {p}]
  /\ UNCHANGED <<envVars, sbVars, childVars, osVars, job, master, requested, faults>>

Elapsed(copy) == walk.now - copy.accepted

\* A backtrace is due; sl is slow_logged of the child.
SlowDue(copy, sl) ==
  /\ sl = 0 /\ SlowlogTimeout > 0
  /\ copy.stage = "executing" /\ Elapsed(copy) >= SlowlogTimeout

\* Mutant: the executing stage is not covered.
MutTerminateDue(copy) ==
  /\ TerminateTimeout > 0
  /\ copy.stage \in {"reading", "info"}
  /\ Elapsed(copy) >= TerminateTimeout

TerminateDue(copy) ==
  /\ TerminateTimeout > 0
  /\ copy.stage \in {"reading", "info", "executing"}
  /\ Elapsed(copy) >= TerminateTimeout

\* Mutant: forget it at every check.
MutSlowLoggedNow(p, copy) == 0

\* A new request: forget that the last one was logged.
SlowLoggedNow(p, copy) == IF slow_logged[p] # copy.accepted THEN 0 ELSE slow_logged[p]

\* Copy the slot under its lock, and decide about the copy.
CheckCopy(p) ==
  LET copy == slots[scoreboard_i[p]]
      sl == SlowLoggedNow(p, copy)
      due == SlowDue(copy, sl) \/ TerminateDue(copy)
  IN  /\ master = "walk" /\ p \in walk.left
      /\ copy.lock = "none"
      /\ slow_logged' = [slow_logged EXCEPT ![p] = sl]
      /\ walk' = [walk EXCEPT !.left = @ \ {p},
                              !.child = IF due THEN p ELSE "none",
                              !.copy = IF due THEN copy ELSE FreeSlot]
      /\ master' = IF due THEN "decide" ELSE "walk"
      /\ UNCHANGED <<envVars, sbVars, scoreboard_i, tracer, osVars, job, requested, faults>>

Decided == walk' = [walk EXCEPT !.child = "none", !.copy = FreeSlot] /\ master' = "walk"

\* Mutant: the tracer is not set.
MutTrace ==
  LET p == walk.child
  IN  /\ master = "decide" /\ SlowDue(walk.copy, slow_logged[p])
      /\ slow_logged' = [slow_logged EXCEPT ![p] = walk.copy.accepted]
      /\ proc' = [proc EXCEPT ![p] = IF @ = "run" THEN "attached" ELSE @]
      /\ requested' = requested \cup {<<p, walk.copy.accepted>>}
      /\ Decided
      /\ UNCHANGED <<envVars, sbVars, scoreboard_i, tracer, term, job, faults>>

\* fpm_trace_signal: PTRACE_ATTACH, refused for a zombie or a traced process.
Trace ==
  LET p == walk.child
  IN  /\ master = "decide" /\ SlowDue(walk.copy, slow_logged[p])
      /\ slow_logged' = [slow_logged EXCEPT ![p] = walk.copy.accepted]
      /\ tracer' = [tracer EXCEPT ![p] = TRUE]
      /\ proc' = [proc EXCEPT ![p] = IF @ = "run" THEN "attached" ELSE @]
      /\ requested' = requested \cup {<<p, walk.copy.accepted>>}
      /\ Decided
      /\ UNCHANGED <<envVars, sbVars, scoreboard_i, term, job, faults>>

Terminate ==
  LET p == walk.child
  IN  /\ master = "decide" /\ ~SlowDue(walk.copy, slow_logged[p])
      /\ TerminateDue(walk.copy)
      /\ Kill(p)
      /\ Decided
      /\ UNCHANGED <<envVars, sbVars, childVars, requested, faults>>

----------------------------------------------------------------------------
(* fpm_children_bury: waitpid reports each death and each stop.  That it is   *)
(* called for every SIGCHLD is in FpmMaster.                                  *)

\* Mutant: waitpid without WUNTRACED.
MutWaitable == {p \in Children : proc[p] = "dead"}

Waitable == {p \in Children : proc[p] \in {"dead", "stopped"}}

Bury ==
  /\ master = "loop" /\ Waitable # {}
  /\ master' = "bury"
  /\ UNCHANGED <<envVars, sbVars, childVars, osVars, job, walk, requested, faults>>

BuryDone ==
  /\ master = "bury" /\ Waitable = {}
  /\ master' = "loop"
  /\ UNCHANGED <<envVars, sbVars, childVars, osVars, job, walk, requested, faults>>

\* A death: free the child and its slot, with the lock in it; perhaps fork.
BuryDead(p) ==
  LET i == scoreboard_i[p]
  IN  /\ master = "bury" /\ p \in Waitable /\ proc[p] = "dead"
      /\ ChildrenMake([scoreboard_i EXCEPT ![p] = -1], ProcFree(slots, i), i,
                      [proc EXCEPT ![p] = "none"])
      /\ slow_logged' = [slow_logged EXCEPT ![p] = 0]
      /\ tracer' = [tracer EXCEPT ![p] = FALSE]
      /\ lock' = IF lock = p THEN "lost" ELSE lock
      /\ requested' = {r \in requested : r[1] # p}
      /\ UNCHANGED <<envVars, term, job, master, walk>>

\* A stop: call the tracer of the child.
BuryStopped(p) ==
  /\ master = "bury" /\ p \in Waitable /\ proc[p] = "stopped" /\ tracer[p]
  /\ master' = "trace" /\ walk' = [walk EXCEPT !.child = p]
  /\ UNCHANGED <<envVars, sbVars, childVars, osVars, job, requested, faults>>

TraceEnd(p) ==
  /\ tracer' = [tracer EXCEPT ![p] = FALSE]
  /\ master' = "bury" /\ walk' = NoWalk
  /\ UNCHANGED <<envVars, sbVars, scoreboard_i, slow_logged, requested>>

\* fpm_php_trace first waits for the lock of the pool, to count the slow
\* request; then it dumps, detaches and sends SIGCONT.
PhpTrace ==
  LET p == walk.child
  IN  /\ master = "trace" /\ lock = "none"
      /\ IF term[p] = "later" THEN Die(p)
         ELSE /\ proc' = [proc EXCEPT ![p] = "run"]
              /\ term' = [term EXCEPT ![p] = "no"]
              /\ UNCHANGED job
      /\ TraceEnd(p)
      /\ UNCHANGED faults

\* The slow log cannot be opened: SIGCONT is sent without a detach, and a
\* process in a ptrace stop stays there.
PhpTraceFails ==
  LET p == walk.child
  IN  /\ master = "trace" /\ lock = "none"
      /\ faults > 0 /\ faults' = faults - 1
      /\ proc' = [proc EXCEPT ![p] = "held"]
      /\ TraceEnd(p)
      /\ UNCHANGED <<term, job>>

----------------------------------------------------------------------------
(* The idle maintenance waits for the lock of the pool to store its counts,   *)
(* then may fork.                                                             *)

Maintain ==
  /\ master = "loop"
  /\ master' = "maintain"
  /\ UNCHANGED <<envVars, sbVars, childVars, osVars, job, walk, requested, faults>>

Maintained ==
  /\ master = "maintain" /\ lock = "none"
  /\ ChildrenMake(scoreboard_i, slots, free_proc, proc)
  /\ master' = "loop"
  /\ UNCHANGED <<envVars, lock, slow_logged, tracer, term, job, walk, requested>>

----------------------------------------------------------------------------
Init ==
  /\ clock = 1
  /\ slots = [i \in Slots |-> FreeSlot] /\ free_proc = 0 /\ lock = "none"
  /\ scoreboard_i = [p \in Pids |-> -1]
  /\ slow_logged = [p \in Pids |-> 0]
  /\ tracer = [p \in Pids |-> FALSE]
  /\ proc = [p \in Pids |-> "none"]
  /\ term = [p \in Pids |-> "no"]
  /\ job = [p \in Pids |-> NoJob]
  /\ master = "loop" /\ walk = NoWalk
  /\ requested = {}
  /\ requests = MaxRequests /\ faults = MaxFaults

Worker(p) == LockSlot(p) \/ WriteSlot(p) \/ LockPool(p) \/ UpdatePool(p)

Waits == PhpTrace \/ PhpTraceFails \/ Maintained

Handler ==
  \/ HeartbeatDone \/ BuryDone \/ Trace \/ Terminate
  \/ \E p \in Pids : CheckBusy(p) \/ CheckCopy(p) \/ BuryDead(p) \/ BuryStopped(p)

Next ==
  \/ \E p \in Pids : Worker(p) \/ Enter(p) \/ Leave(p) \/ Crash(p) \/ Stop(p)
  \/ Handler \/ Waits \/ Heartbeat \/ Bury \/ Maintain \/ Tick

\* The event loop comes back to its timers and to SIGCHLD; a handler goes on
\* unless it waits for a lock; a lock that is free again and again is taken.
\* Scripts, clients and the clock owe nothing.
Fairness ==
  /\ SF_vars(Heartbeat) /\ SF_vars(Bury)
  /\ WF_vars(Handler) /\ SF_vars(Waits)
  /\ \A p \in Pids : /\ WF_vars(LockSlot(p)) /\ WF_vars(WriteSlot(p))
                     /\ SF_vars(LockPool(p)) /\ WF_vars(UpdatePool(p))
                     /\ WF_vars(Stop(p))

Spec == Init /\ [][Next]_vars

FairSpec == Spec /\ Fairness

----------------------------------------------------------------------------
(* Properties *)

\* The slots in use are those of the listed children, one for each: no slot is
\* lost when a fork fails or a child dies in any state, so that
\* fpm_scoreboard_proc_alloc never reports "no free scoreboard slot".
SlotsExact ==
  /\ \A i \in Slots : slots[i].used <=> \E p \in Children : scoreboard_i[p] = i
  /\ \A p, q \in Children : scoreboard_i[p] = scoreboard_i[q] => p = q

\* A slot lock is held by the child that owns the slot, while it writes or after
\* it died there; a slot that is not in use is as fpm_scoreboard_proc_free
\* leaves it.  So no new worker spins on the lock of its slot, or is judged by
\* the stage and the accept time of the worker before it.
SlotsClean ==
  \A i \in Slots :
    /\ slots[i].lock # "none" =>
         LET p == slots[i].lock
         IN  scoreboard_i[p] = i /\ (proc[p] = "dead" \/ job[p].at = "write")
    /\ ~slots[i].used => slots[i] = FreeSlot

\* A worker stopped for the slow log is a listed child whose tracer is set, so
\* that fpm_children_bury resumes it and does not just skip the stop.
StopsTraced == \A p \in Pids : proc[p] = "stopped" => p \in Children /\ tracer[p]

\* At most one backtrace is asked for per accepted connection of a child.
BacktraceOnce ==
  [][\A p \in Pids, t \in Time :
       Trace /\ p = walk.child /\ t = walk.copy.accepted => <<p, t>> \notin requested]_vars

\* The holder of the pool's lock cannot release it: it was stopped for a
\* backtrace or killed inside fpm_scoreboard_update.
LockLost ==
  \/ lock = "lost"
  \/ lock \in Pids /\ proc[lock] \in {"stopped", "held", "dead"}

Late(p) ==
  /\ TerminateTimeout > 0 /\ proc[p] \in {"run", "attached", "stopped"}
  /\ job[p] = [doing |-> "executing", at |-> "in", now |-> 0]
  /\ clock - slots[scoreboard_i[p]].accepted >= TerminateTimeout

Traced(p) == proc[p] \in {"attached", "stopped"}

\* A script that runs past request_terminate_timeout does not go on for ever:
\* it is killed, also if the first SIGTERM was thrown away by a trace.  Unless
\* the pool's lock is lost.
LateEnded == []~LockLost => \A p \in Pids : Late(p) ~> ~Late(p)

\* A worker that is attached to for a backtrace is resumed, or dies, or is held
\* because the slow log could not be opened.  Unless the pool's lock is lost.
TraceEnds == []~LockLost => \A p \in Pids : Traced(p) ~> ~Traced(p)

\* The same without the condition: when a request is slow, "a PHP backtrace will
\* be dumped to the 'slowlog' file".
BacktraceDumped == \A p \in Pids : Traced(p) ~> ~Traced(p)
============================================================================
