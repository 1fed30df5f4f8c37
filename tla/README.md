# PHP-FPM in TLA+

A verification project for the annotated PHP 5.6 source in this repository. Its
centre is the part of PHP in which independent processes interact: the FastCGI
process manager under `src/sapi/fpm`. One master process forks workers, watches
them through signals, pipes and shared memory, and stops or replaces itself on
request. Around it are what a worker does on its connections, and the cycle
collector that runs inside its scripts. The project models these, model-checks
them with TLC and proves the main safety properties with TLAPS.

## The system

| Part | Source (under `src/sapi/fpm/fpm` unless said) | Here |
| --- | --- | --- |
| Process control: states, escalation, exec and exit, idle maintenance, on-demand event | `fpm_process_ctl.c` | `FpmMaster`, abstractly `FpmService` |
| Request timeouts, slow log, tracing | `fpm_request.c`, `fpm_php_trace.c`, `fpm_trace_ptrace.c` | `FpmRequests` |
| Scoreboard: slots and locks | `fpm_scoreboard.c`, `fpm_atomic.h` | `FpmRequests` |
| Children: fork, lists, waitpid loop | `fpm_children.c` | `FpmMaster`; slots and stops in `FpmRequests`, pipes in `FpmEvents` |
| Event loop: timers, file events, epoll | `fpm_events.c`, `events/epoll.c` | timers in `FpmMaster`, file events in `FpmEvents` |
| Output of the workers | `fpm_stdio.c` | `FpmEvents` |
| Signals | `fpm_signals.c` | `FpmMaster` |
| Start, worker loop | `fpm.c`, `fpm_main.c` | `FpmMaster`, `Fastcgi` |
| FastCGI: output | `fastcgi.c` | `FcgiWriter` |
| FastCGI: requests, connections; request body | `fastcgi.c`, `fpm_main.c`, `main/SAPI.c` | `Fastcgi` |
| Pool settings | `fpm_conf.c` | assumptions on the constants |
| Reference counts and cycle collector | `Zend/zend_gc.c`, `zend_objects_API.c` | `ZendGc`; one collection in steps in `ZendGcPhases` |
| Logs, status page, environment, sockets over a reload | `fpm_log.c`, `fpm_status.c`, `fpm_unix.c`, `fpm_sockets.c`, ... | not modelled |
| Memory manager, hash tables | `Zend/` | not modelled |
| Compiler, executor, other server interfaces, extensions | `Zend/`, `main/`, `sapi/`, `ext/`, `TSRM/` | not modelled |

`PROJECT.json` has the full list with reasons, the source lines behind every
definition, and the hazards the code is exposed to.

The parts interact as follows. A signal to the master runs `sig_handler`, which
writes a byte to a socketpair. The event loop reads it in `fpm_got_signal`: a
`C` buries dead children, the others go to `fpm_pctl`. `fpm_pctl` signals all
children and arms a timer to signal them harder. When the last child is buried
the master exits or execs itself. A heartbeat keeps the number of idle children
of each pool in bounds by reading the workers' stages in shared memory; another
one compares accept times with the request timeouts and kills or traces workers.
What a worker prints goes through a pipe that the same event loop watches. Each
worker accepts connections from the listening socket it inherited, reads
requests, runs a script and writes records.

## FpmMaster

State:

| Variable | In the code |
| --- | --- |
| `master` | where the master is: a new image before (`exec`) and after (`boot`) `fcgi_init`, `fpm_run` (`start`), the event loop (`loop`), inside `fpm_children_bury` (`bury`), between choosing and signalling an idle child (`kill`), or gone |
| `fpm_state`, `fpm_signal_sent` | the variables of that name |
| `timers` | whether `pctl_event` is in `fpm_event_queue_timer` |
| `pending`, `sp` | signals generated but not delivered (a set: they are not queued); bytes in the socketpair |
| `in_shutdown`, `quitting` | the flag of `fastcgi.c` as the master has it and hands it to its children, and as `sig_soft_quit` sets it in a worker |
| `children`, `older`, `idle_kill`, `idle_spawn_rate` | the lists with their order of start, and the fields of that name |
| `proc`, `stage` | the state of each process, and the stage in its scoreboard slot, which outlives it until it is buried |
| `backlog`, `edge` | waiting connections, and whether epoll will report the socket of an on-demand pool |
| `todo`, `victim` | program counters of `fpm_run` and of the maintenance |
| `sigs`, `faults`, `forkfails` | what the environment may still do |

Each action is one handler, run to its end. Where a handler calls `fpm_pctl`
or `fpm_children_make` they are part of the same action, as operators over the
lists and processes at that point. Two handlers are split, because a worker
acting in between changes their outcome: the waitpid loop (`BuryOne`,
`BuryDone`) and the idle maintenance (`Maintenance`, `IdleKill`).

Abstractions:

* Time is left out. An armed timer may fire at any moment, so
  `process_control_timeout` has any value, and the idle child that the
  maintenance of an on-demand pool looks at may be past
  `pm.process_idle_timeout` whether or not a connection waits for it. Only
  `OnDemandServed` has a premise about time, `AcceptInTime`: no child is told to
  quit while a connection waits that it had `pm.process_idle_timeout` seconds to
  accept. It fails even so.
* One step of `fpm_got_signal` reads one byte, and one step of `Maintenance`
  treats one pool. The code treats all of them in a row; the model also allows
  other events in between, so it has more behaviours.
* Children forked by one call have the same start time. The maintenance then
  picks any of them; the code picks the first in the list.
* The request stage is `accepting`, `busy` or `none`. A kept-alive connection
  counts as one long request.
* Whether the emergency restart triggers at a fault is a free choice; the ring
  of fault times behind it is not modelled.
* The model starts at `fpm_run`. The window before it is reached by reloads.
  After a reload the settings are the same, or `fpm_init` fails.
* The slow log and the request timeouts are in `FpmRequests`, over the same
  children but without their signals.

Bounds, all constants: `MaxSignals`, `MaxFaults`, `MaxForkFails` and
`MaxBacklog` limit the environment. `MaxSp` limits the bytes in the socketpair,
by letting a delivery wait; the real buffer holds thousands.

## FpmService

The abstract specification: a phase (normal, one of three kinds of ending,
restarting, stopped) and the set of worker processes. It says what an operator
relies on. Workers are started in the normal phase only. A request can make the
end faster, never slower. The service leaves an ending phase in the very step in
which its last worker is reaped. Only a reload comes back, without workers.
`FpmMaster` implements it (`ImplementsService`) with `Phase` and `Existing` as
the refinement mapping: the phase is `fpm_state` while an image runs that has
one, and a worker exists until it is reaped.

## FpmRequests

One pool's scoreboard in shared memory. `slots` are its entries with their lock,
stage and accept time, `lock` is the lock of the pool, `job` says where each
worker is in a stage function: before the lock of its slot, inside it, before
the lock of the pool, inside it, or done. The master's walk over the children is
split where the code releases a lock: copying a slot (`CheckCopy`) and acting on
the copy (`Trace`, `Terminate`). `proc` is the process as the kernel has it;
a traced process is `attached`, then `stopped`, then resumed by `PhpTrace`, or
`held` if the slow log cannot be opened, because SIGCONT does not end a ptrace
stop. A SIGTERM at a traced process is thrown away by the detach, or acts
afterwards, depending on the order of the stops (`term`).

Abstractions: the clock ticks up to `MaxClock`, and seconds are ticks. When a
child is forked is free, since that is `FpmMaster`'s part. The slot that
`fpm_scoreboard_proc_alloc` searches for may be any free one. Counters behind
the pool's lock have no values.

## FpmEvents

The queue of file events, the epoll set behind it, and the memory that both
point into: an address holds a child, is freed by `fpm_child_close` and given
out again by `malloc`. `Wait` takes all ready events in any order, as
`epoll_wait` may; the handlers then run one by one. Deaths, the end of the
output, SIGCHLD and processes that a script leaves in the background with its
pipe open happen in any order. Forked children inherit the read ends of other
pipes until they have run `fpm_worker_pool_cleanup` (`Cleanup`); until then,
closing one in the master does not end its registration.

What an event of a freed child does when it is fired is undefined, and the
model stops there (`FireStale`). The properties say by which two ways this is
reached and that there is no third. stdout and stderr are treated alike.

## FcgiWriter and Fastcgi

`FcgiWriter` is `fcgi_write` and `fcgi_flush` over the buffer of a request. The
content of records is abstracted to which bytes of which stream they carry; the
arithmetic of headers, padding, limits and the three paths of `fcgi_write` is as
in the code, over constants for the sizes. `peak` remembers how far the buffer
was ever written to, memsets of padding included.

`Fastcgi` extends it with the worker: accepting, `fcgi_read_request`, reading
the body at the start of a POST, by a script through `php://input`, or at the
end, `fastcgi_finish_request()`, and keeping the connection. `input` is the
sequence of records that are not read to their end, `at` how many bytes of the
first one are read. A record has its type, the lengths of its content and
padding, and what its content amounts to: the keep flag, the announced
CONTENT_LENGTH, what is left of the body. A header counts as one byte, as no
read stops inside one without failing. The three nested calls that read a body
are in progress together, each with a variable for its counter (`nread`, `got`,
`buflen`), and one step is one read of `fcgi_read`.

Clients are web servers that follow the protocol (`RequestAssumption`): any
sequence of records that begins with FCGI_BEGIN_REQUEST, in which the length
that the parameters announce is the one of the body, and in which empty records
have no padding, since the code skips none there. They may go away after any
byte. A header that is really something else, which takes an unread body before
it, is recorded in `desync` and rejected. The steps of `Fastcgi` are steps of
`WriterSpec`, so all that is proved of the writer holds for requests.

Left out: FCGI_GET_VALUES, the text of parameters, REQUEST_BODY_FILE, a second
`fastcgi_finish_request()` on a kept connection, and multipart/form-data bodies:
`main/rfc1867.c` reads them through `sapi_module.read_post` into its own buffer,
without `sapi_read_post_block` and `request_body`, and so not by `StartPost`.

## ZendGc

A heap of zvals and objects is one value, and the functions of `zend_gc.c` are
recursive operators from heaps to heaps with the names of the code. `var` is
what the script's variables refer to. Actions are what scripts do: create,
share by reference, copy an object's handle, store, unset, and
`gc_collect_cycles()`. A possible root that finds the buffer full starts a
collection, also from inside the destruction that another collection does. The
size of the buffer is chosen in the initial state, from `RootMaxes`.

Two things the code does are marked and excepted by the properties. `stale`: the
collection that made room has buffered the root already, or dropped its last
other reference, and the code goes on without another look: the root is buffered
twice, or stays with a count of zero that nothing will free. The model stops
there. `lost`: the buffer is full again after the collection, and the root is
turned away. Destructors, `gc_disable()` and `$GLOBALS` as an array are left
out; an object has either declared or dynamic properties.

## ZendGcPhases

One `gc_collect_cycles` up to the list of zvals to destroy, in small steps and
without recursion, so that it can be reasoned about. Zvals and objects are nodes
of a graph that does not change meanwhile: `refs` is what each refers to, `extra`
how many references come from where the collector does not look. The functions
that call themselves are loops over a stack of references that are still to be
followed: `todo`, and `blacken` for the calls of `zval_scan_black` inside of
`zval_scan`. A step follows one reference or takes one root: `mark_root`,
`mark_grey`; `scan_root`, `scan`, `scan_black`; `collect_root`, `collect_white`.
`rc`, `col`, `buf`, `roots` and `to_free` are the fields and globals of the code.

A collection starts from any graph with exact counts in which every node is
referred to, with any nodes in the buffer, in any order. One start is excluded:
`unset()` of a declared property drops the value before it unlinks it
(`zend_object_handlers.c:851`), and a collection that this starts finds a count
one short. That start is part of `ZendGc` (`UnsetFirst`), and model-checked
only. Garbage is defined without the algorithm: what cannot be reached from an
outside reference, nor from a node that the roots do not lead to. The properties
say that exactly that is listed, that the counts are right again, and that no
count is below zero on the way. `PhasesAgree` compares the result with that of
the recursive operators of `ZendGc`: same counts, colours and list, in the same
order.

## Runs

The first eight runs use `MCFpmMaster`. `MCWorker` puts `Fastcgi`, `ZendGc` and
`ZendGcPhases` side by side: a behaviour follows one of them, since a worker's
connections and the values of its script do not touch, and a collection runs
without its script.

| Run | Instance | Result |
| --- | --- | --- |
| `dynamic` | a dynamic pool of at most 3 children and 4 pids, a crash, a failed fork | `TypeOK`, `WithinLimits`, `IdleKillHeeded`, `DynamicKeepsOne` hold |
| `reload` | a static and an on-demand pool, `process.max` 2, 3 pids, one signal of any kind, a crash with emergency restart, a failed fork | `ZombieNoticed`, `NoOrphans`, `ListsExact`, `WithinLimits`, `ImplementsService` hold |
| `serving` | a dynamic pool of at most 2, a crash, a failed fork, fair | `ZombiesReaped`, `DynamicServed` hold |
| `stopping` | a static pool of 2, two signals out of SIGTERM and SIGUSR2, a failed fork, fair | `TerminationEnds`, `Escalation`, `StaticRefilled` hold |
| `reload_stuck` | a static pool of 1, SIGUSR2, fair | `ReloadEnds` is violated |
| `reload_twice` | a static pool of 1, two SIGUSR2 | `ReloadSurvives` is violated |
| `term_lost` | a static pool of 1, SIGTERM and SIGUSR2, fair | `TermObeyed` is violated |
| `ondemand_stuck` | an on-demand pool of at most 2, fair | `OnDemandServed` is violated |
| `requests` | one slot, 2 pids, 3 requests with keep-alive, slow after 1 tick and late after 2, a fault, fair | `TypeOK`, `SlotsExact`, `SlotsClean`, `StopsTraced`, `BacktraceOnce`, `LateEnded`, `TraceEnds` hold |
| `slowlog_deadlock` | as `requests`, with a single request, fair | `BacktraceDumped` is violated |
| `events` | 2 addresses, 3 workers, a background process, fair | `TypeOK`, `Watched`, `NoDangling`, `BatchValid`, `OutputRead` hold |
| `worker` | a buffer of 40 bytes, records of at most 47, 2 requests, 2 writes of 13 or 60 bytes; 3 zvals, an object, 3 variables, 3 stored references, buffers of 1 and 2 roots; collections over an array, an object and its zval | `BufferBound`, `Framed`, `InOrder`, `WriterSpec`, `InputAligned`, `Answered`, `GcExact`, `GcBuffered`, `GcComplete`, `ListsGarbage`, `CountsRestored`, `CountsNatural`, `Settled`, `PhasesAgree` hold |

The bounds are small, and chosen so that each case happens: more pids than
`pm.max_children`, so that a limit that is too high shows; two pools under a
`process.max` that is smaller than what they ask for; two children, so that
their deaths share a SIGCHLD; two signals, so that one overtakes the handling
of the other. Symmetry over pids is used in `dynamic` and `reload`, which check
no liveness.

`requests` has one slot and two pids, so that a slot is reused by a new worker
while the old one dies in any state; three ticks, so that a request becomes slow
and then late; three requests, so that a kept connection sees a second one. That
slots and children correspond one to one when there are several of both is shown
by `SlotsAreExact` only: with two slots the run takes too long.
`events` has fewer addresses than workers, so that memory is reused while a pipe
of its former child is still open. `worker` keeps the relations of the sizes:
the buffer is a multiple of 8 and smaller than the longest record, which is 7
modulo 8, as 8192 and 65535 are. Writes of 13 and 60 bytes take all three paths
of `fcgi_write`, and two writes reach its boundaries from different fillings: 60
bytes leave a record that is padded to the end of the buffer, behind which a write
of the other type finds no room even for its header. The body of the POST is in
two records with padding between them, and blocks of 2 bytes end inside a record,
cross into the next one and end short. The collector needs little to meet its
special cases if the buffer is small. With one root and three variables over three
stored references, a collection starts inside the destruction of an array, inside
the destruction that another collection does (the mutant of `GcExact` shows only
there), and roots are turned away; with two roots, a collection has several roots
that reach each other. The collections in steps start
from every graph of an array and an object with up to two elements each and a zval
of that object, with any of the three in the buffer in any order: cycles through
the array and through the object, two cycles that share a node, the same element
twice, roots that reach each other or not.

What is also proved without bounds is listed under Proofs.

Deadlock is not checked in `reload` and `ondemand_stuck`, where an FPM without
clients and signals waits; in `requests` and `slowlog_deadlock`, where the clock
is bounded and the master may wait for a lost lock; in `events`, where the model
ends with a stale event; and in `worker`, where the worker exits and scripts
end. In the other runs clients, the maintenance or the final state go on.

Findings:

* **A reload can hang** (`reload_stuck`). `fpm_pctl_action` re-arms its timer
  while it fires. `fpm_event_queue_add` sees the event in the queue and does
  nothing, then the loop unlinks it. SIGKILL is never sent after SIGQUIT and
  SIGTERM. A child that was just forked ignores both, because it still has the
  master's handler, and the reload waits for it as long as it lives.
* **A second SIGUSR2 can kill FPM** (`reload_twice`). Between exec and
  `fpm_signals_init_main` the signal has its default action.
* **SIGTERM can get lost** (`term_lost`). Its byte is in the socketpair when
  the last child of a reload is buried; the socketpair is close-on-exec.
* **An on-demand connection can wait without end** (`ondemand_stuck`). The
  child that the scoreboard shows as idle has been told to quit. The
  edge-triggered event is used up, and the child is not replaced.
* **The slow log can hang the master** (`slowlog_deadlock`). The decision to
  trace is made on a copy of the slot. By the time of the attach the worker may
  be inside `fpm_scoreboard_update` and hold the pool's lock. It is stopped
  there, and `fpm_php_trace` begins by waiting for that lock.

A termination is not affected by the first one: SIGTERM comes at once and
SIGKILL with the first timeout (`TerminationEnds`).

The models also reach states in which the code goes wrong and no document says
otherwise, so that there is no finding to state. The properties except exactly
these, through a history variable, and say that nothing else goes wrong:

* `buried`: an event of a child that was buried earlier in the same batch;
  `left`: one of a child that was buried while a background process could still
  write to its pipe.
* `dropped`: a body that was read in part, at the start of a POST or by a script,
  and whose rest nobody reads before the next request of a kept connection.
* `early`: output after `fastcgi_finish_request()` on a kept connection.
* `stale` and `lost`: see ZendGc.

## Fairness

`Fairness` says what scheduling gives. Every iteration of the event loop reads
the socketpair and visits all due timers and ready sockets. These are strongly
fair, since a step of burying disables them for a moment only. A pending
signal is delivered; this is strongly fair because of the bound `MaxSp`. The
waitpid loop comes to an end. A worker that can run does so. Nothing is assumed
about clients, failures, operators or the length of a request.

In `FpmRequests` the event loop comes back to its heartbeat and to SIGCHLD, a
handler goes on unless it waits for a lock, and a lock that is free again and
again is taken in the end (strong fairness of `LockPool` and `Waits`): a spin
lock with `sched_yield` gives that with probability one. The kernel stops a
process that was attached to. `LateEnded` and `TraceEnds` assume that the lock
of the pool is not lost, and `slowlog_deadlock` shows why. In `FpmEvents` the
loop goes round and an exiting process becomes a zombie. The worker's models
have no liveness properties.

`Serving` adds the heartbeat and the listening sockets, and that scripts end.
Only the two runs about serving connections use it.

## Proofs

The theorems hold for all finite sets of pids, any pools, all settings that
`fpm_conf.c` accepts (`ConfAssumption`) and all bounds (`ModelAssumption`), those
of the worker for all sizes (`BufAssumption`) and requests (`RequestAssumption`),
those of a collection for all finite sets of arrays and objects
(`PhasesAssumption`).

| Module | Theorems |
| --- | --- |
| `FpmMasterProofs` | `TypeCorrect`: `TypeOK`, `ListsAreExact`: `ListsExact`, `NoChildOutlivesMaster`: `NoOrphans`, `DeathsAreNoticed`: `ZombieNoticed`, `IdleKillsAreHeeded`: `IdleKillHeeded` |
| `FpmPoolProofs` | the lemmas about the sizes and ages of pools, used by the next module |
| `FpmServiceProofs` | `LimitsHold`: `WithinLimits`, `DynamicPoolsKeepOne`: `DynamicKeepsOne`, `StaticPoolsRefill`: `StaticRefilled`, `MasterImplementsService`: `ImplementsService`, `EscalationInOrder`: `Escalation` |
| `FpmRequestsProofs` | `RequestsTyped`: `TypeOK`, `SlotsAreExact`: `SlotsExact`, `SlotsAreClean`: `SlotsClean`, `StopsAreTraced`: `StopsTraced`, `BacktracesAreOnce`: `BacktraceOnce` |
| `FpmEventsProofs` | `EventsTyped`: `TypeOK`, `PipesAreWatched`: `Watched`, `NothingDangles`: `NoDangling`, `BatchesAreValid`: `BatchValid` |
| `FcgiWriterProofs` | `BufferHolds`: `BufferBound`, `RecordsAreFramed`: `Framed` |
| `FastcgiProofs` | `WorkersStayAligned`: `InputAligned`, `WorkersImplementWriter`: `WriterSpec`, `OutputInOrder`: `InOrder`, `RequestsAreAnswered`: `Answered` |
| `ZendGcPhasesProofs` | `CollectionListsGarbage`: `ListsGarbage`, `CollectionRestoresCounts`: `CountsRestored`, `CountsStayNatural`: `CountsNatural`, `CollectionSettles`: `Settled` |

`TypeInv` is the type invariant with one addition, that a victim exists while
the master is in `kill`. The three reaping properties need each other.
`NoOrphans` alone is not inductive: the master leaves when its lists are empty,
so the lists must be exact. `ZombieNoticed` needs `NoOrphans`: while a new image
starts, SIGCHLD is ignored, which is harmless only because no child exists.
`ReapInv` is the three together, and `ReapNext` shows action by action that
`Next` keeps it. `WithinLimits` is inductive relative to the types alone: every
fork goes through `fpm_children_make`, whose loop tests both limits, and
`ToFork` and the test of the on-demand event keep its target in bounds.

`DynamicKeepsOne` is far from inductive. The maintenance tells the oldest idle
child to quit, one in each round, and only if more than `pm.max_spare_servers`
are idle; but children it told earlier are still in the list and still count as
idle until they die. `KeepInv` says why one is left over: the children of a pool
are ordered by the rounds in which they were forked, a round has at most
`pm.max_spare_servers` of them (`Aged`), and every child that was told to quit
has a younger one that was not (`Survives`). So when the oldest is chosen, a
child outside of its round is idle too. A child that was not told to quit and
dies is replaced by one that is younger than all. The theorem takes
`process.max` at its default of no limit. Under a limit other pools can take up
the processes that a dead child leaves, and the pool may become empty.
`StaticRefilled` follows from what `fpm_children_make` forks: as many as are
missing, counted after the burial, which is the only step that reaps
(`OnlyBuryReaps`). `FpmPoolProofs` states what it needs of the sizes of finite
sets in one formula, `Counted`, as a hypothesis of its lemmas; `CountedHolds` in
`FpmServiceProofs` proves it from the library's theorems, so that no theorem
depends on it.

`Escalation` is proved step by step from the types. `IdleKillHeeded` needs
`IdleInv`: a stage in the scoreboard is only shown by a child that has installed
its handlers (`StageHonest`), and this survives because burying a child clears
its slot before a new child may take it. Between choosing and signalling, the
victim still is such a child.

The lemmas about `fpm_children_make`, `fpm_pctl_action_next` and `fpm_pctl_set`
say what each keeps, and are used for every action that calls them.

The refinement is proved from `TypeInv` and `ReapInv`. Every action is shown to
be a step of `FpmService` or to leave its two variables alone. Exact lists are
what makes the master's test of `running_children` a test for existing workers.

`SlotInv` is `SlotsExact`, `SlotsClean` and that whoever is attached to or
stopped has its tracer set. A slot is only clean for the next child if it
belonged to the last one alone, so the first two need each other.
`BacktraceOnce` needs more (`TraceInv`). A backtrace was asked for at a time that
is not later than the accept time in the slot, and while that time is still in
the slot `slow_logged` remembers it (`Stamps`). Between the copy and the decision
the accept time only grows, and no earlier backtrace has the copied one
(`Deciding`).

`Inv` of the events has, besides the properties, that a worker belongs to one
address (`Owned`) and that no event is twice in the rest of a batch (`Once`):
without it, an event that was removed at the end of its pipe could be fired again.

`BufInv` says that what is in the buffer lies within `BufSize`, that closed
records end and open ones start at multiples of 8, and that all closed and sent
records are framed. The multiples matter: a record that ends within the buffer
stays within it when it is padded. The theorems hold for every buffer size,
record limit and set of lengths that satisfies `BufAssumption`, so also for the
real 8192 and 65535.

For the worker there are two arguments. `InputInv` is about what it reads. As
long as no body was dropped, the worker is `Synced`: the input is a proper
sequence of records of which `at` bytes are read; before a request it is at an
FCGI_BEGIN_REQUEST or at the end of a body; within the parameters at one of
their records; and while it serves, at the start or inside of the record of the
body at which the counters of the three nested calls say it is (`AtBody`). What
is left by `content_length` and by the records is the same number, so a short
block means that the body is over (`Consumed`). `InputAligned` follows, for every
block size, every split of the body in records, and a client that leaves at any
byte.

`OutInv` is about what it writes. `Flow` says that the sent frames followed by
those in the buffer are in order, and that with the bytes of the open record they
carry all that was written. Each path of `fcgi_write` keeps it, and `fcgi_flush`
moves all of it to the client. It holds from a request's reset of the buffer on, as
long as no write failed, so it is an invariant of requests and not of the writer
alone, whose specification lets another connection begin at any point. With it,
`OutInv` says that a response has no end record while its connection is open and
one when it is over. `InOrder` and `Answered` follow, for every buffer size, record
limit and set of lengths.

`WorkersImplementWriter` is proved action by action: an action of the worker
leaves the output alone, is one of the calls of the writer, or is a new
connection. It makes `BufferHolds` and `RecordsAreFramed` theorems about workers.

A collection is about reachability, which is defined with sets that contain what
their nodes refer to, so that no induction over paths is needed: what is reached
is in every such set (`ReachedFacts`), and a set of nodes the algorithm has
dealt with is shown to be one. The invariant `IInv` has a formula for the counts
and one for each phase. `Counted` says that a count is `extra` plus the
references into the node but for those in `Off`, the ones that are taken off at
that moment; in each phase `Off` is a set given by the colours and the stacks.
It alone makes `CountsNatural` hold, and it is kept because a step that changes
a count moves just one reference into `Off` or out of it, or puts a zval on the
list. `Marking` says that what is grey can be reached from the roots that stay
in the buffer, and that a reference from a grey node leads to a grey one or is
on the stack. At its end the grey nodes are just those that the roots lead to,
although roots were dropped. `Scanning` says that a white node has count 0 and a
black one is in use, and that a reference from a node that is no longer grey
leads to another such node or is on one of the stacks. At its end nothing is
grey, and by `Counted` all references to a white node come from white ones, so
that what is not white contains what it refers to and all that is in use: white
is the garbage. `Collecting` says that only garbage is taken, and that a
reference from what was taken leads to something taken, to a root to come, to
something in use or is on the stack, so that at the end all garbage is taken
(`AllTaken`). There is one lemma per action; `CollectStep` is shared by roots
and references.

Only model-checked: the liveness properties, because the prover does not treat
fairness; the properties of `ZendGc` (`GcExact`, `GcBuffered`, `GcComplete`), whose
operators are recursive over the heap, since what they compute is a matter of
induction over data, which the prover cannot do; and `PhasesAgree`, which mentions
these operators. What is proved of `ZendGcPhases` is thus a theorem about the
phases of a collection, and that scripts leave the heap in a state in which it
applies, and the destruction of the list, are checked by TLC.

## Not modelled

* The ring of fault times behind the emergency restart (`fpm_children.c:261`).
  `FpmMaster` leaves the decision free, which covers every value of the ring.
* A full socketpair (`fpm_signals.c:177`). Delivery waits instead.
* Sockets inherited over a reload, the status page, logs, configuration files:
  sequential, run once or formatting only.
* The memory manager and the hash tables: large sequential data structures that
  the parts above use through simple interfaces. The models take any free
  address and use sequences.
* Compiler, executor, extensions, streams and the other server interfaces: by
  far the largest part of the repository. They have no concurrency, and a model
  that stayed faithful would be as large as they are. They are also why the
  definitions stand for a small share of the repository's lines.
