----------------------------- MODULE FpmEvents -----------------------------
(* How the master watches what its children write (catch_workers_output): the *)
(* list of file events, the epoll set behind it, a batch of ready events, and *)
(* the children whose memory holds the events.  Each child has one pipe here; *)
(* stdout and stderr are treated alike.  The queue is a set, since            *)
(* fpm_event_queue_add looks an event up before it links it.                  *)
EXTENDS Integers, Sequences, FiniteSets, SequencesExt

CONSTANTS
  Addrs,     \* addresses that malloc may return for a child
  Procs,     \* worker processes; a worker also names the pipe it writes to
  MaxBackground  \* bound: processes that scripts leave behind with the pipe open

ASSUME ModelAssumption ==
  /\ IsFiniteSet(Addrs) /\ MaxBackground \in Nat
  /\ "none" \notin Procs /\ "sig" \notin Addrs

VARIABLES
  child,     \* per address: the worker of the child there, "none" if it is free
  fd,        \* per address: whether fd_stdout of the child is open
  index,     \* per address: whether index of its event is not -1
  queue,     \* fpm_event_queue_fd
  epoll,     \* registrations: the event's address and the pipe
  batch,     \* the rest of epollfds in fpm_event_epoll_wait
  master,    \* where the master is
  sig,       \* whether a SIGCHLD waits in the socketpair
  proc,      \* workers as the kernel has them
  data,      \* per pipe: whether there is something to read
  back,      \* workers whose pipe a background process holds open
  heirs,     \* per pipe: new workers that inherited its read end
  buried,    \* history: addresses freed since epoll_wait returned
  left,      \* history: addresses of children buried with such a pipe
  bgs        \* how many background processes may still appear

loopVars == <<batch, master>>
evVars == <<child, fd, index, queue, epoll>>
osVars == <<proc, data, back, heirs>>
history == <<buried, left>>
vars == <<evVars, loopVars, sig, osVars, history, bgs>>

TypeOK ==
  /\ child \in [Addrs -> Procs \cup {"none"}]
  /\ fd \in [Addrs -> BOOLEAN] /\ index \in [Addrs -> BOOLEAN]
  /\ queue \subseteq Addrs \cup {"sig"}
  /\ epoll \subseteq [ev : Addrs, pipe : Procs]
  /\ batch \in Seq(Addrs \cup {"sig"})
  /\ master \in {"wait", "fire", "bury", "make", "timers", "lost"}
  /\ sig \in BOOLEAN
  /\ proc \in [Procs -> {"none", "run", "exiting", "zombie"}]
  /\ data \in [Procs -> BOOLEAN]
  /\ back \subseteq Procs
  /\ heirs \in [Procs -> SUBSET Procs]
  /\ buried \subseteq Addrs /\ left \subseteq Addrs
  /\ bgs \in 0 .. MaxBackground

\* Pipes whose read end the master has open.
Open == {child[a] : a \in {x \in Addrs : fd[x]}}

Written(p) == proc[p] = "run" \/ p \in back

\* Reading would not block: data, or the end of the file.
Readable(p) == data[p] \/ ~Written(p)

\* The kernel drops a registration with the last reader of its pipe.
Live(ep, open, hs) == {r \in ep : r.pipe \in open \/ hs[r.pipe] # {}}

----------------------------------------------------------------------------
(* Adding and deleting events *)

\* Mutant: the worker, not its event, is put in the queue.
MutWatch(a, p) ==
  /\ child' = [child EXCEPT ![a] = p]
  /\ fd' = [fd EXCEPT ![a] = TRUE]
  /\ queue' = queue \cup {p}
  /\ index' = [index EXCEPT ![a] = TRUE]
  /\ epoll' = epoll \cup {[ev |-> a, pipe |-> p]}

\* fpm_stdio_parent_use_pipes for the new child p at address a: fpm_event_set
\* and fpm_event_add.  An address that is in the queue already is not given to
\* fpm_event_epoll_add, and its index stays -1.
Watch(a, p) ==
  /\ child' = [child EXCEPT ![a] = p]
  /\ fd' = [fd EXCEPT ![a] = TRUE]
  /\ queue' = queue \cup {a}
  /\ index' = [index EXCEPT ![a] = a \notin queue]
  /\ epoll' = IF a \in queue THEN epoll ELSE epoll \cup {[ev |-> a, pipe |-> p]}

\* fpm_event_del of a's event: an event that has index -1 is looked for among
\* the timers, and not found.
\* Mutant: the element stays in the list.
MutQueueDel(a) == queue

QueueDel(a) == IF index[a] THEN queue \ {a} ELSE queue

\* Mutant: epoll is left to notice that the descriptor is closed.
MutEpollDel(a) == epoll

EpollDel(a) == IF index[a] THEN {r \in epoll : r.pipe # child[a]} ELSE epoll

----------------------------------------------------------------------------
(* Workers and what they leave behind *)

\* A worker, or what it left behind, writes a message.
Write(p) ==
  /\ Written(p) /\ ~data[p]
  /\ data' = [data EXCEPT ![p] = TRUE]
  /\ UNCHANGED <<evVars, loopVars, sig, proc, back, heirs, history, bgs>>

\* Worker p closes the read ends that it inherited.
Gone(p) ==
  /\ heirs' = [r \in Procs |-> heirs[r] \ {p}]
  /\ epoll' = Live(epoll, Open, heirs')

Inherits(p) == \E r \in Procs : p \in heirs[r]

\* fpm_worker_pool_cleanup in a new worker: fpm_children_free closes the pipes of
\* the children that the master had at the fork.
Cleanup(p) ==
  /\ proc[p] = "run" /\ Inherits(p)
  /\ Gone(p)
  /\ UNCHANGED <<child, fd, index, queue, loopVars, sig, proc, data, back, history, bgs>>

\* A script starts a process that outlives it and keeps its stdout.
Background(p) ==
  /\ proc[p] = "run" /\ ~Inherits(p) /\ p \notin back /\ bgs > 0
  /\ bgs' = bgs - 1 /\ back' = back \cup {p}
  /\ UNCHANGED <<evVars, loopVars, sig, proc, data, heirs, history>>

BackgroundEnds(p) ==
  /\ p \in back /\ back' = back \ {p}
  /\ UNCHANGED <<evVars, loopVars, sig, proc, data, heirs, history, bgs>>

\* A worker exits: the kernel closes its files, later makes it a zombie and
\* sends SIGCHLD, whose handler writes to the socketpair.
Exit(p) ==
  /\ proc[p] = "run" /\ proc' = [proc EXCEPT ![p] = "exiting"]
  /\ Gone(p)
  /\ UNCHANGED <<child, fd, index, queue, loopVars, sig, data, back, history, bgs>>

Zombie(p) ==
  /\ proc[p] = "exiting" /\ proc' = [proc EXCEPT ![p] = "zombie"]
  /\ sig' = TRUE
  /\ UNCHANGED <<evVars, loopVars, data, back, heirs, history, bgs>>

----------------------------------------------------------------------------
(* The master *)

\* Mutant: room for one event.
MutWait ==
  /\ master = "wait"
  /\ LET ready == {r.ev : r \in {x \in epoll : Readable(x.pipe)}}
                  \cup (IF sig THEN {"sig"} ELSE {})
     IN  batch' \in IF ready = {} THEN {<<>>} ELSE {<<x>> : x \in ready}
  /\ master' = "fire" /\ buried' = {}
  /\ UNCHANGED <<evVars, sig, osVars, left, bgs>>

\* fpm_event_epoll_wait: what is ready, in any order.
Wait ==
  /\ master = "wait"
  /\ LET ready == {r.ev : r \in {x \in epoll : Readable(x.pipe)}}
                  \cup (IF sig THEN {"sig"} ELSE {})
     IN  batch' \in SetToSeqs(ready)
  /\ master' = "fire" /\ buried' = {}
  /\ UNCHANGED <<evVars, sig, osVars, left, bgs>>

\* fpm_stdio_child_said for the child at a: read all there is; at the end of
\* the file delete the event and close.
Said(a) ==
  LET p == child[a]
      eof == ~Written(p)
  IN  /\ data' = [data EXCEPT ![p] = FALSE]
      /\ queue' = IF eof THEN QueueDel(a) ELSE queue
      /\ epoll' = IF eof THEN EpollDel(a) ELSE epoll
      /\ index' = IF eof THEN [index EXCEPT ![a] = FALSE] ELSE index
      /\ fd' = [fd EXCEPT ![a] = ~eof]

\* The event at address a is one of a child that has its pipe.
Valid(a) == child[a] # "none" /\ fd[a]

FireChild ==
  /\ master = "fire" /\ batch # <<>> /\ Head(batch) \in Addrs
  /\ batch' = Tail(batch)
  /\ Valid(Head(batch)) /\ Said(Head(batch))
  /\ UNCHANGED <<child, master, sig, proc, back, heirs, history, bgs>>

\* The event's memory was freed, or its descriptor closed and perhaps reused.
\* What happens then is undefined, and the model goes no further.
FireStale ==
  /\ master = "fire" /\ batch # <<>> /\ Head(batch) \in Addrs
  /\ ~Valid(Head(batch))
  /\ batch' = Tail(batch)
  /\ master' = "lost"
  /\ UNCHANGED <<evVars, sig, osVars, history, bgs>>

FireSignal ==
  /\ master = "fire" /\ batch # <<>> /\ Head(batch) = "sig"
  /\ batch' = Tail(batch)
  /\ sig' = FALSE /\ master' = "bury"
  /\ UNCHANGED <<evVars, osVars, history, bgs>>

\* Mutant: the child is freed without a last look at its pipe.
MutBuryOne(a) ==
  LET p == child[a]
  IN  /\ master = "bury" /\ p # "none" /\ proc[p] = "zombie"
      /\ proc' = [proc EXCEPT ![p] = "none"]
      /\ data' = [data EXCEPT ![p] = @ /\ ~fd[a]]
      /\ epoll' = Live(epoll, Open \ {p}, heirs)
      /\ child' = [child EXCEPT ![a] = "none"]
      /\ fd' = [fd EXCEPT ![a] = FALSE]
      /\ index' = [index EXCEPT ![a] = FALSE]
      /\ buried' = buried \cup {a}
      /\ left' = IF fd[a] /\ p \in back THEN left \cup {a} ELSE left
      /\ master' = "make"
      /\ UNCHANGED <<queue, batch, sig, back, heirs, bgs>>

\* fpm_children_bury for one zombie: fpm_child_close reads the pipe a last time
\* and closes it in any case, but the event is only deleted at the end of file.
BuryOne(a) ==
  LET p == child[a]
      del == fd[a] /\ p \notin back
      now == IF del THEN EpollDel(a) ELSE epoll
  IN  /\ master = "bury" /\ p # "none" /\ proc[p] = "zombie"
      /\ proc' = [proc EXCEPT ![p] = "none"]
      /\ data' = [data EXCEPT ![p] = @ /\ ~fd[a]]
      /\ queue' = IF del THEN QueueDel(a) ELSE queue
      /\ epoll' = Live(now, Open \ {p}, heirs)
      /\ child' = [child EXCEPT ![a] = "none"]
      /\ fd' = [fd EXCEPT ![a] = FALSE]
      /\ index' = [index EXCEPT ![a] = FALSE]
      /\ buried' = buried \cup {a}
      /\ left' = IF fd[a] /\ p \in back THEN left \cup {a} ELSE left
      /\ master' = "make"
      /\ UNCHANGED <<batch, sig, back, heirs, bgs>>

BuryDone ==
  /\ master = "bury" /\ \A a \in Addrs : child[a] # "none" => proc[child[a]] # "zombie"
  /\ master' = "fire"
  /\ UNCHANGED <<evVars, batch, sig, osVars, history, bgs>>

\* fpm_children_make: a new child, at any free address; it inherits the read
\* ends that the master has open, until its Cleanup.
Make(a, p) ==
  /\ master \in {"make", "timers"}
  /\ child[a] = "none"
  /\ proc[p] = "none" /\ p \notin back /\ heirs[p] = {}
  /\ proc' = [proc EXCEPT ![p] = "run"]
  /\ data' = [data EXCEPT ![p] = FALSE]
  /\ heirs' = [r \in Procs |-> IF r \in Open THEN heirs[r] \cup {p} ELSE heirs[r]]
  /\ Watch(a, p)
  /\ master' = IF master = "make" THEN "bury" ELSE "wait"
  /\ UNCHANGED <<batch, sig, back, history, bgs>>

\* There is nothing to fork.
MakeNone ==
  /\ master \in {"make", "timers"}
  /\ master' = IF master = "make" THEN "bury" ELSE "wait"
  /\ UNCHANGED <<evVars, batch, sig, osVars, history, bgs>>

\* After the last event of the batch come the timers.
BatchDone ==
  /\ master = "fire" /\ batch = <<>>
  /\ master' = "timers"
  /\ UNCHANGED <<evVars, batch, sig, osVars, history, bgs>>

----------------------------------------------------------------------------
Init ==
  /\ child = [a \in Addrs |-> "none"]
  /\ fd = [a \in Addrs |-> FALSE] /\ index = [a \in Addrs |-> FALSE]
  /\ queue = {"sig"} /\ epoll = {}
  /\ batch = <<>> /\ master = "timers" /\ sig = FALSE
  /\ proc = [p \in Procs |-> "none"] /\ data = [p \in Procs |-> FALSE]
  /\ back = {} /\ heirs = [p \in Procs |-> {}]
  /\ buried = {} /\ left = {} /\ bgs = MaxBackground

Handler ==
  \/ FireChild \/ FireStale \/ FireSignal \/ BuryDone \/ MakeNone \/ BatchDone
  \/ \E a \in Addrs : BuryOne(a) \/ \E p \in Procs : Make(a, p)

Next ==
  \/ \E p \in Procs : \/ Write(p) \/ Cleanup(p) \/ Background(p) \/ BackgroundEnds(p)
                      \/ Exit(p) \/ Zombie(p)
  \/ Wait \/ Handler

Spec == Init /\ [][Next]_vars

\* The event loop goes round.  Workers owe nothing, except to end an exit.
FairSpec == Spec /\ WF_vars(Wait) /\ WF_vars(Handler) /\ \A p \in Procs : WF_vars(Zombie(p))

----------------------------------------------------------------------------
(* Properties *)

\* Every pipe of a living child is watched: its event is in the queue, marked as
\* registered, and registered with epoll for that pipe.  A child that malloc put
\* where one was buried with its pipe still written to (fpm_child_close without
\* fpm_event_del) is excepted: fpm_event_queue_add takes it for the old event.
Watched ==
  \A a \in Addrs \ left : Valid(a) =>
    /\ a \in queue /\ index[a]
    /\ [ev |-> a, pipe |-> child[a]] \in epoll

\* Nothing else is watched: once fpm_children_bury has freed a child, or
\* fpm_stdio_child_said has closed its pipe, neither the queue nor epoll points
\* to its event, although a new worker may still hold the read end.
NoDangling ==
  /\ \A a \in queue \ (left \cup {"sig"}) : Valid(a)
  /\ \A r \in epoll : r.ev \in left \/ (Valid(r.ev) /\ child[r.ev] = r.pipe)

\* fpm_event_epoll_wait fires the events of a batch without another look at
\* them.  One whose child is gone was buried by a signal event earlier in the
\* same batch, or was left behind with its pipe open; there is no third way.
BatchValid ==
  \A i \in DOMAIN batch :
    batch[i] # "sig" => Valid(batch[i]) \/ batch[i] \in buried \cup left

\* What a worker writes is read (fpm_stdio_child_said), as long as the event
\* loop comes round and no child is buried with its pipe still written to.
OutputRead ==
  ([]<>(master = "wait") /\ [](left = {})) => \A p \in Procs : data[p] ~> ~data[p]
============================================================================
