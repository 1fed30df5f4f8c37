-------------------------- MODULE FpmEventsProofs --------------------------
(* What the event loop watches and fires, for any number of children, workers *)
(* and background processes.                                                  *)
EXTENDS FpmEvents, FiniteSetTheorems, TLAPS

\* A listed child has a worker that is not reaped, and no two share one.
Owned ==
  /\ \A a \in Addrs : child[a] # "none" => proc[child[a]] # "none"
  /\ \A a, b \in Addrs : child[a] = child[b] /\ child[a] # "none" => a = b

\* An event is at most once in a batch.
Once == \A i, j \in DOMAIN batch : i # j => batch[i] # batch[j]

\* The properties together: they need each other.
Inv == TypeOK /\ Owned /\ Once /\ Watched /\ NoDangling /\ BatchValid

\* The rest of a batch, seen through the whole: its elements are at places of
\* the batch, other than the first.
LEMMA TailFacts ==
  ASSUME NEW S, NEW s \in Seq(S), s # <<>>
  PROVE  /\ Tail(s) \in Seq(S) /\ Head(s) \in S /\ 1 \in DOMAIN s /\ Head(s) = s[1]
         /\ \A i \in DOMAIN Tail(s) : i + 1 \in DOMAIN s /\ Tail(s)[i] = s[i + 1] /\ i + 1 # 1
         /\ \A i, j \in DOMAIN Tail(s) : i # j => i + 1 # j + 1
  OBVIOUS

\* A worker that closes what it inherited held no event: dropping the read ends
\* takes no registration from a child that has its pipe.
LEMMA GoneKeeps ==
  ASSUME TypeOK, Watched, NoDangling, NEW p \in Procs, Gone(p),
         UNCHANGED <<child, fd, index, queue, left>>
  PROVE  Watched' /\ NoDangling' /\ epoll' \subseteq epoll
         /\ heirs' \in [Procs -> SUBSET Procs]
<1>1. \A a \in Addrs : Valid(a) => child[a] \in Open
  BY Zenon DEF Valid, Open
<1> QED
  BY <1>1, Zenon DEF TypeOK, Watched, NoDangling, Gone, Live, Valid


\* fpm_stdio_child_said deletes exactly the event of the child it closes.
LEMMA SaidKeeps ==
  ASSUME Inv, NEW a \in Addrs, Valid(a), Said(a), UNCHANGED <<child, left>>
  PROVE  /\ Watched' /\ NoDangling'
         /\ \A b \in Addrs : b # a => Valid(b)' = Valid(b)
         /\ fd' \in [Addrs -> BOOLEAN] /\ index' \in [Addrs -> BOOLEAN]
         /\ queue' \subseteq queue /\ epoll' \subseteq epoll
         /\ data' \in [Procs -> BOOLEAN]
<1> USE DEF Inv
<1>1. child[a] \in Procs
  BY DEF TypeOK, Valid
<1>2. CASE Written(child[a])
  BY <1>1, <1>2 DEF Said, TypeOK, Watched, NoDangling, Valid
<1>3. CASE ~Written(child[a])
  <2>1. /\ fd' = [fd EXCEPT ![a] = FALSE] /\ index' = [index EXCEPT ![a] = FALSE]
        /\ queue' = QueueDel(a) /\ epoll' = EpollDel(a)
        /\ data' = [data EXCEPT ![child[a]] = FALSE]
    BY <1>3, Zenon DEF Said
  <2>2. ~Valid(a)' /\ \A b \in Addrs : b # a => Valid(b)' = Valid(b)
    BY <2>1 DEF Valid, TypeOK
  <2>3. Watched'
    BY <2>1, <2>2 DEF Watched, Valid, QueueDel, EpollDel, TypeOK, Owned
  <2>4. NoDangling'
    <3>1. a \notin left => index[a]
      BY Zenon DEF Watched
    <3>2. \A b \in queue' \ (left \cup {"sig"}) : b # a /\ b \in queue /\ b \in Addrs
      BY <2>1, <3>1 DEF QueueDel, TypeOK
    <3>3. \A x \in epoll' : x \in epoll /\ (x.ev \in left \/ x.ev # a)
      BY <2>1, <3>1, Zenon DEF EpollDel, NoDangling
    <3>4. \A x \in epoll : x.ev \in Addrs
      BY DEF TypeOK
    <3>5. \A b \in queue' \ (left \cup {"sig"}) : Valid(b)'
      BY <2>2, <3>2 DEF NoDangling
    <3>6. \A x \in epoll' : x.ev \in left \/ (Valid(x.ev)' /\ child[x.ev] = x.pipe)
      BY <2>2, <3>3, <3>4, Zenon DEF NoDangling
    <3> QED
      BY <3>5, <3>6, Zenon DEF NoDangling, Valid
  <2> QED
    BY <1>1, <2>1, <2>2, <2>3, <2>4 DEF TypeOK, QueueDel, EpollDel
<1> QED
  BY <1>2, <1>3

\* A batch stays good while events only become valid.
LEMMA BatchKeeps ==
  ASSUME TypeOK, Once, BatchValid, UNCHANGED <<batch, buried, left>>,
         \A b \in Addrs : Valid(b) => Valid(b)'
  PROVE  Once' /\ BatchValid'
<1>1. \A i \in DOMAIN batch : batch[i] \in Addrs \cup {"sig"}
  BY DEF TypeOK
<1> QED
  BY <1>1 DEF Once, BatchValid

\* A new child is registered, unless its address was left in the queue.
LEMMA MakeKeeps ==
  ASSUME Inv, NEW a \in Addrs, NEW p \in Procs, Make(a, p)
  PROVE  Inv'
<1> USE ModelAssumption DEF Inv
<1>1. \A b \in Addrs : child[b] # p
  BY Zenon DEF Owned, Make
<1>2. /\ child' = [child EXCEPT ![a] = p] /\ fd' = [fd EXCEPT ![a] = TRUE]
      /\ queue' = queue \cup {a} /\ index' = [index EXCEPT ![a] = a \notin queue]
      /\ epoll' = IF a \in queue THEN epoll ELSE epoll \cup {[ev |-> a, pipe |-> p]}
  BY DEF Make, Watch
<1>3. ~Valid(a) /\ Valid(a)' /\ \A b \in Addrs : b # a => Valid(b)' = Valid(b)
  BY <1>2 DEF Valid, Make, TypeOK
<1>4. a \notin left => a \notin queue
  BY <1>3, Zenon DEF NoDangling
<1>5. TypeOK'
  <2>1. heirs' \in [Procs -> SUBSET Procs]
    BY Zenon DEF Make, TypeOK
  <2>2. proc' \in [Procs -> {"none", "run", "exiting", "zombie"}] /\ data' \in [Procs -> BOOLEAN]
    BY Zenon DEF Make, TypeOK
  <2>3. index' \in [Addrs -> BOOLEAN]
    BY <1>2, Zenon DEF TypeOK
  <2>4. child' \in [Addrs -> Procs \cup {"none"}] /\ fd' \in [Addrs -> BOOLEAN]
    BY <1>2 DEF TypeOK
  <2>5. queue' \subseteq Addrs \cup {"sig"} /\ epoll' \subseteq [ev : Addrs, pipe : Procs]
    BY <1>2 DEF TypeOK
  <2>6. master' \in {"bury", "wait"}
    BY DEF Make, history
  <2> QED
    BY <2>1, <2>2, <2>3, <2>4, <2>5, <2>6, SMTT(30) DEF Make, TypeOK, history
<1>6. Owned'
  BY <1>1, <1>2, Zenon DEF Owned, Make, TypeOK
<1>7. Watched'
  <2>0. left' = left
    BY DEF Make, history
  <2> SUFFICES ASSUME NEW b \in Addrs, b \notin left, Valid(b)'
               PROVE  /\ b \in queue' /\ index'[b]
                      /\ [ev |-> b, pipe |-> child'[b]] \in epoll'
    BY <2>0 DEF Watched
  <2>1. CASE b = a
    BY <1>2, <1>4, <2>1, Zenon DEF TypeOK
  <2>2. CASE b # a
    BY <1>2, <1>3, <2>2 DEF Watched, TypeOK
  <2> QED
    BY <2>1, <2>2, Zenon
<1>8. NoDangling'
  <2>0. left' = left
    BY Zenon DEF Make, history
  <2>1. \A b \in queue' \ (left \cup {"sig"}) : Valid(b)'
    BY <1>2, <1>3 DEF NoDangling, TypeOK
  <2>2. ASSUME NEW x \in epoll', x.ev \notin left
        PROVE  Valid(x.ev)' /\ child'[x.ev] = x.pipe
    <3>1. CASE x = [ev |-> a, pipe |-> p]
      BY <1>2, <1>3, <3>1, Zenon DEF TypeOK
    <3>2. CASE x \in epoll
      BY <1>2, <1>3, <2>2, <3>2 DEF NoDangling, TypeOK
    <3> QED
      BY <1>2, <3>1, <3>2
  <2> QED
    BY <2>0, <2>1, <2>2 DEF NoDangling
<1>9. Once' /\ BatchValid'
  BY <1>3, BatchKeeps DEF Make, history
<1> QED
  BY <1>5, <1>6, <1>7, <1>8, <1>9, SMTT(30)

\* A child is freed: its event is gone with it, or its address is in left.
LEMMA BuryKeeps ==
  ASSUME Inv, NEW a \in Addrs, BuryOne(a)
  PROVE  Inv'
<1> USE ModelAssumption DEF Inv
<1> DEFINE p == child[a]
           del == fd[a] /\ p \notin back
           now == IF del THEN EpollDel(a) ELSE epoll
<1>1. /\ p \in Procs /\ child' = [child EXCEPT ![a] = "none"]
      /\ fd' = [fd EXCEPT ![a] = FALSE] /\ index' = [index EXCEPT ![a] = FALSE]
      /\ queue' = (IF del THEN QueueDel(a) ELSE queue)
      /\ epoll' = Live(now, Open \ {p}, heirs)
      /\ left' = (IF fd[a] /\ p \in back THEN left \cup {a} ELSE left)
      /\ proc' = [proc EXCEPT ![p] = "none"]
  BY DEF BuryOne, TypeOK
<1>2. ~Valid(a)' /\ \A b \in Addrs : b # a => Valid(b)' = Valid(b) /\ child'[b] = child[b]
  BY <1>1 DEF Valid, TypeOK
<1>3. \A b \in Addrs : b # a /\ Valid(b) => child[b] # p /\ child[b] \in Open \ {p}
  BY <1>1, Zenon DEF Valid, Open, Owned
<1>4. now \subseteq epoll /\ \A r \in epoll : r.pipe # p => r \in now
  BY DEF EpollDel
<1>5. TypeOK'
  <2>1. data' \in [Procs -> BOOLEAN]
    BY Zenon DEF BuryOne, TypeOK
  <2>2. queue' \subseteq queue /\ epoll' \subseteq epoll
    BY <1>1, <1>4 DEF QueueDel, Live
  <2>3. /\ child' \in [Addrs -> Procs \cup {"none"}] /\ fd' \in [Addrs -> BOOLEAN]
        /\ index' \in [Addrs -> BOOLEAN]
        /\ proc' \in [Procs -> {"none", "run", "exiting", "zombie"}]
    BY <1>1 DEF TypeOK
  <2>4. buried' \subseteq Addrs /\ left' \subseteq Addrs
    BY <1>1 DEF BuryOne, TypeOK
  <2> QED
    BY <2>1, <2>2, <2>3, <2>4, Zenon DEF BuryOne, TypeOK
<1>6. Owned'
  BY <1>1 DEF Owned, TypeOK
<1>7. Watched'
  <2> SUFFICES ASSUME NEW b \in Addrs, b \notin left', Valid(b)'
               PROVE  /\ b \in queue' /\ index'[b]
                      /\ [ev |-> b, pipe |-> child'[b]] \in epoll'
    BY DEF Watched
  <2>1. b # a /\ b \notin left /\ Valid(b)
    BY <1>1, <1>2
  <2>2. b \in queue /\ index[b] /\ [ev |-> b, pipe |-> child[b]] \in epoll
    BY <2>1, Zenon DEF Watched
  <2>3. [ev |-> b, pipe |-> child[b]] \in now /\ child[b] \in Open \ {p}
    BY <1>3, <1>4, <2>1, <2>2
  <2>4. [ev |-> b, pipe |-> child[b]] \in epoll'
    BY <1>1, <2>3 DEF Live
  <2> QED
    BY <1>1, <1>2, <2>1, <2>2, <2>4, Zenon DEF QueueDel, TypeOK
<1>8. NoDangling'
  <2>1. CASE a \in left'
    BY <1>1, <1>2, <1>4, <2>1 DEF NoDangling, QueueDel, Live, TypeOK
  <2>2. CASE a \notin left'
    <3>1. a \notin left /\ (fd[a] => del)
      BY <1>1, <2>2
    <3>2. fd[a] => index[a]
      BY <1>1, <3>1, ModelAssumption, Zenon DEF Watched, Valid
    <3>3. a \notin queue'
      BY <1>1, <3>1, <3>2, Zenon DEF NoDangling, QueueDel, Valid
    <3>4. \A r \in epoll' : r.ev # a /\ r \in epoll
      BY <1>1, <1>4, <3>1, <3>2 DEF NoDangling, EpollDel, Valid, Live
    <3>5. left' = left /\ queue' \subseteq queue
      BY <1>1, <2>2, Zenon DEF QueueDel
    <3>6. \A b \in queue' \ (left \cup {"sig"}) : Valid(b)'
      BY <1>2, <3>3, <3>5 DEF NoDangling, TypeOK
    <3>7. \A x \in epoll : x.ev \in Addrs
      BY DEF TypeOK
    <3>8. \A x \in epoll' : x.ev \in left \/ (Valid(x.ev)' /\ child'[x.ev] = x.pipe)
      BY <1>2, <3>4, <3>7, Zenon DEF NoDangling
    <3> QED
      BY <3>5, <3>6, <3>8, Zenon DEF NoDangling
  <2> QED
    BY <2>1, <2>2, Zenon
<1>9. Once' /\ BatchValid'
  <2>1. batch' = batch /\ buried' = buried \cup {a} /\ left \subseteq left'
    BY <1>1 DEF BuryOne
  <2>2. Once'
    BY <2>1, Zenon DEF Once
  <2>3. \A i \in DOMAIN batch : batch[i] \in Addrs \cup {"sig"}
    BY DEF TypeOK
  <2> QED
    BY <1>2, <2>1, <2>2, <2>3, SMTT(30) DEF BatchValid
<1> QED
  BY <1>5, <1>6, <1>7, <1>8, <1>9, SMTT(30)

\* Firing takes the first event of the batch, and only that one may change.
LEMMA FireKeeps ==
  ASSUME Inv, NEW x, batch # <<>>, x = Head(batch), batch' = Tail(batch),
         UNCHANGED history, \A b \in Addrs : b # x /\ Valid(b) => Valid(b)'
  PROVE  Once' /\ BatchValid' /\ batch' \in Seq(Addrs \cup {"sig"})
<1> USE DEF Inv
<1>1. batch \in Seq(Addrs \cup {"sig"})
  BY Zenon DEF TypeOK
<1>2. /\ batch' \in Seq(Addrs \cup {"sig"}) /\ 1 \in DOMAIN batch /\ x = batch[1]
      /\ \A i \in DOMAIN batch' : i + 1 \in DOMAIN batch /\ batch'[i] = batch[i + 1] /\ i + 1 # 1
      /\ \A i, j \in DOMAIN batch' : i # j => i + 1 # j + 1
  BY <1>1, TailFacts
<1>3. Once'
  BY <1>2 DEF Once
<1>4. \A i \in DOMAIN batch' : batch'[i] # x /\ batch'[i] \in Addrs \cup {"sig"}
  BY <1>1, <1>2 DEF Once
<1>5. BatchValid'
  BY <1>2, <1>4, Zenon DEF BatchValid, history
<1> QED
  BY <1>2, <1>3, <1>5

\* A function on 1 .. n is a sequence.
LEMMA IsASeq ==
  ASSUME NEW S, NEW n \in Nat, NEW f \in [1 .. n -> S]
  PROVE  f \in Seq(S)
  OBVIOUS

\* epoll_wait reports each registered event at most once, and all are valid.
LEMMA WaitKeeps ==
  ASSUME Inv, Wait
  PROVE  Inv'
<1> USE ModelAssumption DEF Inv
<1> DEFINE ready == {r.ev : r \in {x \in epoll : Readable(x.pipe)}}
                    \cup (IF sig THEN {"sig"} ELSE {})
<1>1. batch' \in SetToSeqs(ready) /\ UNCHANGED <<evVars, left>>
  BY DEF Wait
<1>2. ready \subseteq Addrs \cup {"sig"}
  BY DEF TypeOK
<1>3. IsFiniteSet(Addrs \cup {"sig"})
  BY FS_AddElement
<1>4. IsFiniteSet(ready)
  BY <1>2, <1>3, FS_Subset, Zenon
<1>5. Cardinality(ready) \in Nat
  BY <1>4, FS_CardinalityType
<1>6. /\ batch' \in [1 .. Cardinality(ready) -> ready]
      /\ \A i, j \in 1 .. Cardinality(ready) : i # j => batch'[i] # batch'[j]
  BY <1>1 DEF SetToSeqs
<1>7. batch' \in Seq(Addrs \cup {"sig"})
  <2>1. batch' \in [1 .. Cardinality(ready) -> Addrs \cup {"sig"}]
    BY <1>2, <1>6
  <2>2. \A n \in Nat : \A f \in [1 .. n -> Addrs \cup {"sig"}] : f \in Seq(Addrs \cup {"sig"})
    BY IsASeq
  <2> QED
    BY <1>5, <2>1, <2>2, Zenon
<1>8. TypeOK'
  BY <1>7, Zenon DEF TypeOK, Wait, evVars, osVars
<1>9. Owned' /\ Watched' /\ NoDangling'
  BY DEF Wait, Owned, Watched, NoDangling, Valid, evVars, osVars
<1>10. Once'
  BY <1>6 DEF Once
<1>11. \A x \in ready : x # "sig" => Valid(x) \/ x \in left
  BY DEF NoDangling
<1>12. BatchValid'
  BY <1>1, <1>6, <1>11, SMTT(30) DEF BatchValid, Valid, evVars
<1> QED
  BY <1>8, <1>9, <1>10, <1>12, SMTT(30)

\* Steps that leave the events, the batch and the history alone.
LEMMA EventsSame ==
  ASSUME Inv, UNCHANGED <<child, fd, index, queue, epoll, batch, history>>, TypeOK', Owned'
  PROVE  Inv'
  BY DEF Inv, Once, Watched, NoDangling, BatchValid, Valid, history

\* The processes act.
LEMMA ProcsKeep ==
  ASSUME Inv, NEW p \in Procs,
         Write(p) \/ Cleanup(p) \/ Background(p) \/ BackgroundEnds(p) \/ Exit(p) \/ Zombie(p)
  PROVE  Inv'
<1> USE ModelAssumption
<1>0. TypeOK /\ Owned /\ Once /\ Watched /\ NoDangling /\ BatchValid
  BY DEF Inv
<1>1. CASE Write(p)
  <2>1. TypeOK' /\ Owned'
    BY <1>0, <1>1 DEF Write, TypeOK, Owned, evVars, loopVars, history
  <2> QED
    BY <1>1, <2>1, EventsSame DEF Write, evVars, loopVars
<1>2. CASE Background(p)
  <2>1. TypeOK' /\ Owned'
    BY <1>0, <1>2 DEF Background, TypeOK, Owned, evVars, loopVars, history
  <2> QED
    BY <1>2, <2>1, EventsSame, Zenon DEF Background, evVars, loopVars
<1>3. CASE Zombie(p)
  <2>1. TypeOK' /\ Owned'
    BY <1>0, <1>3 DEF Zombie, TypeOK, Owned, evVars, loopVars, history
  <2> QED
    BY <1>3, <2>1, EventsSame, Zenon DEF Zombie, evVars, loopVars
<1>4. CASE BackgroundEnds(p)
  <2>1. TypeOK' /\ Owned'
    BY <1>0, <1>4 DEF BackgroundEnds, TypeOK, Owned, evVars, loopVars, history
  <2> QED
    BY <1>4, <2>1, EventsSame, Zenon DEF BackgroundEnds, evVars, loopVars
<1>5. ASSUME Cleanup(p) \/ Exit(p)
      PROVE  Inv'
  <2>1. UNCHANGED <<child, fd, index, queue, batch, history>> /\ master' = master
    BY <1>5 DEF Cleanup, Exit, loopVars
  <2>2. Gone(p)
    BY <1>5 DEF Cleanup, Exit
  <2>3. /\ Watched' /\ NoDangling' /\ epoll' \subseteq epoll
        /\ heirs' \in [Procs -> SUBSET Procs]
    BY <1>0, <2>1, <2>2, GoneKeeps, SMTT(30) DEF history
  <2>4. \A a \in Addrs : Valid(a) => Valid(a)'
    BY <2>1 DEF Valid
  <2>5. Once' /\ BatchValid'
    BY <1>0, <2>1, <2>4, BatchKeeps, SMTT(30) DEF history
  <2>6. /\ proc' \in [Procs -> {"none", "run", "exiting", "zombie"}]
        /\ back' \subseteq Procs /\ data' = data /\ sig' = sig /\ bgs' = bgs
        /\ \A q \in Procs : proc[q] # "none" => proc'[q] # "none"
    BY <1>0, <1>5 DEF Cleanup, Exit, TypeOK
  <2>7. TypeOK'
    BY <1>0, <2>1, <2>3, <2>6, SMTT(30) DEF TypeOK, history
  <2>8. Owned'
    BY <1>0, <2>1, <2>6 DEF Owned, TypeOK
  <2> QED
    BY <2>3, <2>5, <2>7, <2>8, SMTT(30) DEF Inv
<1> QED
  BY <1>1, <1>2, <1>3, <1>4, <1>5

\* The inductive step: one case for each action.
LEMMA InvNext == Inv /\ [Next]_vars => Inv'
<1> USE ModelAssumption
<1> SUFFICES ASSUME Inv, [Next]_vars
             PROVE  Inv'
  OBVIOUS
<1>0. TypeOK /\ Owned /\ Once /\ Watched /\ NoDangling /\ BatchValid
  BY DEF Inv
<1>1. CASE UNCHANGED vars
  <2>1. TypeOK' /\ Owned'
    BY <1>0, <1>1 DEF vars, TypeOK, Owned, evVars, loopVars, osVars, history
  <2> QED
    BY <1>1, <2>1, EventsSame DEF vars, evVars, loopVars
<1>2. CASE Wait
  BY <1>2, WaitKeeps
<1>3. CASE FireChild
  <2> DEFINE a == Head(batch)
  <2>1. /\ a \in Addrs /\ Valid(a) /\ Said(a) /\ batch # <<>> /\ batch' = Tail(batch)
        /\ UNCHANGED <<child, master, sig, proc, back, heirs, history, bgs>>
    BY <1>3, Zenon DEF FireChild
  <2>2. left' = left
    BY <2>1, Zenon DEF history
  <2> HIDE DEF a
  <2>3. /\ Watched' /\ NoDangling'
        /\ \A b \in Addrs : b # a => Valid(b)' = Valid(b)
        /\ fd' \in [Addrs -> BOOLEAN] /\ index' \in [Addrs -> BOOLEAN]
        /\ queue' \subseteq queue /\ epoll' \subseteq epoll
        /\ data' \in [Procs -> BOOLEAN]
    BY <2>1, <2>2, SaidKeeps
  <2>4. a = Head(batch)
    BY DEF a
  <2>5. Once' /\ BatchValid' /\ batch' \in Seq(Addrs \cup {"sig"})
    BY <2>1, <2>3, <2>4, FireKeeps, SMTT(30)
  <2>6. TypeOK' /\ Owned'
    BY <1>0, <2>1, <2>3, <2>5 DEF TypeOK, Owned, history
  <2> QED
    BY <2>3, <2>5, <2>6 DEF Inv
<1>4. ASSUME FireStale \/ FireSignal
      PROVE  Inv'
  <2>1. /\ batch # <<>> /\ batch' = Tail(batch) /\ master' \in {"lost", "bury"}
        /\ sig' \in {FALSE, sig} /\ UNCHANGED <<evVars, osVars, history, bgs>>
    BY <1>4, Zenon DEF FireStale, FireSignal
  <2>2. \A b \in Addrs : Valid(b)' = Valid(b)
    BY <2>1 DEF Valid, evVars
  <2>3. Once' /\ BatchValid' /\ batch' \in Seq(Addrs \cup {"sig"})
    BY <2>1, <2>2, FireKeeps, Zenon
  <2>4. TypeOK' /\ Owned' /\ Watched' /\ NoDangling'
    BY <1>0, <2>1, <2>3, Zenon DEF TypeOK, Owned, Watched, NoDangling, Valid, evVars, osVars, history
  <2> QED
    BY <2>3, <2>4, Zenon DEF Inv
<1>5. ASSUME BuryDone \/ MakeNone \/ BatchDone
      PROVE  Inv'
  <2>1. /\ master' \in {"fire", "bury", "wait", "timers"}
        /\ UNCHANGED <<evVars, batch, sig, osVars, history, bgs>>
    BY <1>5 DEF BuryDone, MakeNone, BatchDone
  <2>2. TypeOK' /\ Owned'
    BY <1>0, <2>1 DEF TypeOK, Owned, evVars, osVars, history
  <2> QED
    BY <2>1, <2>2, EventsSame DEF evVars
<1>6. ASSUME NEW a \in Addrs, BuryOne(a)
      PROVE  Inv'
  BY <1>6, BuryKeeps, Zenon
<1>7. ASSUME NEW a \in Addrs, NEW p \in Procs, Make(a, p)
      PROVE  Inv'
  BY <1>7, MakeKeeps
<1>8. ASSUME NEW p \in Procs,
             Write(p) \/ Cleanup(p) \/ Background(p) \/ BackgroundEnds(p) \/ Exit(p) \/ Zombie(p)
      PROVE  Inv'
  BY <1>8, ProcsKeep
<1> QED
  BY <1>1, <1>2, <1>3, <1>4, <1>5, <1>6, <1>7, <1>8, SMTT(30) DEF Next, Handler

LEMMA InvInit == Init => Inv
<1> SUFFICES ASSUME Init
             PROVE  Inv
  OBVIOUS
<1>1. batch \in Seq(Addrs \cup {"sig"}) /\ DOMAIN batch = {}
  BY DEF Init
<1>2. TypeOK
  <2>1. /\ child \in [Addrs -> Procs \cup {"none"}] /\ heirs \in [Procs -> SUBSET Procs]
        /\ fd \in [Addrs -> BOOLEAN] /\ index \in [Addrs -> BOOLEAN]
        /\ data \in [Procs -> BOOLEAN]
        /\ proc \in [Procs -> {"none", "run", "exiting", "zombie"}]
    BY DEF Init
  <2>2. /\ queue \subseteq Addrs \cup {"sig"} /\ epoll \subseteq [ev : Addrs, pipe : Procs]
        /\ back \subseteq Procs /\ buried \subseteq Addrs /\ left \subseteq Addrs
    BY DEF Init
  <2>3. sig \in BOOLEAN /\ master = "timers" /\ bgs = MaxBackground
    BY Zenon DEF Init
  <2>4. MaxBackground \in 0 .. MaxBackground
    BY ModelAssumption
  <2> QED
    BY <1>1, <2>1, <2>2, <2>3, <2>4, SMTT(30) DEF TypeOK
<1>3. Owned /\ Watched /\ NoDangling
  BY ModelAssumption DEF Init, Owned, Watched, NoDangling, Valid
<1>4. Once /\ BatchValid
  BY <1>1, Zenon DEF Once, BatchValid
<1> QED
  BY <1>2, <1>3, <1>4, Zenon DEF Inv

LEMMA InvAlways == Spec => []Inv
  BY InvInit, InvNext, PTL DEF Spec

\* The variables have their types in every reachable state.
THEOREM EventsTyped == Spec => []TypeOK
<1>1. Inv => TypeOK
  BY DEF Inv
<1> QED
  BY <1>1, InvAlways, PTL

\* fpm_event_add always registers the pipe of a new child, except at an address
\* that fpm_child_close left in the queue.
THEOREM PipesAreWatched == Spec => []Watched
<1>1. Inv => Watched
  BY DEF Inv
<1> QED
  BY <1>1, InvAlways, PTL

\* No entry of the queue or of epoll outlives its child, with the same exception.
THEOREM NothingDangles == Spec => []NoDangling
<1>1. Inv => NoDangling
  BY Zenon DEF Inv
<1> QED
  BY <1>1, InvAlways, PTL

\* fpm_event_epoll_wait meets a freed event only behind a burial in the same
\* batch, or at an address left in the queue.
THEOREM BatchesAreValid == Spec => []BatchValid
<1>1. Inv => BatchValid
  BY Zenon DEF Inv
<1> QED
  BY <1>1, InvAlways, PTL
============================================================================
