---------------------------- MODULE ZendGcPhases ----------------------------
(***************************************************************************)
(* The three phases of one gc_collect_cycles, step by step, up to the list *)
(* of zvals to destroy.  Scripts do not run in between, so what refers to  *)
(* what stays the same; the counts of references are taken apart and put   *)
(* together again.  The recursive functions of zend_gc.c are loops over a  *)
(* stack of references that are still to be followed, in the order of the  *)
(* code.  Zvals and objects are both nodes: they have the same fields, and *)
(* the code takes the same steps for each.  The collection does not run    *)
(* inside the end of another one, nothing refers to $GLOBALS, and an       *)
(* object has either declared or dynamic properties.                       *)
(***************************************************************************)
EXTENDS Integers, Sequences, FiniteSets

CONSTANTS
  Arrays,       \* zvals that are arrays, or values that have no elements
  ObjectZvals,  \* zvals that show an object
  Objects,      \* entries of the object store
  MaxElems,     \* bound: elements of an array or properties of an object
  MaxRefs,      \* bound: references from all nodes
  MaxExtra,     \* bound: other references to one node
  MaxBuffered   \* GC_ROOT_BUFFER_MAX_ENTRIES

Values == Arrays \cup ObjectZvals
Containers == Arrays \cup Objects
Nodes == Values \cup Objects

ASSUME PhasesAssumption ==
  /\ IsFiniteSet(Nodes)
  /\ Arrays \cap ObjectZvals = {} /\ Values \cap Objects = {}
  /\ MaxElems \in Nat \ {0} /\ MaxRefs \in Nat /\ MaxExtra \in Nat /\ MaxBuffered \in Nat

VARIABLES
  refs,     \* elements of an array, the object of a zval, properties of an object
  extra,    \* how many references the collector does not see: variables, temporaries
  began,    \* the buffer when the collection began
  rc,       \* refcount__gc, or refcount of an object
  col,      \* colour
  buf,      \* the rest of u.buffered: no address, one in the buffer, or u.next
  roots,    \* GC_G(roots)
  to_free,  \* GC_G(zval_to_free)
  phase,    \* mark, scan, collect, or done
  current,  \* the roots that the loop of the phase has still to look at
  todo,     \* references to follow, those of the innermost call first
  blacken   \* the same for the calls of scan_black, which end before scan goes on

graphVars == <<refs, extra, began>>
phaseVars == <<graphVars, rc, col, buf, roots, to_free, phase, current, todo, blacken>>

Members(s) == {s[i] : i \in DOMAIN s}
Distinct(s) == \A i, j \in DOMAIN s : s[i] = s[j] => i = j
SeqsUpTo(S, n) == UNION {[1 .. k -> S] : k \in 0 .. n}

\* A reference is the node that has it and its place there.
Refs == {e \in Nodes \X (1 .. MaxElems) : e[2] <= Len(refs[e[1]])}
To == [e \in Refs |-> refs[e[1]][e[2]]]
Into == [n \in Nodes |-> {e \in Refs : To[e] = n}]
RefsOf == [n \in Nodes |-> [i \in 1 .. Len(refs[n]) |-> <<n, i>>]]

----------------------------------------------------------------------------
(* Marking *)

\* gc_remove_from_buffer.
Without(s, r) ==
  LET k == CHOOSE k \in DOMAIN s : s[k] = r
  IN  [i \in 1 .. Len(s) - 1 |-> IF i < k THEN s[i] ELSE s[i + 1]]

\* Mutant: a root is marked whatever its colour, so one that another root has
\* reached stays in the buffer.
MutMarkRootAny ==
  /\ phase = "mark" /\ todo = <<>> /\ current # <<>>
  /\ current' = Tail(current)
  /\ col' = [col EXCEPT ![Head(current)] = "grey"] /\ todo' = RefsOf[Head(current)]
  /\ UNCHANGED <<graphVars, rc, buf, roots, to_free, phase, blacken>>

\* Mutant: a dropped root keeps the address of its entry.
MutMarkRootKeep ==
  LET r == Head(current)
  IN  /\ phase = "mark" /\ todo = <<>> /\ current # <<>>
      /\ current' = Tail(current)
      /\ \/ /\ col[r] = "purple"
            /\ col' = [col EXCEPT ![r] = "grey"] /\ todo' = RefsOf[r]
            /\ UNCHANGED roots
         \/ /\ col[r] # "purple"
            /\ roots' = Without(roots, r) /\ UNCHANGED <<col, todo>>
      /\ UNCHANGED <<graphVars, rc, buf, to_free, phase, blacken>>

\* One root of gc_mark_roots: it is marked, or dropped since another one reached it.
mark_root ==
  LET r == Head(current)
  IN  /\ phase = "mark" /\ todo = <<>> /\ current # <<>>
      /\ current' = Tail(current)
      /\ \/ /\ col[r] = "purple"
            /\ col' = [col EXCEPT ![r] = "grey"] /\ todo' = RefsOf[r]
            /\ UNCHANGED <<buf, roots>>
         \/ /\ col[r] # "purple"
            /\ buf' = [buf EXCEPT ![r] = "none"] /\ roots' = Without(roots, r)
            /\ UNCHANGED <<col, todo>>
      /\ UNCHANGED <<graphVars, rc, to_free, phase, blacken>>

\* zval_mark_grey and zobj_mark_grey take off the references of what they reach.
mark_grey ==
  LET n == To[Head(todo)]
  IN  /\ phase = "mark" /\ todo # <<>>
      /\ rc' = [rc EXCEPT ![n] = @ - 1]
      /\ col' = [col EXCEPT ![n] = "grey"]
      /\ todo' = (IF col[n] = "grey" THEN <<>> ELSE RefsOf[n]) \o Tail(todo)
      /\ UNCHANGED <<graphVars, buf, roots, to_free, phase, current, blacken>>

mark_done ==
  /\ phase = "mark" /\ todo = <<>> /\ current = <<>>
  /\ phase' = "scan" /\ current' = roots
  /\ UNCHANGED <<graphVars, rc, col, buf, roots, to_free, todo, blacken>>

----------------------------------------------------------------------------
(* Scanning *)

\* zval_scan and zobj_scan at n; q is what is to be scanned after its references.
Scan(n, q) ==
  \/ /\ col[n] # "grey"
     /\ todo' = q /\ UNCHANGED <<col, blacken>>
  \/ /\ col[n] = "grey" /\ rc[n] > 0
     /\ col' = [col EXCEPT ![n] = "black"] /\ blacken' = RefsOf[n] /\ todo' = q
  \/ /\ col[n] = "grey" /\ rc[n] <= 0
     /\ col' = [col EXCEPT ![n] = "white"] /\ todo' = RefsOf[n] \o q /\ UNCHANGED blacken

scan_root ==
  /\ phase = "scan" /\ blacken = <<>> /\ todo = <<>> /\ current # <<>>
  /\ current' = Tail(current)
  /\ Scan(Head(current), <<>>)
  /\ UNCHANGED <<graphVars, rc, buf, roots, to_free, phase>>

scan ==
  /\ phase = "scan" /\ blacken = <<>> /\ todo # <<>>
  /\ Scan(To[Head(todo)], Tail(todo))
  /\ UNCHANGED <<graphVars, rc, buf, roots, to_free, phase, current>>

\* Mutant: what was found white before is not looked at again.
MutScanBlack ==
  LET n == To[Head(blacken)]
  IN  /\ phase = "scan" /\ blacken # <<>>
      /\ rc' = [rc EXCEPT ![n] = @ + 1]
      /\ col' = [col EXCEPT ![n] = IF @ = "grey" THEN "black" ELSE @]
      /\ blacken' = (IF col[n] = "grey" THEN RefsOf[n] ELSE <<>>) \o Tail(blacken)
      /\ UNCHANGED <<graphVars, buf, roots, to_free, phase, current, todo>>

\* zval_scan_black and zobj_scan_black give back the references of what is in use.
scan_black ==
  LET n == To[Head(blacken)]
  IN  /\ phase = "scan" /\ blacken # <<>>
      /\ rc' = [rc EXCEPT ![n] = @ + 1]
      /\ col' = [col EXCEPT ![n] = "black"]
      /\ blacken' = (IF col[n] = "black" THEN <<>> ELSE RefsOf[n]) \o Tail(blacken)
      /\ UNCHANGED <<graphVars, buf, roots, to_free, phase, current, todo>>

scan_done ==
  /\ phase = "scan" /\ blacken = <<>> /\ todo = <<>> /\ current = <<>>
  /\ phase' = "collect" /\ current' = roots
  /\ UNCHANGED <<graphVars, rc, col, buf, roots, to_free, todo, blacken>>

----------------------------------------------------------------------------
(* Collecting *)

\* Mutant: the list is made in the other order.
MutCollectLast(n, k, b, q) ==
  \/ /\ ~(col[n] = "white" /\ b[n] = "none")
     /\ todo' = q /\ rc' = k /\ buf' = b /\ UNCHANGED <<col, to_free>>
  \/ /\ col[n] = "white" /\ b[n] = "none" /\ n \in Values
     /\ todo' = RefsOf[n] \o q
     /\ rc' = [k EXCEPT ![n] = @ + 1] /\ buf' = [b EXCEPT ![n] = "list"]
     /\ col' = [col EXCEPT ![n] = "black"] /\ to_free' = Append(to_free, n)
  \/ /\ col[n] = "white" /\ b[n] = "none" /\ n \in Objects
     /\ todo' = RefsOf[n] \o q
     /\ rc' = k /\ buf' = b
     /\ col' = [col EXCEPT ![n] = "purple"] /\ UNCHANGED to_free

\* zval_collect_white and zobj_collect_white at n, with counts k and addresses b.
\* A white zval goes on the list, which has a reference of its own to it.  Purple
\* keeps a collection that runs inside the destruction from buffering the object.
Collect(n, k, b, q) ==
  \/ /\ ~(col[n] = "white" /\ b[n] = "none")
     /\ todo' = q /\ rc' = k /\ buf' = b /\ UNCHANGED <<col, to_free>>
  \/ /\ col[n] = "white" /\ b[n] = "none" /\ n \in Values
     /\ todo' = RefsOf[n] \o q
     /\ rc' = [k EXCEPT ![n] = @ + 1] /\ buf' = [b EXCEPT ![n] = "list"]
     /\ col' = [col EXCEPT ![n] = "black"] /\ to_free' = <<n>> \o to_free
  \/ /\ col[n] = "white" /\ b[n] = "none" /\ n \in Objects
     /\ todo' = RefsOf[n] \o q
     /\ rc' = k /\ buf' = b
     /\ col' = [col EXCEPT ![n] = "purple"] /\ UNCHANGED to_free

\* One root of gc_collect_roots, which empties the buffer.  The entry leaves it after
\* the call for the root, which does not look at the buffer.
collect_root ==
  LET r == Head(current)
  IN  /\ phase = "collect" /\ todo = <<>> /\ current # <<>>
      /\ current' = Tail(current) /\ roots' = Without(roots, r)
      /\ Collect(r, rc, [buf EXCEPT ![r] = "none"], <<>>)
      /\ UNCHANGED <<graphVars, phase, blacken>>

\* Mutant: a reference is given back only to what is white.
MutCollectWhite ==
  LET n == To[Head(todo)]
  IN  /\ phase = "collect" /\ todo # <<>>
      /\ Collect(n, IF n \in Values /\ col[n] = "white" THEN [rc EXCEPT ![n] = @ + 1] ELSE rc,
                 buf, Tail(todo))
      /\ UNCHANGED <<graphVars, roots, phase, current, blacken>>

\* The reference of a zval to its object is not given back.
collect_white ==
  LET n == To[Head(todo)]
  IN  /\ phase = "collect" /\ todo # <<>>
      /\ Collect(n, IF n \in Values THEN [rc EXCEPT ![n] = @ + 1] ELSE rc, buf, Tail(todo))
      /\ UNCHANGED <<graphVars, roots, phase, current, blacken>>

collect_done ==
  /\ phase = "collect" /\ todo = <<>> /\ current = <<>>
  /\ phase' = "done"
  /\ UNCHANGED <<graphVars, rc, col, buf, roots, to_free, current, todo, blacken>>

----------------------------------------------------------------------------

\* Scripts have left any graph in which everything is referred to, with exact
\* counts, and any zvals and objects in the buffer: assigning in place may make an
\* array in the buffer something else.  Left out is a collection that starts while
\* unset() drops a declared property which still refers to its value.
PhasesInit ==
  /\ \E f \in [Containers -> SeqsUpTo(Values, MaxElems)], s \in [ObjectZvals -> Objects] :
       refs = [n \in Nodes |-> IF n \in ObjectZvals THEN <<s[n]>> ELSE f[n]]
  /\ Cardinality(Refs) <= MaxRefs
  /\ extra \in [Nodes -> 0 .. MaxExtra]
  /\ rc = [n \in Nodes |-> extra[n] + Cardinality(Into[n])]
  /\ \A n \in Nodes : rc[n] > 0
  /\ began \in {s \in SeqsUpTo(Nodes, MaxBuffered) : Distinct(s)}
  /\ roots = began /\ current = began
  /\ col = [n \in Nodes |-> IF n \in Members(began) THEN "purple" ELSE "black"]
  /\ buf = [n \in Nodes |-> IF n \in Members(began) THEN "root" ELSE "none"]
  /\ phase = "mark" /\ todo = <<>> /\ blacken = <<>> /\ to_free = <<>>

PhasesNext ==
  \/ mark_root \/ mark_grey \/ mark_done
  \/ scan_root \/ scan \/ scan_black \/ scan_done
  \/ collect_root \/ collect_white \/ collect_done

PhasesSpec == PhasesInit /\ [][PhasesNext]_phaseVars

----------------------------------------------------------------------------
(* Properties *)

GraphOK ==
  /\ refs \in [Nodes -> Seq(Nodes)] /\ extra \in [Nodes -> Nat] /\ began \in Seq(Nodes)
  /\ \A n \in Nodes : Len(refs[n]) <= MaxElems
  /\ \A e \in Refs : To[e] \in Objects <=> e[1] \in ObjectZvals

PhasesTypeOK ==
  /\ GraphOK
  /\ rc \in [Nodes -> Int] /\ col \in [Nodes -> {"black", "white", "grey", "purple"}]
  /\ buf \in [Nodes -> {"none", "root", "list"}]
  /\ roots \in Seq(Nodes) /\ current \in Seq(Nodes) /\ to_free \in Seq(Values)
  /\ todo \in Seq(Refs) /\ blacken \in Seq(Refs)
  /\ phase \in {"mark", "scan", "collect", "done"}

\* S has with a node all that it refers to.
SelfContained(S) == \A e \in Refs : e[1] \in S => To[e] \in S

\* What can be reached from the nodes in T.
ReachedFrom(T) ==
  {n \in Nodes : \A S \in SUBSET Nodes : T \subseteq S /\ SelfContained(S) => n \in S}

\* What a collection looks at; what is in use, or referred to from elsewhere;
\* and what no longer can be used.
Touched == ReachedFrom(Members(began))
InUse == LET T == Touched IN ReachedFrom({n \in Nodes : extra[n] > 0 \/ n \notin T})
Garbage == Nodes \ InUse

\* The list holds the garbage, all of it, nothing else and nothing twice: for any
\* cycles and any order of the roots, nothing that a script can still reach is
\* destroyed, and no garbage is left behind that the buffer led to.
ListsGarbage == phase = "done" =>
  Distinct(to_free) /\ Members(to_free) = Garbage \cap Values

\* When destruction starts, every count is again the number of references: those
\* that marking took off were given back once each, also to garbage.  The list adds
\* one to its zvals, which no longer count for their objects.
CountsRestored == phase = "done" =>
  LET G == Garbage
  IN  \A n \in Nodes :
        rc[n] = extra[n] + IF n \in Objects
                           THEN Cardinality({e \in Into[n] : e[1] \notin G})
                           ELSE Cardinality(Into[n]) + IF n \in G THEN 1 ELSE 0

\* Counts are unsigned and compared with zero: none is taken below it at any time.
CountsNatural == \A n \in Nodes : rc[n] >= 0

\* Afterwards nothing is in the buffer, grey or white, and an object is purple
\* exactly if it is garbage.
Settled == phase = "done" =>
  LET G == Garbage
  IN  /\ roots = <<>>
      /\ \A n \in Nodes :
           /\ buf[n] = IF n \in G \cap Values THEN "list" ELSE "none"
           /\ col[n] = IF n \in G \cap Objects THEN "purple" ELSE "black"
============================================================================
