----------------------------- MODULE MCWorker ------------------------------
(***************************************************************************)
(* A worker between two forks: the FastCGI connection it serves, the values *)
(* of the script it runs, and one collection of its garbage step by step.   *)
(* The three share no variable, so a behaviour of all is any interleaving   *)
(* of one of each, and each is explored with the others at rest.            *)
(***************************************************************************)
EXTENDS Fastcgi, ZendGc, ZendGcPhases, TLC

CONSTANTS stdout, stderr

VARIABLE part

\* A collection that finds an empty buffer.
NoCollection ==
  began = <<>> /\ \A n \in Nodes : extra[n] = MaxExtra /\ (n \in Containers => refs[n] = <<>>)

Init ==
  /\ part \in {"connection", "script", "collection"}
  /\ FcgiInit /\ GcInit /\ PhasesInit
  /\ part # "collection" => NoCollection
  /\ part # "script" => \A max \in RootMaxes : heap.max <= max

Next ==
  \/ part = "connection" /\ FcgiNext /\ UNCHANGED <<part, gcVars, phaseVars>>
  \/ part = "script" /\ GcNext /\ UNCHANGED <<part, fcgiVars, phaseVars>>
  \/ part = "collection" /\ PhasesNext /\ UNCHANGED <<part, fcgiVars, gcVars>>

Spec == Init /\ [][Next]_<<part, fcgiVars, gcVars, phaseVars>>

\* The heap with these counts, colours, addresses, buffer and list.
HeapOf(k, c, b, r, list) ==
  [z |-> [z \in Zvals |->
            IF z \notin Values THEN FreeZval
            ELSE [kind |-> IF z \in Arrays THEN "array" ELSE "object", rc |-> k[z],
                  at |-> IF z \in Arrays THEN None ELSE refs[z][1],
                  elems |-> IF z \in Arrays THEN refs[z] ELSE <<>>, col |-> c[z], buf |-> b[z]]],
   o |-> [o \in Handles |->
            [valid |-> TRUE, rc |-> k[o], props |-> refs[o], col |-> c[o], buf |-> b[o]]],
   roots |-> [i \in 1 .. Len(r) |-> IF r[i] \in Handles THEN ORoot(r[i]) ELSE ZRoot(r[i])],
   max |-> heap.max, free |-> list, bad |-> FALSE, stale |-> FALSE, lost |-> FALSE]

\* The heap when the collection began.
Begun ==
  HeapOf([n \in Nodes |-> extra[n] + Cardinality(Into[n])],
         [n \in Nodes |-> IF n \in Members(began) THEN "purple" ELSE "black"],
         [n \in Nodes |-> IF n \in Members(began) THEN "root" ELSE "none"], began, <<>>)

\* The loops over a stack of references end where the functions that call themselves
\* do: with the same counts, colours and buffer, and the same list in the same order,
\* so what is shown of one collection holds for those that scripts start.
PhasesAgree == part = "collection" /\ phase = "done" =>
  Phases(Begun) = HeapOf(rc, col, buf, roots, to_free)

\* The writer treats both types alike, and scripts all variables.
Symm == Permutations(Types) \cup Permutations(Vars)

Rec(t, len, pad, n) == [t |-> t, len |-> len, pad |-> pad, keep |-> FALSE, content |-> n]

\* A request with a body of n bytes in these records, and the empty one.
Request(keeps, n, b) ==
  <<[Rec("begin", 0, 0, 0) EXCEPT !.keep = keeps], Rec("params", 1, 1, n), Rec("params", 0, 0, n)>>
  \o b \o <<Rec("stdin", 0, 0, 0)>>

\* A kept POST in two records, one with padding, and a GET that is not kept.
RequestsV ==
  {Request(TRUE, 3, <<Rec("stdin", 1, 1, 3), Rec("stdin", 2, 0, 2)>>), Request(FALSE, 0, <<>>)}
============================================================================
