------------------------- MODULE ZendGcPhasesProofs -------------------------
(***************************************************************************)
(* A collection lists the garbage and restores the counts, whatever the    *)
(* graph, the order of the references and of the roots.  The invariant     *)
(* says at every step which references have been taken off the counts, and *)
(* how far each phase has come in the graph.                               *)
(***************************************************************************)
EXTENDS ZendGcPhases, TLAPS, FiniteSetTheorems

Todo == Members(todo)
Blacken == Members(blacken)
Current == Members(current)
Roots == Members(roots)

SelfContainedSets == {S \in SUBSET Nodes : SelfContained(S)}

\* The references that are taken off the counts at this point.
Off ==
  {e \in Refs :
    \/ phase = "mark" /\ col[e[1]] = "grey" /\ e \notin Todo
    \/ phase = "scan" /\ (col[e[1]] \in {"grey", "white"} \/ e \in Blacken)
    \/ /\ phase \in {"collect", "done"}
       /\ \/ col[e[1]] = "white" \/ e \in Todo
          \/ e[1] \in ObjectZvals /\ buf[e[1]] = "list"}

\* k are the counts when the references in O are off and b has the list.
CountedAs(k, O, b) ==
  \A n \in Nodes :
    k[n] = extra[n] + Cardinality(Into[n] \ O) + IF b[n] = "list" THEN 1 ELSE 0

Counted == CountedAs(rc, Off, buf)

\* The stacks and lists have nothing twice.
Stacks ==
  /\ Distinct(todo) /\ Distinct(blacken) /\ Distinct(current) /\ Distinct(roots)
  /\ Distinct(to_free) /\ Members(to_free) = {n \in Nodes : buf[n] = "list"}
  /\ Current \subseteq Roots /\ Roots \subseteq Members(began)
  /\ \A n \in Nodes : buf[n] = "root" <=> n \in Roots

\* Grey is what was reached, from the roots that are kept; what it refers to is grey
\* or on the stack.
Marking == phase = "mark" =>
  /\ blacken = <<>> /\ to_free = <<>>
  /\ \A n \in Nodes : col[n] # "white"
  /\ \A n \in Nodes : col[n] = "purple" <=> n \in Members(began) /\ col[n] # "grey"
  /\ Members(began) \ Current \subseteq {n \in Nodes : col[n] = "grey"}
  /\ \A e \in Todo : col[e[1]] = "grey"
  /\ \A e \in Refs : col[e[1]] = "grey" => e \in Todo \/ col[To[e]] = "grey"
  /\ \A S \in SelfContainedSets : Roots \ Current \subseteq S =>
       {n \in Nodes : col[n] = "grey"} \subseteq S

\* White has no other references so far, and black is in use; what they refer to is no
\* longer grey, or on a stack.
Scanning == phase = "scan" =>
  /\ to_free = <<>>
  /\ \A n \in Nodes : col[n] # "purple"
  /\ \A n \in Nodes \ Touched : col[n] = "black"
  /\ \A S \in SelfContainedSets : Roots \subseteq S => Touched \subseteq S
  /\ \A n \in Roots \ Current : col[n] # "grey"
  /\ \A e \in Todo : col[e[1]] # "grey"
  /\ \A e \in Blacken : col[e[1]] = "black" /\ e[1] \in Touched
  /\ \A e \in Refs : e[1] \in Touched /\ col[e[1]] # "grey" =>
       e \in Todo \/ e \in Blacken \/ col[To[e]] # "grey"
  /\ \A n \in Nodes : col[n] = "white" => rc[n] = 0
  /\ \A n \in Touched : col[n] = "black" => n \in InUse

\* Zvals and objects that are found to be garbage.
Taken == {n \in Nodes : buf[n] = "list" \/ col[n] = "purple"}

\* Only garbage is taken, and what it refers to is taken, in use, a root, or on the
\* stack; nothing that the roots lead to is cut off from those that are left.
Collecting == phase \in {"collect", "done"} =>
  /\ blacken = <<>> /\ Current = Roots
  /\ \A n \in Nodes \ Garbage : col[n] = "black" /\ buf[n] # "list"
  /\ \A n \in Garbage : n \in Taken \/ col[n] = "white"
  /\ \A n \in Taken : IF n \in Values THEN buf[n] = "list" /\ col[n] = "black"
                      ELSE buf[n] = "none" /\ col[n] = "purple"
  /\ \A e \in Todo : e[1] \in Taken
  /\ \A e \in Refs : e[1] \in Taken =>
       e \in Todo \/ To[e] \in Roots \/ To[e] \in Taken \/ To[e] \notin Garbage
  /\ \A S \in SelfContainedSets :
       Roots \cup {n \in Touched : col[n] # "white"} \subseteq S => Touched \subseteq S

\* The loops are over.
Finished == phase = "done" => todo = <<>> /\ current = <<>>

IInv == PhasesTypeOK /\ Stacks /\ Counted /\ Marking /\ Scanning /\ Collecting /\ Finished

----------------------------------------------------------------------------
(* Sequences without repetitions *)

LEMMA NoneIn == Members(<<>>) = {} /\ Distinct(<<>>)
BY DEF Members, Distinct

LEMMA MembersType ==
  ASSUME NEW A, NEW s \in Seq(A)
  PROVE  Members(s) \subseteq A /\ (Members(s) = {} => s = <<>>)
<1>1. DOMAIN s = 1 .. Len(s) /\ Len(s) \in Nat /\ \A i \in 1 .. Len(s) : s[i] \in A
  OBVIOUS
<1>2. Members(s) \subseteq A
  BY <1>1, Zenon DEF Members
<1>3. ASSUME s # <<>> PROVE 1 \in DOMAIN s
  BY <1>1, <1>3
<1> QED BY <1>2, <1>3, Zenon DEF Members

LEMMA PoppedFacts ==
  ASSUME NEW A, NEW s \in Seq(A), s # <<>>, Distinct(s)
  PROVE  /\ Head(s) \in Members(s) /\ Head(s) \in A
         /\ Tail(s) \in Seq(A) /\ Distinct(Tail(s))
         /\ Members(Tail(s)) = Members(s) \ {Head(s)}
<1>1. /\ Len(s) \in Nat \ {0} /\ DOMAIN s = 1 .. Len(s) /\ Head(s) = s[1]
      /\ Tail(s) \in Seq(A) /\ Len(Tail(s)) = Len(s) - 1
      /\ DOMAIN Tail(s) = 1 .. Len(s) - 1
      /\ \A i \in 1 .. Len(s) - 1 : Tail(s)[i] = s[i + 1]
  OBVIOUS
<1>2. Head(s) \in Members(s) /\ Head(s) \in A
  BY <1>1 DEF Members
<1>3. Distinct(Tail(s))
  BY <1>1 DEF Distinct
<1>4. ASSUME NEW x \in Members(Tail(s)) PROVE x \in Members(s) \ {Head(s)}
  <2>1. PICK i \in 1 .. Len(s) - 1 : x = s[i + 1]
    BY <1>1 DEF Members
  <2> QED BY <2>1, <1>1 DEF Members, Distinct
<1>5. ASSUME NEW x \in Members(s), x # Head(s) PROVE x \in Members(Tail(s))
  <2>1. PICK i \in 1 .. Len(s) : x = s[i]
    BY <1>1 DEF Members
  <2>2. i - 1 \in 1 .. Len(s) - 1 /\ Tail(s)[i - 1] = x
    BY <2>1, <1>1, <1>5
  <2> QED BY <2>2, <1>1, Zenon DEF Members
<1> QED BY <1>1, <1>2, <1>3, <1>4, <1>5, Zenon

LEMMA JoinedFacts ==
  ASSUME NEW A, NEW s \in Seq(A), NEW t \in Seq(A), Distinct(s), Distinct(t),
         Members(s) \cap Members(t) = {}
  PROVE  /\ s \o t \in Seq(A) /\ Distinct(s \o t)
         /\ Members(s \o t) = Members(s) \cup Members(t)
<1> DEFINE m == Len(s)
           n == Len(t)
           u == s \o t
<1>1. /\ m \in Nat /\ n \in Nat /\ u \in Seq(A)
      /\ DOMAIN s = 1 .. m /\ DOMAIN t = 1 .. n /\ DOMAIN u = 1 .. m + n
      /\ \A i \in 1 .. m : u[i] = s[i]
      /\ \A i \in 1 .. n : u[m + i] = t[i]
  OBVIOUS
<1>2. \A i \in m + 1 .. m + n : i - m \in 1 .. n /\ u[i] = t[i - m]
  BY <1>1
<1> HIDE DEF m, n, u
<1>3. \A i \in 1 .. m + n : i \in 1 .. m \/ i \in m + 1 .. m + n
  BY <1>1
<1>4. \A i \in 1 .. m, j \in 1 .. n : s[i] # t[j]
  BY <1>1, Zenon DEF Members
<1>5. ASSUME NEW i \in 1 .. m + n, NEW j \in 1 .. m + n, u[i] = u[j] PROVE i = j
  <2>1. CASE i \in 1 .. m /\ j \in 1 .. m
    BY <2>1, <1>1, <1>5, Zenon DEF Distinct
  <2>2. CASE i \in 1 .. m /\ j \in m + 1 .. m + n
    <3>1. u[i] = s[i] /\ u[j] = t[j - m] /\ j - m \in 1 .. n
      BY <2>2, <1>1, <1>2, Zenon
    <3> QED BY <3>1, <2>2, <1>4, <1>5, Zenon
  <2>3. CASE i \in m + 1 .. m + n /\ j \in 1 .. m
    <3>1. u[j] = s[j] /\ u[i] = t[i - m] /\ i - m \in 1 .. n
      BY <2>3, <1>1, <1>2, Zenon
    <3> QED BY <3>1, <2>3, <1>4, <1>5, Zenon
  <2>4. CASE i \in m + 1 .. m + n /\ j \in m + 1 .. m + n
    <3>1. u[i] = t[i - m] /\ i - m \in 1 .. n /\ u[j] = t[j - m] /\ j - m \in 1 .. n
      BY <2>4, <1>2, Zenon
    <3>2. i - m = j - m
      BY <3>1, <1>1, <1>5, Zenon DEF Distinct
    <3> QED BY <3>2, <1>1
  <2> QED BY <2>1, <2>2, <2>3, <2>4, <1>3, Zenon
<1>6. ASSUME NEW x \in Members(u) PROVE x \in Members(s) \cup Members(t)
  <2>1. PICK i \in 1 .. m + n : x = u[i]
    BY <1>1, Zenon DEF Members
  <2> QED BY <2>1, <1>1, <1>2, <1>3, Zenon DEF Members
<1>7. ASSUME NEW x \in Members(s) PROVE x \in Members(u)
  <2>1. PICK i \in 1 .. m : x = s[i]
    BY <1>1, Zenon DEF Members
  <2> QED BY <2>1, <1>1 DEF Members
<1>8. ASSUME NEW x \in Members(t) PROVE x \in Members(u)
  <2>1. PICK i \in 1 .. n : x = t[i]
    BY <1>1, Zenon DEF Members
  <2>2. m + i \in 1 .. m + n /\ u[m + i] = x
    BY <2>1, <1>1
  <2> QED BY <2>2, <1>1, Zenon DEF Members
<1>9. Distinct(u)
  BY <1>1, <1>5, Zenon DEF Distinct
<1> QED BY <1>1, <1>6, <1>7, <1>8, <1>9, Zenon DEF u

LEMMA RemovedFacts ==
  ASSUME NEW A, NEW s \in Seq(A), Distinct(s), NEW r \in Members(s)
  PROVE  /\ Without(s, r) \in Seq(A) /\ Distinct(Without(s, r))
         /\ Members(Without(s, r)) = Members(s) \ {r}
<1> DEFINE k == CHOOSE k \in DOMAIN s : s[k] = r
           m == Len(s)
           u == Without(s, r)
<1>1. m \in Nat /\ DOMAIN s = 1 .. m /\ \A i \in 1 .. m : s[i] \in A
  OBVIOUS
<1>2. k \in 1 .. m /\ s[k] = r
  BY <1>1, Zenon DEF Members
<1>3. u = [i \in 1 .. m - 1 |-> IF i < k THEN s[i] ELSE s[i + 1]]
  BY DEF Without
<1> HIDE DEF k, m, u
<1>4. DOMAIN u = 1 .. m - 1 /\ m - 1 \in Nat
  BY <1>1, <1>2, <1>3
<1>5. \A i \in 1 .. m - 1 : u[i] = IF i < k THEN s[i] ELSE s[i + 1]
  BY <1>3, Zenon
<1>6. u \in Seq(A)
  <2>1. \A i \in 1 .. m - 1 : u[i] \in A
    BY <1>1, <1>2, <1>5
  <2> QED BY <2>1, <1>3, <1>4
<1>7. Distinct(u)
  <2>1. SUFFICES ASSUME NEW i \in 1 .. m - 1, NEW j \in 1 .. m - 1, u[i] = u[j] PROVE i = j
    BY <1>4, Zenon DEF Distinct
  <2>2. \A a, b \in 1 .. m : s[a] = s[b] => a = b
    BY <1>1, Zenon DEF Distinct
  <2>3. i \in 1 .. m /\ j \in 1 .. m /\ i + 1 \in 1 .. m /\ j + 1 \in 1 .. m
    BY <1>1
  <2> QED BY <2>1, <2>2, <2>3, <1>2, <1>5
<1>8. ASSUME NEW x \in Members(u) PROVE x \in Members(s) \ {r}
  <2>1. PICK i \in 1 .. m - 1 : x = u[i]
    BY <1>4, Zenon DEF Members
  <2>2. PICK j \in 1 .. m : x = s[j] /\ j # k
    BY <2>1, <1>1, <1>2, <1>5
  <2> QED BY <2>2, <1>1, <1>2 DEF Members, Distinct
<1>9. ASSUME NEW x \in Members(s), x # r PROVE x \in Members(u)
  <2>1. PICK i \in 1 .. m : x = s[i]
    BY <1>1, Zenon DEF Members
  <2>2. PICK j \in 1 .. m - 1 : x = u[j]
    <3>1. CASE i < k
      BY <3>1, <2>1, <1>1, <1>2, <1>5
    <3>2. CASE i > k
      <4>1. i - 1 \in 1 .. m - 1 /\ u[i - 1] = s[i]
        BY <3>2, <1>1, <1>2, <1>5
      <4> QED BY <4>1, <2>1
    <3> QED BY <3>1, <3>2, <2>1, <1>1, <1>2, <1>9
  <2> QED BY <2>2, <1>4, Zenon DEF Members
<1> QED BY <1>6, <1>7, <1>8, <1>9, Zenon DEF u

----------------------------------------------------------------------------
(* The graph *)

LEMMA RefFacts ==
  ASSUME PhasesTypeOK
  PROVE  /\ IsFiniteSet(Refs)
         /\ \A e \in Refs : e[1] \in Nodes /\ To[e] \in Nodes
         /\ \A n \in Nodes : Into[n] = {e \in Refs : To[e] = n}
<1>1. IsFiniteSet(Nodes \X (1 .. MaxElems))
  <2>1. IsFiniteSet(1 .. MaxElems)
    BY PhasesAssumption, FS_Interval
  <2> QED BY <2>1, PhasesAssumption, FS_Product, Zenon
<1>2. Refs \subseteq Nodes \X (1 .. MaxElems)
  BY Zenon DEF Refs
<1>3. IsFiniteSet(Refs)
  BY <1>1, <1>2, FS_Subset, Zenon
<1>4. ASSUME NEW e \in Refs PROVE e[1] \in Nodes /\ To[e] \in Nodes
  <2>1. e[1] \in Nodes /\ e[2] \in 1 .. MaxElems /\ e[2] <= Len(refs[e[1]])
    BY DEF Refs
  <2>2. refs[e[1]] \in Seq(Nodes)
    BY <2>1, Zenon DEF PhasesTypeOK, GraphOK
  <2>3. refs[e[1]][e[2]] \in Nodes
    BY <2>1, <2>2
  <2> QED BY <2>1, <2>3, Zenon DEF To
<1> QED BY <1>3, <1>4, Zenon DEF Into

LEMMA RefsOfFacts ==
  ASSUME PhasesTypeOK, NEW n \in Nodes
  PROVE  /\ RefsOf[n] \in Seq(Refs) /\ Distinct(RefsOf[n])
         /\ Members(RefsOf[n]) = {e \in Refs : e[1] = n}
<1> DEFINE m == Len(refs[n])
           s == [i \in 1 .. m |-> <<n, i>>]
<1>1. m \in Nat /\ m <= MaxElems
  BY DEF PhasesTypeOK, GraphOK
<1>2. RefsOf[n] = s
  BY Zenon DEF RefsOf
<1>3. \A i \in 1 .. m : <<n, i>> \in Refs
  <2>1. \A i \in 1 .. m : i \in 1 .. MaxElems /\ i <= m
    BY <1>1, PhasesAssumption
  <2> QED BY <2>1 DEF Refs
<1>4. \A e \in Refs : e[1] = n => e[2] \in 1 .. m /\ e = <<n, e[2]>>
  BY <1>1, PhasesAssumption DEF Refs
<1> HIDE DEF m
<1>5. s \in Seq(Refs)
  BY <1>1, <1>3
<1>6. Distinct(s)
  BY DEF Distinct
<1>7. Members(s) = {<<n, i>> : i \in 1 .. m}
  BY DEF Members
<1>8. Members(s) = {e \in Refs : e[1] = n}
  BY <1>3, <1>4, <1>7
<1> QED BY <1>2, <1>5, <1>6, <1>8, Zenon

\* What is reached from X is the least set that has X and follows references.
LEMMA ReachedFacts ==
  ASSUME PhasesTypeOK, NEW X \in SUBSET Nodes
  PROVE  /\ ReachedFrom(X) \in SelfContainedSets /\ X \subseteq ReachedFrom(X)
         /\ \A S \in SelfContainedSets : X \subseteq S => ReachedFrom(X) \subseteq S
<1>1. X \subseteq ReachedFrom(X)
  BY Zenon DEF ReachedFrom
<1>2. \A S \in SelfContainedSets : X \subseteq S => ReachedFrom(X) \subseteq S
  BY Zenon DEF ReachedFrom, SelfContainedSets
<1>3. ASSUME NEW e \in Refs, e[1] \in ReachedFrom(X) PROVE To[e] \in ReachedFrom(X)
  <2>1. To[e] \in Nodes
    BY RefFacts, Zenon
  <2>2. ASSUME NEW S \in SUBSET Nodes, X \subseteq S, SelfContained(S) PROVE To[e] \in S
    BY <1>3, <2>2, Zenon DEF ReachedFrom, SelfContained
  <2> QED BY <2>1, <2>2, Zenon DEF ReachedFrom
<1>4. ReachedFrom(X) \subseteq Nodes
  BY Zenon DEF ReachedFrom
<1> QED BY <1>1, <1>2, <1>3, <1>4, Zenon DEF SelfContainedSets, SelfContained

LEMMA FollowingFacts ==
  ASSUME NEW S \in SUBSET Nodes
  PROVE  S \in SelfContainedSets <=> \A e \in Refs : e[1] \in S => To[e] \in S
BY Zenon DEF SelfContainedSets, SelfContained

LEMMA TouchedFacts ==
  ASSUME PhasesTypeOK
  PROVE  /\ Touched \in SelfContainedSets /\ Touched \subseteq Nodes
         /\ Members(began) \subseteq Touched
         /\ \A S \in SelfContainedSets : Members(began) \subseteq S => Touched \subseteq S
<1>1. Members(began) \in SUBSET Nodes
  BY MembersType, Zenon DEF PhasesTypeOK, GraphOK
<1> QED BY <1>1, ReachedFacts, Zenon DEF Touched, SelfContainedSets

LEMMA InUseFacts ==
  ASSUME PhasesTypeOK
  PROVE  /\ InUse \in SelfContainedSets /\ InUse \subseteq Nodes
         /\ \A n \in Nodes : extra[n] > 0 \/ n \notin Touched => n \in InUse
         /\ \A S \in SelfContainedSets :
              (\A n \in Nodes : extra[n] > 0 \/ n \notin Touched => n \in S) => InUse \subseteq S
<1> DEFINE X == {n \in Nodes : extra[n] > 0 \/ n \notin Touched}
<1>1. X \in SUBSET Nodes
  OBVIOUS
<1>2. InUse = ReachedFrom(X)
  BY DEF InUse
<1>3. \A n : n \in X <=> n \in Nodes /\ (extra[n] > 0 \/ n \notin Touched)
  OBVIOUS
<1> HIDE DEF X
<1>4. /\ InUse \in SelfContainedSets /\ X \subseteq InUse
      /\ \A S \in SelfContainedSets : X \subseteq S => InUse \subseteq S
  BY <1>1, <1>2, ReachedFacts, Zenon
<1> QED BY <1>3, <1>4, Zenon DEF SelfContainedSets

KeepsGraph ==
  /\ Refs' = Refs /\ To' = To /\ Into' = Into /\ RefsOf' = RefsOf
  /\ SelfContainedSets' = SelfContainedSets /\ Touched' = Touched /\ InUse' = InUse
  /\ Garbage' = Garbage /\ Members(began)' = Members(began)

LEMMA SameGraph ==
  ASSUME UNCHANGED graphVars
  PROVE  KeepsGraph
<1>1. refs' = refs /\ extra' = extra /\ began' = began
  BY DEF graphVars
<1>2. Refs' = Refs /\ RefsOf' = RefsOf
  BY <1>1, Zenon DEF Refs, RefsOf
<1>3. To' = To
  BY <1>1, <1>2, Zenon DEF To
<1>4. Into' = Into
  BY <1>2, <1>3, Zenon DEF Into
<1>5. SelfContainedSets' = SelfContainedSets
  BY <1>2, <1>3, Zenon DEF SelfContainedSets, SelfContained
<1>6. Members(began)' = Members(began)
  BY <1>1, Zenon DEF Members
<1>7. Touched' = Touched
  BY <1>2, <1>3, <1>6, Zenon DEF Touched, ReachedFrom, SelfContained
<1>8. InUse' = InUse
  BY <1>1, <1>2, <1>3, <1>7, Zenon DEF InUse, ReachedFrom, SelfContained
<1> QED BY <1>2, <1>3, <1>4, <1>5, <1>6, <1>7, <1>8, Zenon DEF Garbage, KeepsGraph

LEMMA GraphKept ==
  ASSUME PhasesTypeOK, UNCHANGED graphVars
  PROVE  GraphOK'
<1>1. refs' = refs /\ extra' = extra /\ began' = began
  BY DEF graphVars
<1> QED BY <1>1, SameGraph, Zenon DEF GraphOK, PhasesTypeOK, KeepsGraph

----------------------------------------------------------------------------
(* Counting *)

LEMMA IntoFacts ==
  ASSUME PhasesTypeOK, NEW O, NEW n \in Nodes
  PROVE  IsFiniteSet(Into[n] \ O) /\ Cardinality(Into[n] \ O) \in Nat
<1>1. Into[n] \ O \subseteq Refs
  BY RefFacts, Zenon
<1>2. IsFiniteSet(Into[n] \ O)
  BY <1>1, RefFacts, FS_Subset, Zenon
<1> QED BY <1>2, FS_CardinalityType, Zenon

LEMMA TakenOff ==
  ASSUME PhasesTypeOK, NEW k \in [Nodes -> Int], NEW O, NEW b, CountedAs(k, O, b),
         NEW e \in Refs, e \notin O
  PROVE  CountedAs([k EXCEPT ![To[e]] = @ - 1], O \cup {e}, b)
<1> SUFFICES ASSUME NEW n \in Nodes
             PROVE  [k EXCEPT ![To[e]] = @ - 1][n] =
                      extra[n] + Cardinality(Into[n] \ (O \cup {e})) + IF b[n] = "list" THEN 1 ELSE 0
  BY Zenon DEF CountedAs
<1>1. k[n] = extra[n] + Cardinality(Into[n] \ O) + IF b[n] = "list" THEN 1 ELSE 0
  BY Zenon DEF CountedAs
<1>2. extra[n] \in Nat /\ k[n] \in Int
  BY DEF PhasesTypeOK, GraphOK
<1>3. Cardinality(Into[n] \ O) \in Nat /\ IsFiniteSet(Into[n] \ O)
  BY IntoFacts, Zenon
<1>4. CASE n = To[e]
  <2>1. e \in Into[n] \ O
    BY <1>4, RefFacts, Zenon
  <2>2. Into[n] \ (O \cup {e}) = (Into[n] \ O) \ {e}
    OBVIOUS
  <2>3. Cardinality((Into[n] \ O) \ {e}) = Cardinality(Into[n] \ O) - 1
    BY <2>1, <1>3, FS_RemoveElement, Zenon
  <2>4. Cardinality(Into[n] \ (O \cup {e})) = Cardinality(Into[n] \ O) - 1
    BY <2>2, <2>3, Zenon
  <2> QED BY <2>4, <1>1, <1>2, <1>3, <1>4
<1>5. CASE n # To[e]
  <2>1. e \notin Into[n]
    BY <1>5, RefFacts, Zenon
  <2>2. Into[n] \ (O \cup {e}) = Into[n] \ O
    BY <2>1, Zenon
  <2> QED BY <2>2, <1>1, <1>5, Zenon
<1> QED BY <1>4, <1>5

LEMMA GivenBack ==
  ASSUME PhasesTypeOK, NEW k \in [Nodes -> Int], NEW O, NEW b, CountedAs(k, O, b),
         NEW e \in Refs, e \in O
  PROVE  CountedAs([k EXCEPT ![To[e]] = @ + 1], O \ {e}, b)
<1> SUFFICES ASSUME NEW n \in Nodes
             PROVE  [k EXCEPT ![To[e]] = @ + 1][n] =
                      extra[n] + Cardinality(Into[n] \ (O \ {e})) + IF b[n] = "list" THEN 1 ELSE 0
  BY Zenon DEF CountedAs
<1>1. k[n] = extra[n] + Cardinality(Into[n] \ O) + IF b[n] = "list" THEN 1 ELSE 0
  BY Zenon DEF CountedAs
<1>2. extra[n] \in Nat /\ k[n] \in Int
  BY DEF PhasesTypeOK, GraphOK
<1>3. Cardinality(Into[n] \ O) \in Nat /\ IsFiniteSet(Into[n] \ O)
  BY IntoFacts, Zenon
<1>4. CASE n = To[e]
  <2>1. e \in Into[n] /\ e \notin Into[n] \ O
    BY <1>4, RefFacts, Zenon
  <2>2. Into[n] \ (O \ {e}) = (Into[n] \ O) \cup {e}
    BY <2>1, Zenon
  <2>3. Cardinality((Into[n] \ O) \cup {e}) = Cardinality(Into[n] \ O) + 1
    BY <2>1, <1>3, FS_AddElement, Zenon
  <2>4. Cardinality(Into[n] \ (O \ {e})) = Cardinality(Into[n] \ O) + 1
    BY <2>2, <2>3, Zenon
  <2> QED BY <2>4, <1>1, <1>2, <1>3, <1>4
<1>5. CASE n # To[e]
  <2>1. e \notin Into[n]
    BY <1>5, RefFacts, Zenon
  <2>2. Into[n] \ (O \ {e}) = Into[n] \ O
    BY <2>1, Zenon
  <2> QED BY <2>2, <1>1, <1>5, Zenon
<1> QED BY <1>4, <1>5

LEMMA PutOnTheList ==
  ASSUME PhasesTypeOK, NEW k \in [Nodes -> Int], NEW O,
         NEW b \in [Nodes -> {"none", "root", "list"}], CountedAs(k, O, b),
         NEW n \in Nodes, b[n] = "none"
  PROVE  CountedAs([k EXCEPT ![n] = @ + 1], O, [b EXCEPT ![n] = "list"])
<1> SUFFICES ASSUME NEW x \in Nodes
             PROVE  [k EXCEPT ![n] = @ + 1][x] =
                      extra[x] + Cardinality(Into[x] \ O)
                        + IF [b EXCEPT ![n] = "list"][x] = "list" THEN 1 ELSE 0
  BY Zenon DEF CountedAs
<1>1. k[x] = extra[x] + Cardinality(Into[x] \ O) + IF b[x] = "list" THEN 1 ELSE 0
  BY Zenon DEF CountedAs
<1>2. extra[x] \in Nat /\ k[x] \in Int
  BY DEF PhasesTypeOK, GraphOK
<1>3. Cardinality(Into[x] \ O) \in Nat
  BY IntoFacts, Zenon
<1>4. CASE x = n
  BY <1>1, <1>2, <1>3, <1>4
<1>5. CASE x # n
  BY <1>1, <1>5, Zenon
<1> QED BY <1>4, <1>5

LEMMA SameList ==
  ASSUME NEW k, NEW O, NEW b, NEW c, CountedAs(k, O, b),
         \A n \in Nodes : c[n] = "list" <=> b[n] = "list"
  PROVE  CountedAs(k, O, c)
<1> SUFFICES ASSUME NEW n \in Nodes
             PROVE  k[n] = extra[n] + Cardinality(Into[n] \ O) + IF c[n] = "list" THEN 1 ELSE 0
  BY Zenon DEF CountedAs
<1> QED BY Zenon DEF CountedAs

LEMMA CountedNext ==
  ASSUME UNCHANGED graphVars, CountedAs(rc', Off', buf')
  PROVE  Counted'
<1>1. extra' = extra /\ Into' = Into
  BY SameGraph, Zenon DEF graphVars, KeepsGraph
<1> QED BY <1>1, Zenon DEF Counted, CountedAs

----------------------------------------------------------------------------
(* Marking *)

\* What the invariant says of the other phases holds before they begin.
LEMMA MarkOnly ==
  ASSUME phase' = "mark"
  PROVE  Scanning' /\ Collecting' /\ Finished'
BY Zenon DEF Scanning, Collecting, Finished

LEMMA MarkRootKeeps ==
  ASSUME IInv, mark_root
  PROVE  IInv'
<1> DEFINE r == Head(current)
<1>1. /\ phase = "mark" /\ todo = <<>> /\ current # <<>>
      /\ UNCHANGED <<rc, to_free, phase, blacken>> /\ current' = Tail(current)
  BY Zenon DEF mark_root
<1>2. PhasesTypeOK /\ Stacks /\ Counted /\ Marking
  BY Zenon DEF IInv
<1>3. UNCHANGED graphVars /\ KeepsGraph /\ GraphOK'
  BY <1>2, SameGraph, GraphKept, Zenon DEF mark_root
<1>4. /\ r \in Current /\ r \in Nodes /\ current' \in Seq(Nodes) /\ Distinct(current')
      /\ Current' = Current \ {r}
  BY <1>1, <1>2, PoppedFacts, Zenon DEF Current, PhasesTypeOK, Stacks
<1>5. r \in Roots /\ r \in Members(began) /\ Todo = {} /\ Blacken' = Blacken
  BY <1>1, <1>2, <1>4, NoneIn, Zenon DEF Todo, Blacken, Stacks
<1>6. Scanning' /\ Collecting' /\ Finished'
  BY <1>1, MarkOnly, Zenon
<1>7. CASE /\ col[r] = "purple" /\ col' = [col EXCEPT ![r] = "grey"] /\ todo' = RefsOf[r]
           /\ UNCHANGED <<buf, roots>>
  <2>1. /\ todo' \in Seq(Refs) /\ Distinct(todo') /\ Todo' = {e \in Refs : e[1] = r}
    BY <1>2, <1>4, <1>7, RefsOfFacts, Zenon DEF Todo
  <2>2. /\ col' \in [Nodes -> {"black", "white", "grey", "purple"}] /\ col'[r] = "grey"
        /\ \A n \in Nodes : n # r => col'[n] = col[n]
    BY <1>2, <1>4, <1>7 DEF PhasesTypeOK
  <2>3. PhasesTypeOK'
    BY <1>1, <1>2, <1>3, <1>4, <1>7, <2>1, <2>2, Zenon DEF PhasesTypeOK, KeepsGraph
  <2>4. Stacks'
    BY <1>1, <1>2, <1>3, <1>4, <1>7, <2>1, Zenon DEF Stacks, KeepsGraph, Roots
  <2>5. Off' = Off
    BY <1>1, <1>2, <1>3, <1>5, <1>7, <2>1, <2>2, RefFacts, Zenon DEF Off, KeepsGraph
  <2>6. Counted'
    BY <1>1, <1>2, <1>3, <1>7, <2>5, CountedNext, Zenon DEF Counted
  <2>7. Marking'
    <3>1. \A n \in Nodes : col'[n] # "white"
      BY <1>1, <1>2, <2>2 DEF Marking
    <3>2. \A n \in Nodes : col'[n] = "purple" <=> n \in Members(began)' /\ col'[n] # "grey"
      BY <1>1, <1>2, <1>3, <2>2 DEF Marking, KeepsGraph
    <3>3. Members(began)' \ Current' \subseteq {n \in Nodes : col'[n] = "grey"}
      BY <1>1, <1>2, <1>3, <1>4, <2>2, Zenon DEF Marking, KeepsGraph
    <3>4. \A e \in Todo' : col'[e[1]] = "grey"
      BY <2>1, <2>2, Zenon
    <3>5. \A e \in Refs' : col'[e[1]] = "grey" => e \in Todo' \/ col'[To'[e]] = "grey"
      <4> SUFFICES ASSUME NEW e \in Refs, col'[e[1]] = "grey", e[1] # r
                   PROVE  col'[To[e]] = "grey"
        BY <1>3, <2>1, Zenon DEF KeepsGraph
      <4>1. e[1] \in Nodes /\ To[e] \in Nodes
        BY <1>2, RefFacts, Zenon
      <4>2. col[To[e]] = "grey"
        BY <1>1, <1>2, <1>5, <2>2, <4>1, Zenon DEF Marking
      <4> QED BY <2>2, <4>1, <4>2, Zenon
    <3>6. ASSUME NEW S \in SelfContainedSets, Roots' \ Current' \subseteq S,
                 NEW n \in Nodes, col'[n] = "grey"
          PROVE  n \in S
      <4>1. r \in S /\ Roots \ Current \subseteq S
        BY <1>4, <1>5, <1>7, <3>6, Zenon DEF Roots
      <4> QED BY <1>1, <1>2, <2>2, <3>6, <4>1, Zenon DEF Marking
    <3>7. \A S \in SelfContainedSets' : Roots' \ Current' \subseteq S =>
            {n \in Nodes : col'[n] = "grey"} \subseteq S
      BY <1>3, <3>6, Zenon DEF KeepsGraph
    <3> QED BY <1>1, <1>2, <3>1, <3>2, <3>3, <3>4, <3>5, <3>7, Zenon DEF Marking
  <2> QED BY <1>6, <2>3, <2>4, <2>6, <2>7, Zenon DEF IInv
<1>8. CASE /\ col[r] # "purple" /\ buf' = [buf EXCEPT ![r] = "none"]
           /\ roots' = Without(roots, r) /\ UNCHANGED <<col, todo>>
  <2>1. roots' \in Seq(Nodes) /\ Distinct(roots') /\ Roots' = Roots \ {r}
    BY <1>2, <1>5, <1>8, RemovedFacts, Zenon DEF Roots, PhasesTypeOK, Stacks
  <2>2. /\ buf' \in [Nodes -> {"none", "root", "list"}] /\ buf'[r] = "none" /\ buf[r] = "root"
        /\ \A n \in Nodes : n # r => buf'[n] = buf[n]
    <3>1. buf[r] = "root"
      BY <1>2, <1>4, <1>5, Zenon DEF Stacks
    <3> QED BY <3>1, <1>2, <1>4, <1>8 DEF PhasesTypeOK
  <2>3. PhasesTypeOK'
    BY <1>1, <1>2, <1>3, <1>4, <1>8, <2>1, <2>2, Zenon DEF PhasesTypeOK, KeepsGraph
  <2>4. \A n \in Nodes : buf'[n] = "list" <=> buf[n] = "list"
    BY <2>2
  <2>5. Stacks'
    <3>1. Members(to_free)' = {n \in Nodes : buf'[n] = "list"}
      BY <1>1, <1>2, <2>4, Zenon DEF Stacks
    <3>2. \A n \in Nodes : buf'[n] = "root" <=> n \in Roots'
      BY <1>2, <2>1, <2>2 DEF Stacks
    <3>3. Current' \subseteq Roots' /\ Roots' \subseteq Members(began)'
      BY <1>2, <1>3, <1>4, <2>1, Zenon DEF Stacks, KeepsGraph
    <3> QED BY <1>1, <1>2, <1>4, <1>8, <2>1, <3>1, <3>2, <3>3, Zenon DEF Stacks
  <2>6. Off' = Off
    BY <1>1, <1>3, <1>8, Zenon DEF Off, KeepsGraph, Todo
  <2>7. CountedAs(rc', Off', buf')
    BY <1>1, <1>2, <2>4, <2>6, SameList, Zenon DEF Counted
  <2>8. Counted'
    BY <1>3, <2>7, CountedNext, Zenon
  <2>9. Marking'
    <3>1. col[r] = "grey"
      BY <1>1, <1>2, <1>4, <1>5, <1>8, Zenon DEF Marking
    <3>2. Members(began)' \ Current' \subseteq {n \in Nodes : col'[n] = "grey"}
      BY <1>1, <1>2, <1>3, <1>4, <1>8, <3>1, Zenon DEF Marking, KeepsGraph
    <3>3. Roots' \ Current' = Roots \ Current
      BY <1>4, <2>1, Zenon
    <3>4. \A S \in SelfContainedSets' : Roots' \ Current' \subseteq S =>
            {n \in Nodes : col'[n] = "grey"} \subseteq S
      BY <1>1, <1>2, <1>3, <1>8, <3>3, Zenon DEF Marking, KeepsGraph
    <3> QED BY <1>1, <1>2, <1>3, <1>8, <3>2, <3>4, Zenon DEF Marking, KeepsGraph, Todo
  <2> QED BY <1>6, <2>3, <2>5, <2>8, <2>9, Zenon DEF IInv
<1> QED BY <1>7, <1>8, Zenon DEF mark_root

LEMMA JoinedRefs ==
  \A s, t \in Seq(Refs) :
    Distinct(s) /\ Distinct(t) /\ Members(s) \cap Members(t) = {} =>
      /\ s \o t \in Seq(Refs) /\ Distinct(s \o t)
      /\ Members(s \o t) = Members(s) \cup Members(t)
<1> SUFFICES ASSUME NEW s \in Seq(Refs), NEW t \in Seq(Refs), Distinct(s), Distinct(t),
                    Members(s) \cap Members(t) = {}
             PROVE  /\ s \o t \in Seq(Refs) /\ Distinct(s \o t)
                    /\ Members(s \o t) = Members(s) \cup Members(t)
  BY Zenon
<1> QED BY JoinedFacts, SMT

\* The stack after a reference is followed to n, whose references are pushed if p.
LEMMA Pushed ==
  ASSUME PhasesTypeOK, NEW s \in Seq(Refs), s # <<>>, Distinct(s), NEW n \in Nodes,
         NEW p \in BOOLEAN, p => \A e \in Members(s) : e[1] # n
  PROVE  LET t == (IF p THEN RefsOf[n] ELSE <<>>) \o Tail(s)
         IN  /\ t \in Seq(Refs) /\ Distinct(t)
             /\ Members(t) = {e \in Refs : p /\ e[1] = n} \cup (Members(s) \ {Head(s)})
<1> DEFINE q == IF p THEN RefsOf[n] ELSE <<>>
<1>1. /\ Head(s) \in Members(s) /\ Head(s) \in Refs
      /\ Tail(s) \in Seq(Refs) /\ Distinct(Tail(s)) /\ Members(Tail(s)) = Members(s) \ {Head(s)}
  BY PoppedFacts, Zenon
<1>2. q \in Seq(Refs) /\ Distinct(q) /\ Members(q) = {e \in Refs : p /\ e[1] = n}
  <2>1. CASE p
    BY <2>1, RefsOfFacts, Zenon
  <2>2. CASE ~p
    <3>1. <<>> \in Seq(Refs)
      OBVIOUS
    <3> QED BY <2>2, <3>1, NoneIn, Zenon
  <2> QED BY <2>1, <2>2
<1>3. Members(q) \cap Members(Tail(s)) = {}
  BY <1>1, <1>2, Zenon
<1> SUFFICES /\ q \o Tail(s) \in Seq(Refs) /\ Distinct(q \o Tail(s))
             /\ Members(q \o Tail(s)) = {e \in Refs : p /\ e[1] = n} \cup (Members(s) \ {Head(s)})
  OBVIOUS
<1> HIDE DEF q
<1>4. /\ q \o Tail(s) \in Seq(Refs) /\ Distinct(q \o Tail(s))
      /\ Members(q \o Tail(s)) = Members(q) \cup Members(Tail(s))
  BY <1>1, <1>2, <1>3, JoinedRefs, Zenon
<1> QED BY <1>1, <1>2, <1>4, Zenon

LEMMA MarkGreyKeeps ==
  ASSUME IInv, mark_grey
  PROVE  IInv'
<1> DEFINE e == Head(todo)
           n == To[Head(todo)]
           p == col[To[Head(todo)]] # "grey"
<1>1. /\ phase = "mark" /\ todo # <<>> /\ UNCHANGED <<buf, roots, to_free, phase, current, blacken>>
      /\ rc' = [rc EXCEPT ![n] = @ - 1] /\ col' = [col EXCEPT ![n] = "grey"]
      /\ todo' = (IF col[n] = "grey" THEN <<>> ELSE RefsOf[n]) \o Tail(todo)
  BY Zenon DEF mark_grey
<1>2. PhasesTypeOK /\ Stacks /\ Counted /\ Marking
  BY Zenon DEF IInv
<1>3. UNCHANGED graphVars /\ KeepsGraph /\ GraphOK'
  BY <1>2, SameGraph, GraphKept, Zenon DEF mark_grey
<1>4. todo' = (IF p THEN RefsOf[n] ELSE <<>>) \o Tail(todo)
  BY <1>1, Zenon
<1>5. todo \in Seq(Refs) /\ Distinct(todo) /\ e \in Refs /\ e \in Todo
  BY <1>1, <1>2, PoppedFacts, Zenon DEF PhasesTypeOK, Stacks, Todo
<1>6. n \in Nodes /\ e[1] \in Nodes
  BY <1>2, <1>5, RefFacts, Zenon
<1>7. \A f \in Members(todo) : col[f[1]] = "grey"
  BY <1>1, <1>2, Zenon DEF Marking, Todo
<1>8. /\ todo' \in Seq(Refs) /\ Distinct(todo')
      /\ Todo' = {f \in Refs : p /\ f[1] = n} \cup (Todo \ {e})
  <2>1. p => \A f \in Members(todo) : f[1] # n
    BY <1>7, Zenon
  <2>2. p \in BOOLEAN
    OBVIOUS
  <2> DEFINE t == (IF p THEN RefsOf[n] ELSE <<>>) \o Tail(todo)
  <2> HIDE DEF p
  <2>3. /\ t \in Seq(Refs) /\ Distinct(t)
        /\ Members(t) = {f \in Refs : p /\ f[1] = n} \cup (Members(todo) \ {Head(todo)})
    BY <1>1, <1>2, <1>5, <1>6, <2>1, <2>2, Pushed
  <2>4. todo' = t
    BY <1>4, Zenon
  <2> HIDE DEF t
  <2> QED BY <2>3, <2>4, Zenon DEF Todo
<1>9. /\ col' \in [Nodes -> {"black", "white", "grey", "purple"}] /\ col'[n] = "grey"
      /\ \A x \in Nodes : x # n => col'[x] = col[x]
      /\ \A x \in Nodes : col'[x] = "grey" <=> x = n \/ col[x] = "grey"
  BY <1>1, <1>2, <1>6 DEF PhasesTypeOK
<1>10. rc' \in [Nodes -> Int] /\ rc \in [Nodes -> Int]
  BY <1>1, <1>2, <1>6 DEF PhasesTypeOK
<1>11. Scanning' /\ Collecting' /\ Finished'
  BY <1>1, MarkOnly, Zenon
<1>12. PhasesTypeOK'
  BY <1>1, <1>2, <1>3, <1>8, <1>9, <1>10, Zenon DEF PhasesTypeOK, KeepsGraph
<1>13. Stacks'
  BY <1>1, <1>2, <1>3, <1>8, Zenon DEF Stacks, KeepsGraph, Roots, Current
<1>14. e \notin Off /\ Off' = Off \cup {e}
  <2>1. e \notin Off
    BY <1>1, <1>5, Zenon DEF Off
  <2>2. Off = {f \in Refs : col[f[1]] = "grey" /\ f \notin Todo}
    BY <1>1, Zenon DEF Off
  <2>3. Off' = {f \in Refs : col'[f[1]] = "grey" /\ f \notin Todo'}
    BY <1>1, <1>3, Zenon DEF Off, KeepsGraph
  <2>4. col[e[1]] = "grey" /\ \A f \in Refs : f[1] \in Nodes
    BY <1>2, <1>5, <1>7, RefFacts, Zenon DEF Todo
  <2>5. ASSUME NEW f \in Refs PROVE f \in Off' <=> f \in Off \/ f = e
    <3>1. CASE f = e
      BY <1>8, <1>9, <2>3, <2>4, <3>1, Zenon
    <3>2. CASE f # e
      BY <1>8, <1>9, <2>2, <2>3, <2>4, <3>2, Zenon
    <3> QED BY <3>1, <3>2
  <2> QED BY <1>5, <2>1, <2>2, <2>3, <2>5, Zenon
<1>15. Counted'
  <2>1. CountedAs(rc', Off', buf')
    BY <1>1, <1>2, <1>5, <1>10, <1>14, TakenOff, Zenon DEF Counted
  <2> QED BY <1>3, <2>1, CountedNext, Zenon
<1>16. Marking'
  <2>1. \A x \in Nodes : col'[x] # "white"
    BY <1>1, <1>2, <1>9 DEF Marking
  <2>2. \A x \in Nodes : col'[x] = "purple" <=> x \in Members(began)' /\ col'[x] # "grey"
    BY <1>1, <1>2, <1>3, <1>9 DEF Marking, KeepsGraph
  <2>3. Members(began)' \ Current' \subseteq {x \in Nodes : col'[x] = "grey"}
    BY <1>1, <1>2, <1>3, <1>9, Zenon DEF Marking, KeepsGraph, Current
  <2>4. \A f \in Todo' : col'[f[1]] = "grey"
    BY <1>2, <1>5, <1>7, <1>8, <1>9, RefFacts, MembersType, Zenon DEF Todo
  <2>5. \A f \in Refs' : col'[f[1]] = "grey" => f \in Todo' \/ col'[To'[f]] = "grey"
    <3> SUFFICES ASSUME NEW f \in Refs, col'[f[1]] = "grey", f \notin Todo'
                 PROVE  col'[To[f]] = "grey"
      BY <1>3, Zenon DEF KeepsGraph
    <3>1. f[1] \in Nodes /\ To[f] \in Nodes
      BY <1>2, RefFacts, Zenon
    <3>2. CASE f = e
      BY <1>9, <3>2, Zenon
    <3>3. CASE f # e
      <4>1. f \notin Todo /\ (p => f[1] # n)
        BY <1>8, <3>3, Zenon
      <4>2. col[f[1]] = "grey"
        BY <1>9, <3>1, <4>1, Zenon
      <4>3. col[To[f]] = "grey"
        BY <1>1, <1>2, <4>1, <4>2, Zenon DEF Marking
      <4> QED BY <1>9, <3>1, <4>3, Zenon
    <3> QED BY <3>2, <3>3
  <2>6. ASSUME NEW S \in SelfContainedSets, Roots \ Current \subseteq S,
               NEW x \in Nodes, col'[x] = "grey"
        PROVE  x \in S
    <3>1. \A y \in Nodes : col[y] = "grey" => y \in S
      BY <1>1, <1>2, <2>6, Zenon DEF Marking
    <3>2. n \in S
      <4>1. e[1] \in S
        BY <1>5, <1>6, <1>7, <3>1, Zenon DEF Todo
      <4>2. S \in SUBSET Nodes
        BY Zenon DEF SelfContainedSets
      <4> QED BY <1>5, <4>1, <4>2, FollowingFacts, Zenon
    <3> QED BY <1>9, <2>6, <3>1, <3>2, Zenon
  <2>7. \A S \in SelfContainedSets' : Roots' \ Current' \subseteq S =>
          {x \in Nodes : col'[x] = "grey"} \subseteq S
    BY <1>1, <1>3, <2>6, Zenon DEF KeepsGraph, Roots, Current
  <2> QED BY <1>1, <1>2, <2>1, <2>2, <2>3, <2>4, <2>5, <2>7, Zenon DEF Marking
<1> QED BY <1>11, <1>12, <1>13, <1>15, <1>16, Zenon DEF IInv

\* Everything that the buffer led to is grey, and the roots that are left lead to it.
LEMMA MarkDoneKeeps ==
  ASSUME IInv, mark_done
  PROVE  IInv'
<1> DEFINE G == {n \in Nodes : col[n] = "grey"}
<1>1. /\ phase = "mark" /\ todo = <<>> /\ current = <<>> /\ phase' = "scan" /\ current' = roots
      /\ UNCHANGED <<rc, col, buf, roots, to_free, todo, blacken>>
  BY Zenon DEF mark_done
<1>2. PhasesTypeOK /\ Stacks /\ Counted /\ Marking
  BY Zenon DEF IInv
<1>3. UNCHANGED graphVars /\ KeepsGraph /\ GraphOK'
  BY <1>2, SameGraph, GraphKept, Zenon DEF mark_done
<1>4. Todo = {} /\ Todo' = {} /\ Current = {} /\ Current' = Roots /\ Roots' = Roots /\ Blacken = {} /\ Blacken' = {}
  BY <1>1, <1>2, NoneIn, Zenon DEF Todo, Current, Roots, Blacken, Marking
<1>5. Touched = G
  <2>1. Members(began) \subseteq G
    BY <1>1, <1>2, <1>4, Zenon DEF Marking
  <2>2. G \in SelfContainedSets
    <3>1. G \in SUBSET Nodes
      OBVIOUS
    <3>2. \A e \in Refs : e[1] \in G => To[e] \in G
      BY <1>1, <1>2, <1>4, RefFacts, Zenon DEF Marking
    <3> QED BY <3>1, <3>2, FollowingFacts, Zenon
  <2>3. Roots \subseteq Touched
    BY <1>2, TouchedFacts, Zenon DEF Stacks
  <2>4. Touched \subseteq G
    BY <1>2, <2>1, <2>2, TouchedFacts, Zenon
  <2>5. G \subseteq Touched
    BY <1>1, <1>2, <1>4, <2>3, TouchedFacts, Zenon DEF Marking
  <2> QED BY <2>4, <2>5, Zenon
<1>6. PhasesTypeOK'
  BY <1>1, <1>2, <1>3, Zenon DEF PhasesTypeOK, KeepsGraph
<1>7. Stacks'
  BY <1>1, <1>2, <1>3, <1>4, Zenon DEF Stacks, KeepsGraph
<1>8. Off' = Off
  BY <1>1, <1>2, <1>3, <1>4, RefFacts, Zenon DEF Off, KeepsGraph, Marking
<1>9. Counted'
  BY <1>1, <1>2, <1>3, <1>8, CountedNext, Zenon DEF Counted
<1>10. Marking' /\ Collecting' /\ Finished'
  BY <1>1, Zenon DEF Marking, Collecting, Finished
<1>11. Scanning'
  <2>1. \A n \in Touched : col[n] = "grey"
    BY <1>5, Zenon
  <2>2. \A n \in Nodes \ Touched : col[n] = "black"
    <3>1. \A n \in Nodes \ Touched : col[n] # "grey" /\ n \notin Members(began)
      BY <1>2, <1>5, TouchedFacts, Zenon
    <3> QED BY <1>1, <1>2, <3>1 DEF Marking, PhasesTypeOK
  <2>3. \A n \in Nodes : col[n] # "purple" /\ col[n] # "white"
    BY <2>1, <2>2
  <2>4. \A S \in SelfContainedSets : Roots \subseteq S => Touched \subseteq S
    BY <1>1, <1>2, <1>4, <1>5, Zenon DEF Marking
  <2>5. \A n \in Touched : col[n] # "black"
    BY <2>1
  <2>6. \A e \in Refs : e[1] \in Touched => col[e[1]] = "grey"
    BY <2>1, Zenon
  <2>7. to_free = <<>>
    BY <1>1, <1>2, Zenon DEF Marking
  <2> QED BY <1>1, <1>3, <1>4, <2>2, <2>3, <2>4, <2>5, <2>6, <2>7, Zenon DEF Scanning, KeepsGraph
<1> QED BY <1>6, <1>7, <1>9, <1>10, <1>11, Zenon DEF IInv

----------------------------------------------------------------------------
(* Scanning *)

LEMMA ScanOnly ==
  ASSUME phase' = "scan"
  PROVE  Marking' /\ Collecting' /\ Finished'
BY Zenon DEF Marking, Collecting, Finished

LEMMA RcNatural ==
  ASSUME PhasesTypeOK, Counted
  PROVE  \A n \in Nodes : rc[n] >= 0
<1> SUFFICES ASSUME NEW n \in Nodes PROVE rc[n] >= 0
  BY Zenon
<1>1. rc[n] = extra[n] + Cardinality(Into[n] \ Off) + IF buf[n] = "list" THEN 1 ELSE 0
  BY Zenon DEF Counted, CountedAs
<1>2. extra[n] \in Nat
  BY DEF PhasesTypeOK, GraphOK
<1>3. Cardinality(Into[n] \ Off) \in Nat
  BY IntoFacts, Zenon
<1> QED BY <1>1, <1>2, <1>3

\* A count above zero is a reference from outside, or from a node that is in use.
LEMMA PositiveInUse ==
  ASSUME PhasesTypeOK, Stacks, Counted, Scanning, phase = "scan", NEW n \in Nodes, rc[n] > 0
  PROVE  n \in InUse
<1>1. rc[n] = extra[n] + Cardinality(Into[n] \ Off) + IF buf[n] = "list" THEN 1 ELSE 0
  BY Zenon DEF Counted, CountedAs
<1>2. buf[n] # "list"
  BY NoneIn, Zenon DEF Stacks, Scanning
<1>3. extra[n] \in Nat
  BY DEF PhasesTypeOK, GraphOK
<1>4. IsFiniteSet(Into[n] \ Off) /\ Cardinality(Into[n] \ Off) \in Nat
  BY IntoFacts, Zenon
<1>5. CASE extra[n] > 0
  BY <1>5, InUseFacts, Zenon
<1>6. CASE ~(extra[n] > 0)
  <2>1. Cardinality(Into[n] \ Off) # 0
    BY <1>1, <1>2, <1>3, <1>4, <1>6
  <2>2. PICK e : e \in Into[n] \ Off
    BY <2>1, FS_EmptySet, Zenon
  <2>3. e \in Refs /\ To[e] = n /\ e[1] \in Nodes
    BY <2>2, RefFacts, Zenon
  <2>4. col[e[1]] \notin {"grey", "white"}
    BY <2>2, <2>3, Zenon DEF Off
  <2>5. col[e[1]] = "black"
    BY <2>3, <2>4 DEF Scanning, PhasesTypeOK
  <2>6. e[1] \in InUse
    BY <2>3, <2>5, InUseFacts, Zenon DEF Scanning
  <2> QED BY <2>3, <2>6, InUseFacts, FollowingFacts, Zenon
<1> QED BY <1>5, <1>6

\* One visit, to a root or along a reference.
LEMMA ScanStep ==
  ASSUME IInv, phase = "scan", blacken = <<>>, NEW n \in Nodes,
         NEW q \in Seq(Refs), Distinct(q), Members(q) \subseteq Todo,
         \A f \in Todo \ Members(q) : To[f] = n,
         current' \in Seq(Nodes), Distinct(current'), Current' \subseteq Current,
         Current \ Current' \subseteq {n},
         Scan(n, q), UNCHANGED <<graphVars, rc, buf, roots, to_free, phase>>
  PROVE  IInv'
<1>1. /\ refs' = refs /\ extra' = extra /\ began' = began
      /\ rc' = rc /\ buf' = buf /\ roots' = roots /\ to_free' = to_free /\ phase' = phase
  BY DEF graphVars
<1>2. PhasesTypeOK /\ Stacks /\ Counted /\ Scanning
  BY Zenon DEF IInv
<1>3. UNCHANGED graphVars /\ KeepsGraph /\ GraphOK'
  BY <1>2, SameGraph, GraphKept, Zenon
<1>4. Blacken = {} /\ Roots' = Roots
  BY <1>1, NoneIn, Zenon DEF Blacken, Roots
<1>5. Marking' /\ Collecting' /\ Finished'
  BY <1>1, ScanOnly, Zenon
<1>6. /\ Touched \subseteq Nodes /\ \A e \in Refs : e[1] \in Nodes /\ To[e] \in Nodes
      /\ Todo \subseteq Refs
  BY <1>2, RefFacts, TouchedFacts, MembersType, Zenon DEF PhasesTypeOK, Todo
<1>7. ASSUME todo' \in Seq(Refs), blacken' \in Seq(Refs), Distinct(todo'), Distinct(blacken'),
             col' \in [Nodes -> {"black", "white", "grey", "purple"}], Off' = Off, Scanning'
      PROVE  IInv'
  <2>1. PhasesTypeOK'
    BY <1>1, <1>2, <1>3, <1>7, Zenon DEF PhasesTypeOK, KeepsGraph
  <2>2. Stacks'
    BY <1>1, <1>2, <1>3, <1>4, <1>7, Zenon DEF Stacks, KeepsGraph
  <2>3. Counted'
    BY <1>1, <1>2, <1>3, <1>7, CountedNext, Zenon DEF Counted
  <2> QED BY <1>5, <1>7, <2>1, <2>2, <2>3, Zenon DEF IInv
<1>8. CASE col[n] # "grey" /\ todo' = q /\ UNCHANGED <<col, blacken>>
  <2>1. Todo' = Members(q) /\ Blacken' = {}
    BY <1>4, <1>8, Zenon DEF Todo, Blacken
  <2>2. Off' = Off
    BY <1>1, <1>3, <1>4, <1>8, <2>1, Zenon DEF Off, KeepsGraph
  <2>3. \A x \in Roots \ Current' : col[x] # "grey"
    BY <1>2, <1>8, Zenon DEF Scanning
  <2>4. \A e \in Refs : e[1] \in Touched /\ col[e[1]] # "grey" => e \in Todo' \/ col[To[e]] # "grey"
    BY <1>2, <1>4, <1>8, <2>1, Zenon DEF Scanning
  <2>5. Scanning'
    BY <1>1, <1>2, <1>3, <1>4, <1>8, <2>1, <2>3, <2>4, Zenon DEF Scanning, KeepsGraph
  <2> QED BY <1>2, <1>7, <1>8, <2>2, <2>5, Zenon DEF PhasesTypeOK, Stacks
<1>9. CASE /\ col[n] = "grey" /\ rc[n] > 0
           /\ col' = [col EXCEPT ![n] = "black"] /\ blacken' = RefsOf[n] /\ todo' = q
  <2>1. /\ blacken' \in Seq(Refs) /\ Distinct(blacken') /\ Blacken' = {e \in Refs : e[1] = n}
        /\ Todo' = Members(q)
    BY <1>2, <1>9, RefsOfFacts, Zenon DEF Blacken, Todo
  <2>2. /\ col' \in [Nodes -> {"black", "white", "grey", "purple"}] /\ col'[n] = "black"
        /\ \A x \in Nodes : x # n => col'[x] = col[x]
    BY <1>2, <1>9 DEF PhasesTypeOK
  <2>3. n \in Touched /\ n \in InUse
    BY <1>2, <1>9, PositiveInUse DEF Scanning
  <2>4. Off' = Off
    <3>1. Off = {e \in Refs : col[e[1]] \in {"grey", "white"}}
      BY <1>4, Zenon DEF Off
    <3>2. Off' = {e \in Refs : col'[e[1]] \in {"grey", "white"} \/ e \in Blacken'}
      BY <1>1, <1>3, Zenon DEF Off, KeepsGraph
    <3>3. ASSUME NEW e \in Refs PROVE e \in Off' <=> e \in Off
      <4>1. CASE e[1] = n
        BY <1>9, <2>1, <3>1, <3>2, <4>1
      <4>2. CASE e[1] # n
        BY <1>6, <2>1, <2>2, <3>1, <3>2, <4>2, Zenon
      <4> QED BY <4>1, <4>2
    <3> QED BY <3>1, <3>2, <3>3, Zenon
  <2>5. Scanning'
    <3>1. \A x \in Nodes : col'[x] # "purple" /\ (x \notin Touched => col'[x] = "black")
      BY <1>2, <2>2 DEF Scanning
    <3>2. \A x \in Nodes : col'[x] = "grey" => col[x] = "grey" /\ x # n
      BY <2>2
    <3>3. \A x \in Roots \ Current' : col'[x] # "grey"
      <4>1. Roots \subseteq Nodes
        BY <1>2, MembersType, Zenon DEF Roots, PhasesTypeOK
      <4> QED BY <1>2, <3>2, <4>1, Zenon DEF Scanning
    <3>4. \A e \in Todo' : col'[e[1]] # "grey"
      BY <1>2, <1>6, <2>1, <3>2, Zenon DEF Scanning
    <3>5. \A e \in Blacken' : col'[e[1]] = "black" /\ e[1] \in Touched
      BY <2>1, <2>2, <2>3, Zenon
    <3>6. ASSUME NEW e \in Refs, e[1] \in Touched, col'[e[1]] # "grey",
                 e \notin Todo', e \notin Blacken'
          PROVE  col'[To[e]] # "grey"
      <4>1. e[1] # n
        BY <2>1, <3>6, Zenon
      <4>2. col[e[1]] # "grey"
        BY <1>6, <2>2, <3>6, <4>1, Zenon
      <4>3. e \in Todo \/ col[To[e]] # "grey"
        BY <1>2, <1>4, <3>6, <4>2, Zenon DEF Scanning
      <4> QED BY <1>6, <2>1, <3>2, <3>6, <4>3, Zenon
    <3>7. \A x \in Nodes : col'[x] = "white" => rc[x] = 0
      BY <1>2, <2>2 DEF Scanning
    <3>8. \A x \in Touched : col'[x] = "black" => x \in InUse
      BY <1>2, <1>6, <2>2, <2>3, Zenon DEF Scanning
    <3> QED BY <1>1, <1>2, <1>3, <1>4, <3>1, <3>3, <3>4, <3>5, <3>6, <3>7, <3>8, Zenon
            DEF Scanning, KeepsGraph
  <2> QED BY <1>7, <1>9, <2>1, <2>2, <2>4, <2>5, Zenon
<1>10. CASE /\ col[n] = "grey" /\ rc[n] <= 0
            /\ col' = [col EXCEPT ![n] = "white"] /\ todo' = RefsOf[n] \o q /\ UNCHANGED blacken
  <2>1. /\ RefsOf[n] \in Seq(Refs) /\ Distinct(RefsOf[n])
        /\ Members(RefsOf[n]) = {e \in Refs : e[1] = n}
    BY <1>2, RefsOfFacts, Zenon
  <2>2. Members(RefsOf[n]) \cap Members(q) = {}
    BY <1>2, <1>10, <2>1, Zenon DEF Scanning
  <2>3. /\ RefsOf[n] \o q \in Seq(Refs) /\ Distinct(RefsOf[n] \o q)
        /\ Members(RefsOf[n] \o q) = Members(RefsOf[n]) \cup Members(q)
    BY <2>1, <2>2, JoinedRefs, Zenon
  <2>4. /\ todo' \in Seq(Refs) /\ Distinct(todo')
        /\ Todo' = {e \in Refs : e[1] = n} \cup Members(q) /\ Blacken' = {}
    BY <1>4, <1>10, <2>1, <2>3, Zenon DEF Todo, Blacken
  <2>5. /\ col' \in [Nodes -> {"black", "white", "grey", "purple"}] /\ col'[n] = "white"
        /\ \A x \in Nodes : x # n => col'[x] = col[x]
    BY <1>2, <1>10 DEF PhasesTypeOK
  <2>6. n \in Touched /\ rc[n] = 0
    <3>1. rc[n] >= 0 /\ rc[n] \in Int
      BY <1>2, RcNatural DEF PhasesTypeOK
    <3> QED BY <1>2, <1>10, <3>1 DEF Scanning
  <2>7. Off' = Off
    <3>1. Off = {e \in Refs : col[e[1]] \in {"grey", "white"}}
      BY <1>4, Zenon DEF Off
    <3>2. Off' = {e \in Refs : col'[e[1]] \in {"grey", "white"}}
      BY <1>1, <1>3, <2>4, Zenon DEF Off, KeepsGraph
    <3>3. \A x \in Nodes : col'[x] \in {"grey", "white"} <=> col[x] \in {"grey", "white"}
      BY <1>10, <2>5
    <3> QED BY <1>6, <3>1, <3>2, <3>3, Zenon
  <2>8. Scanning'
    <3>1. \A x \in Nodes : col'[x] # "purple" /\ (x \notin Touched => col'[x] = "black")
      BY <1>2, <2>5, <2>6 DEF Scanning
    <3>2. \A x \in Nodes : col'[x] = "grey" => col[x] = "grey" /\ x # n
      BY <2>5
    <3>3. \A x \in Roots \ Current' : col'[x] # "grey"
      <4>1. Roots \subseteq Nodes
        BY <1>2, MembersType, Zenon DEF Roots, PhasesTypeOK
      <4> QED BY <1>2, <3>2, <4>1, Zenon DEF Scanning
    <3>4. \A e \in Todo' : col'[e[1]] # "grey"
      BY <1>2, <1>6, <2>4, <3>2, Zenon DEF Scanning
    <3>5. ASSUME NEW e \in Refs, e[1] \in Touched, col'[e[1]] # "grey", e \notin Todo'
          PROVE  col'[To[e]] # "grey"
      <4>1. e[1] # n
        BY <2>4, <3>5, Zenon
      <4>2. col[e[1]] # "grey"
        BY <1>6, <2>5, <3>5, <4>1, Zenon
      <4>3. e \in Todo \/ col[To[e]] # "grey"
        BY <1>2, <1>4, <3>5, <4>2, Zenon DEF Scanning
      <4> QED BY <1>6, <2>4, <3>2, <3>5, <4>3, Zenon
    <3>6. \A x \in Nodes : col'[x] = "white" => rc[x] = 0
      BY <1>2, <2>5, <2>6, Zenon DEF Scanning
    <3>7. \A x \in Touched : col'[x] = "black" => x \in InUse
      <4>1. \A x \in Nodes : col'[x] = "black" => col[x] = "black"
        BY <2>5
      <4> QED BY <1>2, <1>6, <4>1, Zenon DEF Scanning
    <3> QED BY <1>1, <1>2, <1>3, <1>4, <2>4, <3>1, <3>3, <3>4, <3>5, <3>6, <3>7, Zenon
            DEF Scanning, KeepsGraph
  <2> QED BY <1>2, <1>7, <1>10, <2>4, <2>5, <2>7, <2>8, Zenon DEF PhasesTypeOK, Stacks
<1> QED BY <1>8, <1>9, <1>10, Zenon DEF Scan

LEMMA ScanRootKeeps ==
  ASSUME IInv, scan_root
  PROVE  IInv'
<1> DEFINE n == Head(current)
<1>1. /\ phase = "scan" /\ blacken = <<>> /\ todo = <<>> /\ current # <<>>
      /\ current' = Tail(current) /\ Scan(n, <<>>)
      /\ UNCHANGED <<graphVars, rc, buf, roots, to_free, phase>>
  BY Zenon DEF scan_root
<1>2. /\ n \in Nodes /\ current' \in Seq(Nodes) /\ Distinct(current')
      /\ Current' = Current \ {n}
  BY <1>1, PoppedFacts, Zenon DEF IInv, Current, PhasesTypeOK, Stacks
<1>3. <<>> \in Seq(Refs)
  OBVIOUS
<1>4. Distinct(<<>>) /\ Members(<<>>) \subseteq Todo /\ \A f \in Todo \ Members(<<>>) : To[f] = n
  BY <1>1, NoneIn, Zenon DEF Todo
<1>5. Current' \subseteq Current /\ Current \ Current' \subseteq {n}
  BY <1>2, Zenon
<1> HIDE DEF n
<1> QED BY <1>1, <1>2, <1>3, <1>4, <1>5, ScanStep, Zenon

LEMMA ScanKeeps ==
  ASSUME IInv, scan
  PROVE  IInv'
<1> DEFINE n == To[Head(todo)]
           q == Tail(todo)
<1>1. /\ phase = "scan" /\ blacken = <<>> /\ todo # <<>> /\ Scan(n, q)
      /\ UNCHANGED <<graphVars, rc, buf, roots, to_free, phase>> /\ current' = current
  BY Zenon DEF scan
<1>2. PhasesTypeOK /\ Stacks
  BY Zenon DEF IInv
<1>3. /\ Head(todo) \in Todo /\ Head(todo) \in Refs /\ q \in Seq(Refs) /\ Distinct(q)
      /\ Members(q) = Todo \ {Head(todo)}
  BY <1>1, <1>2, PoppedFacts, Zenon DEF Todo, PhasesTypeOK, Stacks
<1>4. n \in Nodes
  BY <1>2, <1>3, RefFacts, Zenon
<1>5. Members(q) \subseteq Todo /\ \A f \in Todo \ Members(q) : To[f] = n
  BY <1>3, Zenon
<1>6. /\ current' \in Seq(Nodes) /\ Distinct(current') /\ Current' \subseteq Current
      /\ Current \ Current' \subseteq {n}
  BY <1>1, <1>2, Zenon DEF PhasesTypeOK, Stacks, Current
<1> HIDE DEF n, q
<1> QED BY <1>1, <1>3, <1>4, <1>5, <1>6, ScanStep, Zenon

LEMMA ScanBlackKeeps ==
  ASSUME IInv, scan_black
  PROVE  IInv'
<1> DEFINE e == Head(blacken)
           n == To[Head(blacken)]
           p == col[To[Head(blacken)]] # "black"
<1>1. /\ phase = "scan" /\ blacken # <<>> /\ UNCHANGED <<buf, roots, to_free, phase, current, todo>>
      /\ rc' = [rc EXCEPT ![n] = @ + 1] /\ col' = [col EXCEPT ![n] = "black"]
      /\ blacken' = (IF col[n] = "black" THEN <<>> ELSE RefsOf[n]) \o Tail(blacken)
  BY Zenon DEF scan_black
<1>2. PhasesTypeOK /\ Stacks /\ Counted /\ Scanning
  BY Zenon DEF IInv
<1>3. UNCHANGED graphVars /\ KeepsGraph /\ GraphOK'
  BY <1>2, SameGraph, GraphKept, Zenon DEF scan_black
<1>4. blacken' = (IF p THEN RefsOf[n] ELSE <<>>) \o Tail(blacken)
  BY <1>1, Zenon
<1>5. blacken \in Seq(Refs) /\ Distinct(blacken) /\ e \in Refs /\ e \in Blacken
  BY <1>1, <1>2, PoppedFacts, Zenon DEF PhasesTypeOK, Stacks, Blacken
<1>6. /\ n \in Nodes /\ e[1] \in Nodes /\ \A f \in Refs : f[1] \in Nodes /\ To[f] \in Nodes
      /\ Touched \subseteq Nodes /\ Todo \subseteq Refs /\ Blacken \subseteq Refs
  BY <1>2, <1>5, RefFacts, TouchedFacts, MembersType, Zenon DEF PhasesTypeOK, Todo, Blacken
<1>7. \A f \in Members(blacken) : col[f[1]] = "black" /\ f[1] \in Touched
  BY <1>1, <1>2, Zenon DEF Scanning, Blacken
<1>8. /\ blacken' \in Seq(Refs) /\ Distinct(blacken')
      /\ Blacken' = {f \in Refs : p /\ f[1] = n} \cup (Blacken \ {e})
  <2>1. p => \A f \in Members(blacken) : f[1] # n
    BY <1>7, Zenon
  <2>2. p \in BOOLEAN
    OBVIOUS
  <2> DEFINE t == (IF p THEN RefsOf[n] ELSE <<>>) \o Tail(blacken)
  <2> HIDE DEF p
  <2>3. /\ t \in Seq(Refs) /\ Distinct(t)
        /\ Members(t) = {f \in Refs : p /\ f[1] = n} \cup (Members(blacken) \ {Head(blacken)})
    BY <1>1, <1>2, <1>5, <1>6, <2>1, <2>2, Pushed
  <2>4. blacken' = t
    BY <1>4, Zenon
  <2> HIDE DEF t
  <2> QED BY <2>3, <2>4, Zenon DEF Blacken
<1>9. /\ col' \in [Nodes -> {"black", "white", "grey", "purple"}] /\ col'[n] = "black"
      /\ \A x \in Nodes : x # n => col'[x] = col[x]
  BY <1>1, <1>2, <1>6 DEF PhasesTypeOK
<1>10. /\ rc' \in [Nodes -> Int] /\ rc \in [Nodes -> Int]
       /\ \A x \in Nodes : x # n => rc'[x] = rc[x]
  BY <1>1, <1>2, <1>6 DEF PhasesTypeOK
<1>11. Marking' /\ Collecting' /\ Finished'
  BY <1>1, ScanOnly, Zenon
<1>12. PhasesTypeOK'
  BY <1>1, <1>2, <1>3, <1>8, <1>9, <1>10, Zenon DEF PhasesTypeOK, KeepsGraph
<1>13. Stacks'
  BY <1>1, <1>2, <1>3, <1>8, Zenon DEF Stacks, KeepsGraph, Roots, Current
<1>14. n \in Touched /\ n \in InUse
  <2>1. e[1] \in Touched /\ e[1] \in InUse
    BY <1>1, <1>2, <1>5, <1>7, Zenon DEF Scanning, Blacken
  <2> QED BY <1>2, <1>5, <2>1, TouchedFacts, InUseFacts, FollowingFacts, Zenon
<1>15. e \in Off /\ Off' = Off \ {e}
  <2>1. Off = {f \in Refs : col[f[1]] \in {"grey", "white"} \/ f \in Blacken}
    BY <1>1, Zenon DEF Off
  <2>2. Off' = {f \in Refs : col'[f[1]] \in {"grey", "white"} \/ f \in Blacken'}
    BY <1>1, <1>3, Zenon DEF Off, KeepsGraph
  <2>3. col[e[1]] = "black"
    BY <1>5, <1>7, Zenon DEF Blacken
  <2>4. ASSUME NEW f \in Refs PROVE f \in Off' <=> f \in Off /\ f # e
    <3>1. CASE f = e
      <4>1. f \notin Blacken'
        BY <1>8, <2>3, <3>1, Zenon
      <4>2. col'[f[1]] = "black"
        BY <1>6, <1>9, <2>3, <3>1, Zenon
      <4> QED BY <2>2, <3>1, <4>1, <4>2
    <3>2. CASE f # e /\ f[1] # n
      BY <1>6, <1>8, <1>9, <2>1, <2>2, <3>2, Zenon
    <3>3. CASE f # e /\ f[1] = n
      <4>1. p => col[n] \in {"grey", "white"}
        BY <1>1, <1>2, <1>6 DEF Scanning, PhasesTypeOK
      <4>2. f \in Off' <=> f \in Blacken'
        BY <1>9, <2>2, <3>3
      <4>3. f \in Off <=> p \/ f \in Blacken
        BY <2>1, <3>3, <4>1
      <4> QED BY <1>8, <3>3, <4>2, <4>3, Zenon
    <3> QED BY <3>1, <3>2, <3>3
  <2> QED BY <1>5, <2>1, <2>2, <2>4, Zenon
<1>16. Counted'
  <2>1. CountedAs(rc', Off', buf')
    BY <1>1, <1>2, <1>5, <1>10, <1>15, GivenBack, Zenon DEF Counted
  <2> QED BY <1>3, <2>1, CountedNext, Zenon
<1>17. Scanning'
  <2>1. \A x \in Nodes : col'[x] # "purple" /\ (x \notin Touched => col'[x] = "black")
    BY <1>1, <1>2, <1>9 DEF Scanning
  <2>2. \A x \in Nodes : col'[x] = "grey" => col[x] = "grey" /\ x # n
    BY <1>9
  <2>3. \A x \in Roots' \ Current' : col'[x] # "grey"
    <3>1. Roots' = Roots /\ Current' = Current /\ Roots \subseteq Nodes
      BY <1>1, <1>2, MembersType, Zenon DEF Roots, Current, PhasesTypeOK
    <3> QED BY <1>1, <1>2, <2>2, <3>1, Zenon DEF Scanning
  <2>4. \A f \in Todo' : col'[f[1]] # "grey"
    BY <1>1, <1>2, <1>6, <2>2, Zenon DEF Scanning, Todo
  <2>5. \A f \in Blacken' : col'[f[1]] = "black" /\ f[1] \in Touched
    BY <1>6, <1>7, <1>8, <1>9, <1>14, Zenon DEF Blacken
  <2>6. ASSUME NEW f \in Refs, f[1] \in Touched, col'[f[1]] # "grey",
               f \notin Todo', f \notin Blacken'
        PROVE  col'[To[f]] # "grey"
    <3>1. CASE f = e
      BY <1>9, <3>1
    <3>2. CASE f # e
      <4>1. f \notin Todo /\ f \notin Blacken /\ (p => f[1] # n)
        BY <1>1, <1>8, <2>6, <3>2, Zenon DEF Todo
      <4>2. col[f[1]] # "grey"
        <5>1. CASE f[1] = n
          BY <4>1, <5>1
        <5>2. CASE f[1] # n
          BY <1>6, <1>9, <2>6, <5>2, Zenon
        <5> QED BY <5>1, <5>2
      <4>3. col[To[f]] # "grey"
        BY <1>1, <1>2, <2>6, <4>1, <4>2, Zenon DEF Scanning
      <4> QED BY <1>6, <2>2, <4>3, Zenon
    <3> QED BY <3>1, <3>2
  <2>7. \A x \in Nodes : col'[x] = "white" => rc'[x] = 0
    BY <1>1, <1>2, <1>9, <1>10 DEF Scanning
  <2>8. \A x \in Touched : col'[x] = "black" => x \in InUse
    BY <1>1, <1>2, <1>6, <1>9, <1>14, Zenon DEF Scanning
  <2> QED BY <1>1, <1>2, <1>3, <2>1, <2>3, <2>4, <2>5, <2>6, <2>7, <2>8, Zenon
          DEF Scanning, KeepsGraph, Roots
<1> QED BY <1>11, <1>12, <1>13, <1>16, <1>17, Zenon DEF IInv

\* Nothing is grey any more, and what is white is the garbage.
LEMMA ScanDoneKeeps ==
  ASSUME IInv, scan_done
  PROVE  IInv'
<1>1. /\ phase = "scan" /\ blacken = <<>> /\ todo = <<>> /\ current = <<>>
      /\ phase' = "collect" /\ current' = roots
      /\ UNCHANGED <<rc, col, buf, roots, to_free, todo, blacken>>
  BY Zenon DEF scan_done
<1>2. PhasesTypeOK /\ Stacks /\ Counted /\ Scanning
  BY Zenon DEF IInv
<1>3. UNCHANGED graphVars /\ KeepsGraph /\ GraphOK'
  BY <1>2, SameGraph, GraphKept, Zenon DEF scan_done
<1>4. /\ Todo = {} /\ Todo' = {} /\ Current = {} /\ Current' = Roots /\ Roots' = Roots
      /\ Blacken = {} /\ Blacken' = {} /\ to_free = <<>>
  BY <1>1, <1>2, NoneIn, Zenon DEF Todo, Current, Roots, Blacken, Scanning
<1>5. /\ Touched \in SelfContainedSets /\ Touched \subseteq Nodes
      /\ \A e \in Refs : e[1] \in Nodes /\ To[e] \in Nodes
  BY <1>2, RefFacts, TouchedFacts, Zenon
<1>6. \A n \in Nodes : col[n] \in {"black", "white"}
  <2> DEFINE S == {n \in Touched : col[n] # "grey"}
  <2>1. S \in SUBSET Nodes
    BY <1>5, Zenon
  <2>2. \A e \in Refs : e[1] \in S => To[e] \in S
    BY <1>1, <1>2, <1>4, <1>5, FollowingFacts, Zenon DEF Scanning
  <2>3. Roots \subseteq S
    BY <1>1, <1>2, <1>4, TouchedFacts, Zenon DEF Scanning, Stacks
  <2>4. Touched \subseteq S
    BY <1>1, <1>2, <2>1, <2>2, <2>3, FollowingFacts, Zenon DEF Scanning
  <2> QED BY <1>1, <1>2, <2>4 DEF Scanning, PhasesTypeOK
<1>7. \A n \in Nodes : buf[n] # "list"
  BY <1>2, <1>4, NoneIn, Zenon DEF Stacks
<1>8. \A e \in Refs : col[To[e]] = "white" => col[e[1]] = "white"
  <2> SUFFICES ASSUME NEW e \in Refs, col[To[e]] = "white" PROVE col[e[1]] = "white"
    BY Zenon
  <2> DEFINE n == To[e]
  <2>1. n \in Nodes /\ e[1] \in Nodes /\ e \in Into[n]
    BY <1>2, <1>5, RefFacts, Zenon
  <2>2. rc[n] = 0
    BY <1>1, <1>2, <2>1, Zenon DEF Scanning
  <2>3. rc[n] = extra[n] + Cardinality(Into[n] \ Off) + IF buf[n] = "list" THEN 1 ELSE 0
    BY <1>2, <2>1, Zenon DEF Counted, CountedAs
  <2>4. extra[n] \in Nat
    BY <1>2, <2>1 DEF PhasesTypeOK, GraphOK
  <2>5. IsFiniteSet(Into[n] \ Off) /\ Cardinality(Into[n] \ Off) \in Nat
    BY <1>2, <2>1, IntoFacts, Zenon
  <2>6. Cardinality(Into[n] \ Off) = 0
    BY <1>7, <2>1, <2>2, <2>3, <2>4, <2>5
  <2>7. e \in Off
    BY <2>1, <2>5, <2>6, FS_EmptySet, Zenon
  <2> QED BY <1>1, <1>4, <1>6, <2>1, <2>7 DEF Off
<1>9. \A n \in Nodes : col[n] = "white" => extra[n] = 0
  <2> SUFFICES ASSUME NEW n \in Nodes, col[n] = "white" PROVE extra[n] = 0
    BY Zenon
  <2>1. rc[n] = 0
    BY <1>1, <1>2, Zenon DEF Scanning
  <2>2. rc[n] = extra[n] + Cardinality(Into[n] \ Off) + IF buf[n] = "list" THEN 1 ELSE 0
    BY <1>2, Zenon DEF Counted, CountedAs
  <2>3. extra[n] \in Nat
    BY <1>2 DEF PhasesTypeOK, GraphOK
  <2>4. Cardinality(Into[n] \ Off) \in Nat
    BY <1>2, IntoFacts, Zenon
  <2> QED BY <1>7, <2>1, <2>2, <2>3, <2>4
<1>10. \A n \in Nodes : n \in Garbage <=> col[n] = "white"
  <2> DEFINE S == {n \in Nodes : col[n] # "white"}
  <2>1. S \in SUBSET Nodes
    OBVIOUS
  <2>2. S \in SelfContainedSets
    BY <1>5, <1>8, <2>1, FollowingFacts, Zenon
  <2>3. \A n \in Nodes : extra[n] > 0 \/ n \notin Touched => n \in S
    BY <1>1, <1>2, <1>9 DEF Scanning
  <2>4. InUse \subseteq S
    BY <1>2, <2>2, <2>3, InUseFacts, Zenon
  <2>5. \A n \in Nodes : col[n] # "white" => col[n] = "black"
    BY <1>6
  <2>6. \A n \in Nodes : col[n] # "white" => n \in InUse
    BY <1>1, <1>2, <2>5, InUseFacts, Zenon DEF Scanning
  <2> QED BY <2>4, <2>6, Zenon DEF Garbage
<1>11. PhasesTypeOK'
  BY <1>1, <1>2, <1>3, Zenon DEF PhasesTypeOK, KeepsGraph
<1>12. Stacks'
  BY <1>1, <1>2, <1>3, <1>4, Zenon DEF Stacks, KeepsGraph
<1>13. Off' = Off
  <2>1. Off = {e \in Refs : col[e[1]] = "white"}
    BY <1>1, <1>4, <1>5, <1>6 DEF Off
  <2>2. Off' = {e \in Refs : col[e[1]] = "white"}
    BY <1>1, <1>3, <1>4, <1>5, <1>7, Zenon DEF Off, KeepsGraph
  <2> QED BY <2>1, <2>2, Zenon
<1>14. Counted'
  BY <1>1, <1>2, <1>3, <1>13, CountedNext, Zenon DEF Counted
<1>15. Marking' /\ Scanning' /\ Finished'
  BY <1>1, Zenon DEF Marking, Scanning, Finished
<1>16. Collecting'
  <2>1. Taken' = {}
    BY <1>1, <1>6, <1>7 DEF Taken
  <2>2. \A n \in Nodes \ Garbage' : col'[n] = "black" /\ buf'[n] # "list"
    BY <1>1, <1>3, <1>6, <1>7, <1>10 DEF KeepsGraph
  <2>3. \A n \in Garbage' : col'[n] = "white"
    BY <1>1, <1>3, <1>10, Zenon DEF KeepsGraph, Garbage
  <2>4. \A S \in SelfContainedSets' : Roots' \cup {n \in Touched' : col'[n] # "white"} \subseteq S =>
          Touched' \subseteq S
    BY <1>1, <1>2, <1>3, <1>4, Zenon DEF KeepsGraph, Scanning
  <2> QED BY <1>1, <1>4, <2>1, <2>2, <2>3, <2>4, Zenon DEF Collecting
<1> QED BY <1>11, <1>12, <1>14, <1>15, <1>16, Zenon DEF IInv

----------------------------------------------------------------------------
(* Collecting *)

LEMMA CollectOnly ==
  ASSUME phase' = "collect"
  PROVE  Marking' /\ Scanning' /\ Finished'
BY Zenon DEF Marking, Scanning, Finished

LEMMA ListedFacts ==
  ASSUME NEW s \in Seq(Values), Distinct(s), NEW n \in Values, n \notin Members(s)
  PROVE  /\ <<n>> \o s \in Seq(Values) /\ Distinct(<<n>> \o s)
         /\ Members(<<n>> \o s) = {n} \cup Members(s)
<1>1. <<n>> \in Seq(Values) /\ Distinct(<<n>>) /\ Members(<<n>>) = {n}
  BY DEF Distinct, Members
<1>2. Members(<<n>>) \cap Members(s) = {}
  BY <1>1, Zenon
<1>3. /\ <<n>> \o s \in Seq(Values) /\ Distinct(<<n>> \o s)
      /\ Members(<<n>> \o s) = Members(<<n>>) \cup Members(s)
  <2> DEFINE h == <<n>>
  <2> SUFFICES h \o s \in Seq(Values) /\ Distinct(h \o s) /\ Members(h \o s) = Members(h) \cup Members(s)
    OBVIOUS
  <2>1. h \in Seq(Values) /\ Distinct(h) /\ Members(h) \cap Members(s) = {}
    BY <1>1, <1>2, Zenon
  <2> HIDE DEF h
  <2> QED BY <2>1, JoinedFacts, SMT
<1> QED BY <1>1, <1>3, Zenon

\* One visit, to a root or along a reference.
LEMMA CollectStep ==
  ASSUME IInv, phase = "collect", NEW n \in Nodes, NEW k \in [Nodes -> Int],
         NEW b \in [Nodes -> {"none", "root", "list"}],
         NEW q \in Seq(Refs), Distinct(q), Members(q) \subseteq Todo,
         \A f \in Todo \ Members(q) : To[f] = n,
         NEW O, CountedAs(k, O, b),
         O = {e \in Refs : \/ col[e[1]] = "white" \/ e \in Members(q)
                           \/ e[1] \in ObjectZvals /\ buf[e[1]] = "list"},
         \A x \in Nodes : b[x] = "list" <=> buf[x] = "list",
         \A x \in Nodes : b[x] = "root" <=> x \in Roots',
         current' \in Seq(Nodes), Distinct(current'), roots' \in Seq(Nodes), Distinct(roots'),
         Current' = Roots', Roots' \subseteq Roots, Roots \ Roots' \subseteq {n},
         Collect(n, k, b, q), UNCHANGED <<graphVars, phase, blacken>>
  PROVE  IInv'
<1>1. phase' = "collect" /\ blacken' = blacken /\ refs' = refs /\ extra' = extra /\ began' = began
  BY DEF graphVars
<1>2. PhasesTypeOK /\ Stacks /\ Collecting
  BY Zenon DEF IInv
<1>3. UNCHANGED graphVars /\ KeepsGraph /\ GraphOK'
  BY <1>2, SameGraph, GraphKept, Zenon
<1>4. Marking' /\ Scanning' /\ Finished'
  BY <1>1, CollectOnly, Zenon
<1>5. /\ \A e \in Refs : e[1] \in Nodes /\ To[e] \in Nodes
      /\ Todo \subseteq Refs /\ Roots \subseteq Nodes /\ Roots \subseteq Touched
      /\ Touched \subseteq Nodes /\ Garbage \subseteq Nodes
  BY <1>2, RefFacts, TouchedFacts, MembersType, Zenon
     DEF PhasesTypeOK, Stacks, Todo, Roots, Garbage
<1>6. \A x \in Taken : x \in Nodes /\ col[x] # "white"
  BY <1>2 DEF Collecting, Taken
<1>7. blacken' = <<>> /\ blacken' \in Seq(Refs) /\ Distinct(blacken')
  <2>1. blacken = <<>>
    BY <1>2, Zenon DEF Collecting
  <2>2. blacken \in Seq(Refs) /\ Distinct(blacken)
    BY <1>2, Zenon DEF PhasesTypeOK, Stacks
  <2> QED BY <1>1, <2>1, <2>2, Zenon
<1>c. /\ \A x \in Nodes \ Garbage : col[x] = "black" /\ buf[x] # "list"
      /\ \A x \in Garbage : x \in Taken \/ col[x] = "white"
  BY <1>2, Zenon DEF Collecting
<1>d. \A e \in Refs : e[1] \in Taken =>
        e \in Todo \/ To[e] \in Roots \/ To[e] \in Taken \/ To[e] \notin Garbage
  BY <1>2, Zenon DEF Collecting
<1>8. ASSUME todo' \in Seq(Refs), Distinct(todo'), rc' \in [Nodes -> Int],
             col' \in [Nodes -> {"black", "white", "grey", "purple"}],
             buf' \in [Nodes -> {"none", "root", "list"}],
             to_free' \in Seq(Values), Distinct(to_free'),
             Members(to_free') = {x \in Nodes : buf'[x] = "list"},
             \A x \in Nodes : buf'[x] = "root" <=> x \in Roots',
             CountedAs(rc', Off', buf'), Collecting'
      PROVE  IInv'
  <2>1. PhasesTypeOK'
    BY <1>1, <1>3, <1>7, <1>8 DEF PhasesTypeOK, KeepsGraph
  <2>2. Roots' \subseteq Members(began)'
    BY <1>2, <1>3, Zenon DEF Stacks, KeepsGraph
  <2>3. Stacks'
    BY <1>7, <1>8, <2>2, Zenon DEF Stacks
  <2>4. Counted'
    BY <1>3, <1>8, CountedNext, Zenon
  <2> QED BY <1>4, <1>8, <2>1, <2>3, <2>4, Zenon DEF IInv
<1>9. CASE /\ ~(col[n] = "white" /\ b[n] = "none")
           /\ todo' = q /\ rc' = k /\ buf' = b /\ UNCHANGED <<col, to_free>>
  <2>1. Todo' = Members(q)
    BY <1>9, Zenon DEF Todo
  <2>2. Off' = O
    BY <1>1, <1>3, <1>5, <1>9, <2>1, Zenon DEF Off, KeepsGraph
  <2>3. Taken' = Taken
    BY <1>9, Zenon DEF Taken
  <2>4. n \in Roots' \/ n \in Taken \/ n \notin Garbage
    <3>1. b[n] = "none" \/ b[n] = "root" \/ b[n] = "list"
      OBVIOUS
    <3> QED BY <1>2, <1>9, <3>1, Zenon DEF Collecting, Taken
  <2>5. n \in Roots \ Roots' => col[n] # "white"
    <3>1. b[n] = "none" \/ b[n] = "root" \/ b[n] = "list"
      OBVIOUS
    <3> QED BY <1>6, <1>9, <3>1, Zenon DEF Taken
  <2>6. Collecting'
    <3>1. \A x \in Nodes \ Garbage' : col'[x] = "black" /\ buf'[x] # "list"
      BY <1>2, <1>3, <1>9, Zenon DEF Collecting, KeepsGraph
    <3>2. \A x \in Garbage' : x \in Taken' \/ col'[x] = "white"
      BY <1>2, <1>3, <1>9, <2>3, Zenon DEF Collecting, KeepsGraph
    <3>3. ASSUME NEW x \in Taken'
          PROVE  IF x \in Values THEN buf'[x] = "list" /\ col'[x] = "black"
                 ELSE buf'[x] = "none" /\ col'[x] = "purple"
      <4>1. x \in Nodes /\ IF x \in Values THEN buf[x] = "list" /\ col[x] = "black"
                           ELSE buf[x] = "none" /\ col[x] = "purple"
        BY <1>2, <1>6, <2>3, <3>3, Zenon DEF Collecting
      <4>2. buf[x] = "none" => b[x] = "none"
        <5>1. buf[x] = "none" => x \notin Roots
          BY <1>2, <4>1 DEF Stacks
        <5> QED BY <4>1, <5>1
      <4> QED BY <1>9, <4>1, <4>2, Zenon
    <3>4. \A e \in Todo' : e[1] \in Taken'
      BY <1>2, <2>1, <2>3, Zenon DEF Collecting
    <3>5. \A e \in Refs' : e[1] \in Taken' =>
            e \in Todo' \/ To'[e] \in Roots' \/ To'[e] \in Taken' \/ To'[e] \notin Garbage'
      <4> SUFFICES ASSUME NEW e \in Refs, e[1] \in Taken, e \notin Members(q)
                   PROVE  To[e] \in Roots' \/ To[e] \in Taken \/ To[e] \notin Garbage
        BY <1>3, <2>1, <2>3, Zenon DEF KeepsGraph
      <4>1. To[e] = n \/ To[e] \in Roots' \/ To[e] \in Taken \/ To[e] \notin Garbage
        BY <1>d, Zenon
      <4> QED BY <2>4, <4>1, Zenon
    <3>6. \A S \in SelfContainedSets' :
            Roots' \cup {x \in Touched' : col'[x] # "white"} \subseteq S => Touched' \subseteq S
      <4>1. Roots \cup {x \in Touched : col[x] # "white"}
              \subseteq Roots' \cup {x \in Touched' : col'[x] # "white"}
        <5>1. Touched' = Touched /\ col' = col
          BY <1>3, <1>9, Zenon DEF KeepsGraph
        <5>2. ASSUME NEW x \in Roots, x \notin Roots' PROVE x \in Touched /\ col[x] # "white"
          BY <1>5, <2>5, <5>2, Zenon
        <5> QED BY <5>1, <5>2, Zenon
      <4> QED BY <1>2, <1>3, <4>1, Zenon DEF Collecting, KeepsGraph
    <3> QED BY <1>7, <3>1, <3>2, <3>3, <3>4, <3>5, <3>6, Zenon DEF Collecting
  <2>7. Members(to_free') = {x \in Nodes : buf'[x] = "list"}
    BY <1>2, <1>9, Zenon DEF Stacks
  <2> QED BY <1>2, <1>8, <1>9, <2>2, <2>6, <2>7, Zenon DEF PhasesTypeOK, Stacks
<1>10. ASSUME col[n] = "white", b[n] = "none", todo' = RefsOf[n] \o q
       PROVE  /\ todo' \in Seq(Refs) /\ Distinct(todo')
              /\ Todo' = {e \in Refs : e[1] = n} \cup Members(q)
              /\ n \in Garbage /\ n \notin Roots' /\ n \notin Taken
  <2>1. /\ RefsOf[n] \in Seq(Refs) /\ Distinct(RefsOf[n])
        /\ Members(RefsOf[n]) = {e \in Refs : e[1] = n}
    BY <1>2, RefsOfFacts, Zenon
  <2>2. Members(RefsOf[n]) \cap Members(q) = {}
    BY <1>2, <1>6, <1>10, <2>1, Zenon DEF Collecting
  <2>3. /\ RefsOf[n] \o q \in Seq(Refs) /\ Distinct(RefsOf[n] \o q)
        /\ Members(RefsOf[n] \o q) = Members(RefsOf[n]) \cup Members(q)
    BY <2>1, <2>2, JoinedRefs, Zenon
  <2>4. n \in Garbage /\ n \notin Roots'
    BY <1>2, <1>10 DEF Collecting
  <2> QED BY <1>6, <1>10, <2>1, <2>3, <2>4, Zenon DEF Todo
<1>11. ASSUME col[n] = "white", b[n] = "none", todo' = RefsOf[n] \o q,
              col'[n] # "white", \A x \in Nodes : x # n => col'[x] = col[x],
              \A x \in Nodes : x # n => buf'[x] = b[x],
              Taken' = Taken \cup {n},
              IF n \in Values THEN buf'[n] = "list" /\ col'[n] = "black"
              ELSE buf'[n] = "none" /\ col'[n] = "purple"
       PROVE  Collecting'
  <2>1. /\ Todo' = {e \in Refs : e[1] = n} \cup Members(q)
        /\ n \in Garbage /\ n \notin Roots' /\ n \notin Taken
    BY <1>10, <1>11, Zenon
  <2>2. \A x \in Nodes \ Garbage' : col'[x] = "black" /\ buf'[x] # "list"
    <3>1. Garbage' = Garbage
      BY <1>3, Zenon DEF KeepsGraph
    <3>2. ASSUME NEW x \in Nodes \ Garbage PROVE col'[x] = "black" /\ buf'[x] # "list"
      <4>1. x # n /\ x \in Nodes
        BY <2>1
      <4>2. col[x] = "black" /\ buf[x] # "list"
        BY <1>c
      <4>3. col'[x] = col[x] /\ buf'[x] = b[x]
        BY <1>11, <4>1, Zenon
      <4> QED BY <4>1, <4>2, <4>3
    <3> QED BY <3>1, <3>2, Zenon
  <2>3. \A x \in Garbage' : x \in Taken' \/ col'[x] = "white"
    <3>1. Garbage' = Garbage
      BY <1>3, Zenon DEF KeepsGraph
    <3> QED BY <1>c, <1>5, <1>11, <3>1, Zenon
  <2>4. ASSUME NEW x \in Taken'
        PROVE  IF x \in Values THEN buf'[x] = "list" /\ col'[x] = "black"
               ELSE buf'[x] = "none" /\ col'[x] = "purple"
    <3>1. CASE x = n
      BY <1>11, <3>1, Zenon
    <3>2. CASE x # n
      <4>1. x \in Taken /\ x \in Nodes
        BY <1>6, <1>11, <2>4, <3>2, Zenon
      <4>2. IF x \in Values THEN buf[x] = "list" /\ col[x] = "black"
            ELSE buf[x] = "none" /\ col[x] = "purple"
        BY <1>2, <4>1, Zenon DEF Collecting
      <4>3. buf[x] = "none" => b[x] = "none"
        <5>1. buf[x] = "none" => x \notin Roots
          BY <1>2, <4>1 DEF Stacks
        <5> QED BY <4>1, <5>1
      <4> QED BY <1>11, <3>2, <4>1, <4>2, <4>3, Zenon
    <3> QED BY <3>1, <3>2
  <2>5. \A e \in Todo' : e[1] \in Taken'
    BY <1>2, <1>11, <2>1, Zenon DEF Collecting
  <2>6. ASSUME NEW e \in Refs, e[1] \in Taken', e \notin Todo'
        PROVE  To[e] \in Roots' \/ To[e] \in Taken' \/ To[e] \notin Garbage
    <3>1. e[1] \in Taken /\ (e \in Todo => To[e] = n)
      BY <1>11, <2>1, <2>6, Zenon
    <3>2. e \in Todo \/ To[e] \in Roots \/ To[e] \in Taken \/ To[e] \notin Garbage
      BY <1>2, <3>1, Zenon DEF Collecting
    <3> QED BY <1>11, <3>1, <3>2, Zenon
  <2>7. \A e \in Refs' : e[1] \in Taken' =>
          e \in Todo' \/ To'[e] \in Roots' \/ To'[e] \in Taken' \/ To'[e] \notin Garbage'
    BY <1>3, <2>6, Zenon DEF KeepsGraph
  <2>8. \A S \in SelfContainedSets' :
          Roots' \cup {x \in Touched' : col'[x] # "white"} \subseteq S => Touched' \subseteq S
    <3>1. Roots \cup {x \in Touched : col[x] # "white"}
            \subseteq Roots' \cup {x \in Touched' : col'[x] # "white"}
      BY <1>3, <1>5, <1>11, Zenon DEF KeepsGraph
    <3> QED BY <1>2, <1>3, <3>1, Zenon DEF Collecting, KeepsGraph
  <2> QED BY <1>7, <2>2, <2>3, <2>4, <2>5, <2>7, <2>8, Zenon DEF Collecting
<1>12. CASE /\ col[n] = "white" /\ b[n] = "none" /\ n \in Values
            /\ todo' = RefsOf[n] \o q
            /\ rc' = [k EXCEPT ![n] = @ + 1] /\ buf' = [b EXCEPT ![n] = "list"]
            /\ col' = [col EXCEPT ![n] = "black"] /\ to_free' = <<n>> \o to_free
  <2>1. /\ todo' \in Seq(Refs) /\ Distinct(todo')
        /\ Todo' = {e \in Refs : e[1] = n} \cup Members(q)
        /\ n \in Garbage /\ n \notin Roots' /\ n \notin Taken
    BY <1>10, <1>12, Zenon
  <2>2. /\ col' \in [Nodes -> {"black", "white", "grey", "purple"}] /\ col'[n] = "black"
        /\ \A x \in Nodes : x # n => col'[x] = col[x]
    BY <1>2, <1>12 DEF PhasesTypeOK
  <2>3. /\ buf' \in [Nodes -> {"none", "root", "list"}] /\ buf'[n] = "list"
        /\ \A x \in Nodes : x # n => buf'[x] = b[x]
        /\ rc' \in [Nodes -> Int]
    BY <1>12
  <2>4. Taken' = Taken \cup {n}
    <3> SUFFICES ASSUME NEW x \in Nodes PROVE x \in Taken' <=> x \in Taken \/ x = n
      BY Zenon DEF Taken
    <3>1. CASE x = n
      BY <2>3, <3>1, Zenon DEF Taken
    <3>2. CASE x # n
      BY <2>2, <2>3, <3>2, Zenon DEF Taken
    <3> QED BY <3>1, <3>2
  <2>5. /\ to_free' \in Seq(Values) /\ Distinct(to_free')
        /\ Members(to_free') = {n} \cup Members(to_free)
    <3>1. n \notin Members(to_free) /\ to_free \in Seq(Values) /\ Distinct(to_free)
      BY <1>2, <2>1, Zenon DEF Stacks, Taken, PhasesTypeOK
    <3> QED BY <1>12, <3>1, ListedFacts, Zenon
  <2>6. Members(to_free') = {x \in Nodes : buf'[x] = "list"}
    <3>1. Members(to_free) = {x \in Nodes : buf[x] = "list"}
      BY <1>2, Zenon DEF Stacks
    <3>2. ASSUME NEW x \in Nodes PROVE buf'[x] = "list" <=> x = n \/ buf[x] = "list"
      BY <2>3
    <3> QED BY <2>5, <3>1, <3>2, Zenon
  <2>7. \A x \in Nodes : buf'[x] = "root" <=> x \in Roots'
    BY <2>1, <2>3
  <2>8. Off' = O
    <3>1. Off' = {e \in Refs : \/ col'[e[1]] = "white" \/ e \in Todo'
                               \/ e[1] \in ObjectZvals /\ buf'[e[1]] = "list"}
      BY <1>1, <1>3, Zenon DEF Off, KeepsGraph
    <3>2. ASSUME NEW e \in Refs PROVE e \in Off' <=> e \in O
      <4>1. CASE e[1] = n
        BY <1>12, <2>1, <3>1, <4>1, Zenon
      <4>2. CASE e[1] # n
        BY <1>5, <2>1, <2>2, <2>3, <3>1, <4>2, Zenon
      <4> QED BY <4>1, <4>2
    <3> QED BY <3>1, <3>2, Zenon
  <2>9. CountedAs(rc', Off', buf')
    BY <1>2, <1>12, <2>8, PutOnTheList, Zenon
  <2>10. Collecting'
    <3>1. col'[n] # "white"
      BY <2>2
    <3> QED BY <1>11, <1>12, <2>2, <2>3, <2>4, <3>1, Zenon
  <2> QED BY <1>8, <2>1, <2>2, <2>3, <2>5, <2>6, <2>7, <2>9, <2>10, Zenon
<1>13. CASE /\ col[n] = "white" /\ b[n] = "none" /\ n \in Objects
            /\ todo' = RefsOf[n] \o q /\ rc' = k /\ buf' = b
            /\ col' = [col EXCEPT ![n] = "purple"] /\ UNCHANGED to_free
  <2>1. /\ todo' \in Seq(Refs) /\ Distinct(todo')
        /\ Todo' = {e \in Refs : e[1] = n} \cup Members(q)
        /\ n \in Garbage /\ n \notin Roots' /\ n \notin Taken
    BY <1>10, <1>13, Zenon
  <2>2. /\ col' \in [Nodes -> {"black", "white", "grey", "purple"}] /\ col'[n] = "purple"
        /\ \A x \in Nodes : x # n => col'[x] = col[x]
    BY <1>2, <1>13 DEF PhasesTypeOK
  <2>3. Taken' = Taken \cup {n}
    BY <1>13, <2>2, Zenon DEF Taken
  <2>4. n \notin Values /\ n \notin ObjectZvals
    BY <1>13, PhasesAssumption, Zenon DEF Values
  <2>5. Members(to_free') = {x \in Nodes : buf'[x] = "list"}
    BY <1>2, <1>13, Zenon DEF Stacks
  <2>6. Off' = O
    <3>1. Off' = {e \in Refs : \/ col'[e[1]] = "white" \/ e \in Todo'
                               \/ e[1] \in ObjectZvals /\ buf'[e[1]] = "list"}
      BY <1>1, <1>3, Zenon DEF Off, KeepsGraph
    <3>2. ASSUME NEW e \in Refs PROVE e \in Off' <=> e \in O
      <4>1. CASE e[1] = n
        BY <1>13, <2>1, <3>1, <4>1, Zenon
      <4>2. CASE e[1] # n
        BY <1>5, <1>13, <2>1, <2>2, <3>1, <4>2, Zenon
      <4> QED BY <4>1, <4>2
    <3> QED BY <3>1, <3>2, Zenon
  <2>7. Collecting'
    <3>1. col'[n] # "white"
      BY <2>2
    <3> QED BY <1>11, <1>13, <2>2, <2>3, <2>4, <3>1, Zenon
  <2> QED BY <1>2, <1>8, <1>13, <2>1, <2>2, <2>5, <2>6, <2>7, Zenon DEF PhasesTypeOK, Stacks
<1> QED BY <1>9, <1>12, <1>13, Zenon DEF Collect

LEMMA CollectRootKeeps ==
  ASSUME IInv, collect_root
  PROVE  IInv'
<1> DEFINE r == Head(current)
           b == [buf EXCEPT ![r] = "none"]
<1>1. /\ phase = "collect" /\ todo = <<>> /\ current # <<>>
      /\ current' = Tail(current) /\ roots' = Without(roots, r)
      /\ Collect(r, rc, b, <<>>) /\ UNCHANGED <<graphVars, phase, blacken>>
  BY Zenon DEF collect_root
<1>2. PhasesTypeOK /\ Stacks /\ Counted /\ Collecting
  BY Zenon DEF IInv
<1>3. /\ r \in Current /\ r \in Nodes /\ current' \in Seq(Nodes) /\ Distinct(current')
      /\ Current' = Current \ {r}
  BY <1>1, <1>2, PoppedFacts, Zenon DEF Current, PhasesTypeOK, Stacks
<1>4. Current = Roots /\ r \in Roots
  BY <1>1, <1>2, <1>3, Zenon DEF Collecting
<1>5. roots' \in Seq(Nodes) /\ Distinct(roots') /\ Roots' = Roots \ {r}
  BY <1>1, <1>2, <1>4, RemovedFacts, Zenon DEF Roots, PhasesTypeOK, Stacks
<1>6. Current' = Roots' /\ Roots' \subseteq Roots /\ Roots \ Roots' \subseteq {r}
  BY <1>3, <1>4, <1>5, Zenon
<1>7. buf[r] = "root"
  BY <1>2, <1>3, <1>4, Zenon DEF Stacks
<1>8. b \in [Nodes -> {"none", "root", "list"}] /\ rc \in [Nodes -> Int]
  BY <1>2, <1>3 DEF PhasesTypeOK
<1>9. b[r] = "none" /\ \A x \in Nodes : x # r => b[x] = buf[x]
  BY <1>2, <1>3 DEF PhasesTypeOK
<1>10. \A x \in Nodes : b[x] = "list" <=> buf[x] = "list"
  BY <1>7, <1>9
<1>11. \A x \in Nodes : b[x] = "root" <=> x \in Roots'
  BY <1>2, <1>5, <1>9 DEF Stacks
<1>12. <<>> \in Seq(Refs)
  OBVIOUS
<1>13. Distinct(<<>>) /\ Members(<<>>) \subseteq Todo /\ \A f \in Todo \ Members(<<>>) : To[f] = r
  BY <1>1, NoneIn, Zenon DEF Todo
<1>14. Off = {e \in Refs : \/ col[e[1]] = "white" \/ e \in Members(<<>>)
                           \/ e[1] \in ObjectZvals /\ buf[e[1]] = "list"}
  BY <1>1, Zenon DEF Off, Todo
<1> HIDE DEF r, b
<1>15. CountedAs(rc, Off, b)
  BY <1>2, <1>10, SameList, Zenon DEF Counted
<1> QED BY <1>1, <1>3, <1>5, <1>6, <1>8, <1>10, <1>11, <1>12, <1>13, <1>14, <1>15, CollectStep, Zenon

LEMMA CollectWhiteKeeps ==
  ASSUME IInv, collect_white
  PROVE  IInv'
<1> DEFINE e == Head(todo)
           n == To[Head(todo)]
           q == Tail(todo)
           k == IF n \in Values THEN [rc EXCEPT ![n] = @ + 1] ELSE rc
           O == {f \in Refs : \/ col[f[1]] = "white" \/ f \in Members(q)
                              \/ f[1] \in ObjectZvals /\ buf[f[1]] = "list"}
<1>1. /\ phase = "collect" /\ todo # <<>> /\ Collect(n, k, buf, q)
      /\ UNCHANGED <<graphVars, phase, blacken>> /\ roots' = roots /\ current' = current
  BY Zenon DEF collect_white
<1>2. PhasesTypeOK /\ Stacks /\ Counted /\ Collecting
  BY Zenon DEF IInv
<1>3. /\ e \in Todo /\ e \in Refs /\ q \in Seq(Refs) /\ Distinct(q) /\ Members(q) = Todo \ {e}
  BY <1>1, <1>2, PoppedFacts, Zenon DEF Todo, PhasesTypeOK, Stacks
<1>4. n \in Nodes /\ e[1] \in Nodes
  BY <1>2, <1>3, RefFacts, Zenon
<1>5. Members(q) \subseteq Todo /\ \A f \in Todo \ Members(q) : To[f] = n
  BY <1>3, Zenon
<1>6. k \in [Nodes -> Int] /\ rc \in [Nodes -> Int] /\ buf \in [Nodes -> {"none", "root", "list"}]
  BY <1>2, <1>4 DEF PhasesTypeOK
<1>7. /\ e[1] \in Taken /\ (n \in Objects <=> e[1] \in ObjectZvals)
      /\ IF e[1] \in Values THEN buf[e[1]] = "list" /\ col[e[1]] = "black"
         ELSE buf[e[1]] = "none" /\ col[e[1]] = "purple"
  BY <1>1, <1>2, <1>3, Zenon DEF Collecting, PhasesTypeOK, GraphOK
<1>8. col[e[1]] # "white"
  BY <1>7
<1>9. Off = {f \in Refs : \/ col[f[1]] = "white" \/ f \in Todo
                          \/ f[1] \in ObjectZvals /\ buf[f[1]] = "list"}
  BY <1>1, Zenon DEF Off
<1>10. CountedAs(k, O, buf)
  <2>1. CASE n \in Values
    <3>1. n \notin Objects
      BY <2>1, PhasesAssumption, Zenon
    <3>2. e \in Off /\ O = Off \ {e}
      BY <1>3, <1>7, <1>8, <1>9, <3>1, Zenon
    <3>3. k = [rc EXCEPT ![To[e]] = @ + 1]
      BY <2>1, Zenon
    <3> HIDE DEF k, O, e
    <3> QED BY <1>2, <1>3, <1>6, <3>2, <3>3, GivenBack, Zenon DEF Counted
  <2>2. CASE n \notin Values
    <3>1. e[1] \in ObjectZvals
      BY <1>4, <1>7, <2>2, Zenon DEF Nodes
    <3>2. buf[e[1]] = "list"
      BY <1>7, <3>1, Zenon DEF Values
    <3>3. O = Off
      BY <1>3, <1>9, <3>1, <3>2, Zenon
    <3>4. k = rc
      BY <2>2, Zenon
    <3> QED BY <1>2, <3>3, <3>4, Zenon DEF Counted
  <2> QED BY <2>1, <2>2
<1>11. /\ current' \in Seq(Nodes) /\ Distinct(current') /\ roots' \in Seq(Nodes) /\ Distinct(roots')
       /\ Current' = Roots' /\ Roots' = Roots
  BY <1>1, <1>2, Zenon DEF PhasesTypeOK, Stacks, Collecting, Current, Roots
<1>12. Roots' \subseteq Roots /\ Roots \ Roots' \subseteq {n}
  BY <1>11, Zenon
<1>13. \A x \in Nodes : buf[x] = "root" <=> x \in Roots'
  BY <1>2, <1>11, Zenon DEF Stacks
<1>14. \A x \in Nodes : buf[x] = "list" <=> buf[x] = "list"
  OBVIOUS
<1>15. O = {f \in Refs : \/ col[f[1]] = "white" \/ f \in Members(q)
                         \/ f[1] \in ObjectZvals /\ buf[f[1]] = "list"}
  OBVIOUS
<1> HIDE DEF e, n, q, k, O
<1> QED BY <1>1, <1>3, <1>4, <1>5, <1>6, <1>10, <1>11, <1>12, <1>13, <1>14, <1>15, CollectStep, Zenon

LEMMA CollectDoneKeeps ==
  ASSUME IInv, collect_done
  PROVE  IInv'
<1>1. /\ phase = "collect" /\ todo = <<>> /\ current = <<>> /\ phase' = "done"
      /\ UNCHANGED <<rc, col, buf, roots, to_free, current, todo, blacken>>
  BY Zenon DEF collect_done
<1>2. PhasesTypeOK /\ Stacks /\ Counted /\ Collecting
  BY Zenon DEF IInv
<1>3. UNCHANGED graphVars /\ KeepsGraph /\ GraphOK'
  BY <1>2, SameGraph, GraphKept, Zenon DEF collect_done
<1>4. /\ Todo' = Todo /\ Current' = Current /\ Roots' = Roots /\ Blacken' = Blacken
      /\ Taken' = Taken
  BY <1>1, Zenon DEF Todo, Current, Roots, Blacken, Taken
<1>5. PhasesTypeOK'
  BY <1>1, <1>2, <1>3, Zenon DEF PhasesTypeOK, KeepsGraph
<1>6. Stacks'
  BY <1>1, <1>2, <1>3, <1>4, Zenon DEF Stacks, KeepsGraph
<1>7. Off' = Off
  BY <1>1, <1>3, <1>4, Zenon DEF Off, KeepsGraph
<1>8. Counted'
  BY <1>1, <1>2, <1>3, <1>7, CountedNext, Zenon DEF Counted
<1>9. Marking' /\ Scanning' /\ Finished'
  BY <1>1, Zenon DEF Marking, Scanning, Finished
<1>10. Collecting'
  BY <1>1, <1>2, <1>3, <1>4, Zenon DEF Collecting, KeepsGraph
<1> QED BY <1>5, <1>6, <1>8, <1>9, <1>10, Zenon DEF IInv

----------------------------------------------------------------------------
(* The invariant *)

LEMMA InitGraph ==
  ASSUME PhasesInit
  PROVE  GraphOK
<1>1. PICK f \in [Containers -> SeqsUpTo(Values, MaxElems)], s \in [ObjectZvals -> Objects] :
        refs = [n \in Nodes |-> IF n \in ObjectZvals THEN <<s[n]>> ELSE f[n]]
  BY Zenon DEF PhasesInit
<1>2. \A n \in Nodes : n \in ObjectZvals \/ n \in Containers
  BY Zenon DEF Nodes, Values, Containers
<1>3. /\ \A n \in ObjectZvals : s[n] \in Objects /\ s[n] \in Nodes
      /\ \A n \in Containers : f[n] \in SeqsUpTo(Values, MaxElems)
  BY Zenon DEF Nodes
<1>4. \A t \in SeqsUpTo(Values, MaxElems) :
        /\ t \in Seq(Nodes) /\ Len(t) <= MaxElems
        /\ \A i \in 1 .. Len(t) : t[i] \in Values
  <2> SUFFICES ASSUME NEW m \in 0 .. MaxElems, NEW t \in [1 .. m -> Values]
               PROVE  /\ t \in Seq(Nodes) /\ Len(t) <= MaxElems
                      /\ \A i \in 1 .. Len(t) : t[i] \in Values
    BY Zenon DEF SeqsUpTo
  <2>1. \A i \in 1 .. m : t[i] \in Values /\ t[i] \in Nodes
    BY Zenon DEF Nodes
  <2>2. m \in Nat /\ m <= MaxElems
    BY PhasesAssumption
  <2>3. t \in Seq(Nodes) /\ Len(t) = m
    BY <2>1, <2>2
  <2> QED BY <2>1, <2>2, <2>3
<1>5. ASSUME NEW n \in Nodes
      PROVE  /\ refs[n] \in Seq(Nodes) /\ Len(refs[n]) <= MaxElems
             /\ \A i \in 1 .. Len(refs[n]) : refs[n][i] \in Objects <=> n \in ObjectZvals
  <2>1. CASE n \in ObjectZvals
    <3>1. refs[n] = <<s[n]>>
      BY <1>1, <2>1, Zenon
    <3> QED BY <1>3, <2>1, <3>1, PhasesAssumption
  <2>2. CASE n \notin ObjectZvals
    <3>1. refs[n] = f[n] /\ f[n] \in SeqsUpTo(Values, MaxElems)
      BY <1>1, <1>2, <1>3, <2>2, Zenon
    <3>2. \A v \in Values : v \notin Objects
      BY PhasesAssumption, Zenon
    <3> QED BY <1>4, <2>2, <3>1, <3>2, Zenon
  <2> QED BY <2>1, <2>2
<1>6. refs \in [Nodes -> Seq(Nodes)]
  BY <1>1, <1>5, Zenon
<1>7. \A e \in Refs : To[e] \in Objects <=> e[1] \in ObjectZvals
  <2> SUFFICES ASSUME NEW e \in Refs PROVE To[e] \in Objects <=> e[1] \in ObjectZvals
    BY Zenon
  <2>1. e[1] \in Nodes /\ e[2] \in 1 .. MaxElems /\ e[2] <= Len(refs[e[1]])
    BY DEF Refs
  <2>2. Len(refs[e[1]]) \in Nat
    BY <1>6, <2>1
  <2>3. e[2] \in 1 .. Len(refs[e[1]])
    BY <2>1, <2>2, PhasesAssumption
  <2> QED BY <1>5, <2>1, <2>3, Zenon DEF To
<1>8. extra \in [Nodes -> Nat]
  BY PhasesAssumption DEF PhasesInit
<1>9. began \in Seq(Nodes)
  <2>1. began \in SeqsUpTo(Nodes, MaxBuffered)
    BY Zenon DEF PhasesInit
  <2>2. PICK m \in 0 .. MaxBuffered : began \in [1 .. m -> Nodes]
    BY <2>1, Zenon DEF SeqsUpTo
  <2>3. m \in Nat
    BY PhasesAssumption
  <2> QED BY <2>2, <2>3
<1> QED BY <1>5, <1>6, <1>7, <1>8, <1>9, Zenon DEF GraphOK

LEMMA InitHolds ==
  ASSUME PhasesInit
  PROVE  IInv
<1> DEFINE B == Members(began)
<1>1. /\ rc = [n \in Nodes |-> extra[n] + Cardinality(Into[n])]
      /\ roots = began /\ current = began /\ Distinct(began)
      /\ col = [n \in Nodes |-> IF n \in B THEN "purple" ELSE "black"]
      /\ buf = [n \in Nodes |-> IF n \in B THEN "root" ELSE "none"]
      /\ phase = "mark" /\ todo = <<>> /\ blacken = <<>> /\ to_free = <<>>
  BY Zenon DEF PhasesInit
<1>2. GraphOK
  BY InitGraph
<1>3. B \subseteq Nodes /\ began \in Seq(Nodes)
  BY <1>2, MembersType, Zenon DEF GraphOK
<1>4. IsFiniteSet(Refs)
  <2>1. IsFiniteSet(1 .. MaxElems)
    BY PhasesAssumption, FS_Interval
  <2>2. IsFiniteSet(Nodes \X (1 .. MaxElems))
    BY <2>1, PhasesAssumption, FS_Product, Zenon
  <2>3. Refs \subseteq Nodes \X (1 .. MaxElems)
    BY Zenon DEF Refs
  <2> QED BY <2>2, <2>3, FS_Subset, Zenon
<1>5. rc \in [Nodes -> Int]
  <2>1. ASSUME NEW n \in Nodes PROVE rc[n] \in Int
    <3>1. Into[n] \subseteq Refs
      BY Zenon DEF Into
    <3>2. Cardinality(Into[n]) \in Nat
      BY <1>4, <3>1, FS_Subset, FS_CardinalityType, Zenon
    <3>3. extra[n] \in Nat
      BY <1>2 DEF GraphOK
    <3> QED BY <1>1, <3>2, <3>3
  <2> QED BY <1>1, <2>1
<1>6. /\ \A n \in Nodes : col[n] = (IF n \in B THEN "purple" ELSE "black")
      /\ \A n \in Nodes : buf[n] = (IF n \in B THEN "root" ELSE "none")
  BY <1>1, Zenon
<1>7. PhasesTypeOK
  <2>1. col \in [Nodes -> {"black", "white", "grey", "purple"}]
    BY <1>1
  <2>2. buf \in [Nodes -> {"none", "root", "list"}]
    BY <1>1
  <2>3. <<>> \in Seq(Refs) /\ <<>> \in Seq(Values)
    OBVIOUS
  <2> QED BY <1>1, <1>2, <1>3, <1>5, <2>1, <2>2, <2>3, Zenon DEF PhasesTypeOK
<1>8. \A n \in Nodes : /\ col[n] # "grey" /\ col[n] # "white" /\ (col[n] = "purple" <=> n \in B)
                       /\ buf[n] # "list" /\ (buf[n] = "root" <=> n \in B)
  BY <1>6
<1>9. Todo = {} /\ Current = B /\ Roots = B /\ Distinct(<<>>) /\ Members(to_free) = {}
  BY <1>1, NoneIn, Zenon DEF Todo, Current, Roots
<1>10. Stacks
  BY <1>1, <1>8, <1>9, Zenon DEF Stacks
<1>11. Off = {}
  BY <1>1, <1>7, <1>8, RefFacts, Zenon DEF Off
<1>12. Counted
  <2> SUFFICES ASSUME NEW n \in Nodes
               PROVE  rc[n] = extra[n] + Cardinality(Into[n] \ Off) + IF buf[n] = "list" THEN 1 ELSE 0
    BY Zenon DEF Counted, CountedAs
  <2>1. Into[n] \ Off = Into[n]
    BY <1>11, Zenon
  <2>2. rc[n] = extra[n] + Cardinality(Into[n])
    BY <1>1, Zenon
  <2>3. rc[n] \in Int
    BY <1>5, Zenon
  <2> QED BY <1>8, <2>1, <2>2, <2>3
<1>13. Marking
  BY <1>1, <1>7, <1>8, <1>9, RefFacts, Zenon DEF Marking
<1>14. Scanning /\ Collecting /\ Finished
  BY <1>1, Zenon DEF Scanning, Collecting, Finished
<1> QED BY <1>7, <1>10, <1>12, <1>13, <1>14, Zenon DEF IInv

LEMMA StutterKeeps ==
  ASSUME IInv, UNCHANGED phaseVars
  PROVE  IInv'
<1>1. /\ rc' = rc /\ col' = col /\ buf' = buf /\ roots' = roots /\ to_free' = to_free
      /\ phase' = phase /\ current' = current /\ todo' = todo /\ blacken' = blacken
      /\ UNCHANGED graphVars
  BY DEF phaseVars
<1>2. PhasesTypeOK
  BY Zenon DEF IInv
<1>3. KeepsGraph /\ GraphOK'
  BY <1>1, <1>2, SameGraph, GraphKept, Zenon
<1>4. /\ Todo' = Todo /\ Current' = Current /\ Roots' = Roots /\ Blacken' = Blacken
      /\ Taken' = Taken
  BY <1>1, Zenon DEF Todo, Current, Roots, Blacken, Taken
<1>5. PhasesTypeOK' /\ Finished'
  BY <1>1, <1>3, Zenon DEF IInv, PhasesTypeOK, KeepsGraph, Finished
<1>6. Stacks'
  BY <1>1, <1>3, <1>4, Zenon DEF IInv, Stacks, KeepsGraph
<1>7. Off' = Off
  BY <1>1, <1>3, <1>4, Zenon DEF Off, KeepsGraph
<1>8. Counted'
  BY <1>1, <1>7, CountedNext, Zenon DEF IInv, Counted
<1>9. Marking'
  BY <1>1, <1>3, <1>4, Zenon DEF IInv, Marking, KeepsGraph
<1>10. Scanning'
  BY <1>1, <1>3, <1>4, Zenon DEF IInv, Scanning, KeepsGraph
<1>11. Collecting'
  BY <1>1, <1>3, <1>4, Zenon DEF IInv, Collecting, KeepsGraph
<1> QED BY <1>5, <1>6, <1>8, <1>9, <1>10, <1>11, Zenon DEF IInv

LEMMA StepKeeps ==
  ASSUME IInv, [PhasesNext]_phaseVars
  PROVE  IInv'
BY MarkRootKeeps, MarkGreyKeeps, MarkDoneKeeps, ScanRootKeeps, ScanKeeps, ScanBlackKeeps,
   ScanDoneKeeps, CollectRootKeeps, CollectWhiteKeeps, CollectDoneKeeps, StutterKeeps, Zenon
   DEF PhasesNext

LEMMA Invariant == PhasesSpec => []IInv
BY InitHolds, StepKeeps, PTL DEF PhasesSpec

----------------------------------------------------------------------------
(* Theorems *)

\* At the end everything that is not in use is taken.
LEMMA AllTaken ==
  ASSUME IInv, phase = "done"
  PROVE  /\ roots = <<>> /\ Roots = {} /\ Todo = {} /\ Taken = Garbage
         /\ \A n \in Nodes : /\ buf[n] = (IF n \in Garbage \cap Values THEN "list" ELSE "none")
                             /\ col[n] = (IF n \in Garbage \cap Objects THEN "purple" ELSE "black")
<1>1. PhasesTypeOK /\ Stacks /\ Collecting /\ todo = <<>> /\ current = <<>>
  BY Zenon DEF IInv, Finished
<1>2. Roots = {} /\ Todo = {} /\ roots = <<>>
  <2>1. Todo = {} /\ Roots = {}
    BY <1>1, NoneIn, Zenon DEF Todo, Current, Collecting
  <2> QED BY <1>1, <2>1, MembersType, Zenon DEF Roots, PhasesTypeOK
<1>3. /\ Touched \in SelfContainedSets /\ Touched \subseteq Nodes /\ InUse \in SelfContainedSets
      /\ \A e \in Refs : e[1] \in Nodes /\ To[e] \in Nodes
  BY <1>1, RefFacts, TouchedFacts, InUseFacts, Zenon
<1>4. \A n \in Taken : n \in Nodes /\ col[n] # "white"
  BY <1>1 DEF Collecting, Taken
<1>5. \A n \in Taken : n \in Garbage
  <2> SUFFICES ASSUME NEW n \in Taken, n \notin Garbage PROVE FALSE
    BY Zenon
  <2>1. n \in Nodes /\ col[n] = "black" /\ buf[n] # "list"
    BY <1>1, <1>4, Zenon DEF Collecting
  <2> QED BY <2>1 DEF Taken
<1>6. \A n \in Garbage : n \in Taken
  <2> DEFINE S == {n \in Touched : col[n] # "white"}
  <2>1. S \in SUBSET Nodes
    BY <1>3, Zenon
  <2>2. ASSUME NEW e \in Refs, e[1] \in S PROVE To[e] \in S
    <3>1. To[e] \in Touched /\ To[e] \in Nodes /\ e[1] \in Nodes
      BY <1>3, <2>2, FollowingFacts, Zenon
    <3>2. CASE e[1] \in Garbage
      <4>1. e[1] \in Taken
        BY <1>1, <2>2, <3>2, Zenon DEF Collecting
      <4>2. To[e] \in Taken \/ To[e] \notin Garbage
        BY <1>1, <1>2, <4>1, Zenon DEF Collecting
      <4>3. col[To[e]] # "white"
        <5>1. CASE To[e] \in Taken
          BY <1>4, <5>1, Zenon
        <5>2. CASE To[e] \notin Garbage
          BY <1>1, <3>1, <5>2 DEF Collecting
        <5> QED BY <4>2, <5>1, <5>2
      <4> QED BY <3>1, <4>3, Zenon
    <3>3. CASE e[1] \notin Garbage
      <4>1. To[e] \in InUse
        BY <1>1, <1>3, <3>1, <3>3, InUseFacts, FollowingFacts, Zenon DEF Garbage
      <4>2. col[To[e]] = "black"
        BY <1>1, <3>1, <4>1, Zenon DEF Collecting, Garbage
      <4> QED BY <3>1, <4>2
    <3> QED BY <3>2, <3>3
  <2>3. S \in SelfContainedSets
    BY <2>1, <2>2, FollowingFacts, Zenon
  <2>4. Touched \subseteq S
    BY <1>1, <1>2, <2>3, Zenon DEF Collecting
  <2>5. Garbage \subseteq Touched
    BY <1>1, InUseFacts, Zenon DEF Garbage
  <2> QED BY <1>1, <2>4, <2>5, Zenon DEF Collecting
<1>7. Taken = Garbage
  BY <1>5, <1>6, Zenon
<1>8. ASSUME NEW n \in Nodes
      PROVE  /\ buf[n] = (IF n \in Garbage \cap Values THEN "list" ELSE "none")
             /\ col[n] = (IF n \in Garbage \cap Objects THEN "purple" ELSE "black")
  <2>1. n \in Values <=> n \notin Objects
    BY PhasesAssumption, Zenon DEF Nodes
  <2>2. CASE n \in Garbage
    <3>1. IF n \in Values THEN buf[n] = "list" /\ col[n] = "black"
          ELSE buf[n] = "none" /\ col[n] = "purple"
      BY <1>1, <1>7, <2>2, Zenon DEF Collecting
    <3> QED BY <2>1, <2>2, <3>1, Zenon
  <2>3. CASE n \notin Garbage
    <3>1. col[n] = "black" /\ buf[n] # "list"
      BY <1>1, <2>3, Zenon DEF Collecting
    <3>2. buf[n] # "root"
      BY <1>1, <1>2, Zenon DEF Stacks
    <3>3. buf[n] = "none"
      BY <1>1, <3>1, <3>2 DEF PhasesTypeOK
    <3> QED BY <2>3, <3>1, <3>3, Zenon
  <2> QED BY <2>2, <2>3
<1> QED BY <1>2, <1>7, <1>8, Zenon

\* The list that gc_collect_cycles destroys holds the garbage: whatever the graph,
\* the order of its references and the roots, nothing that scripts can reach is
\* destroyed, and no garbage is left that a root led to.
THEOREM CollectionListsGarbage == PhasesSpec => []ListsGarbage
<1>1. IInv => ListsGarbage
  <2> SUFFICES ASSUME IInv, phase = "done"
               PROVE  Distinct(to_free) /\ Members(to_free) = Garbage \cap Values
    BY Zenon DEF ListsGarbage
  <2>1. Distinct(to_free) /\ Members(to_free) = {n \in Nodes : buf[n] = "list"}
    BY Zenon DEF IInv, Stacks
  <2>2. \A n \in Nodes : buf[n] = "list" <=> n \in Garbage \cap Values
    BY AllTaken
  <2>3. Garbage \subseteq Nodes
    BY Zenon DEF Garbage
  <2> QED BY <2>1, <2>2, <2>3, Zenon
<1> QED BY <1>1, Invariant, PTL

\* Every reference that marking took off is given back once, so that destruction
\* starts with the counts that it expects.
THEOREM CollectionRestoresCounts == PhasesSpec => []CountsRestored
<1>1. IInv => CountsRestored
  <2> SUFFICES ASSUME IInv, phase = "done", NEW n \in Nodes
               PROVE  rc[n] = extra[n] + IF n \in Objects
                         THEN Cardinality({e \in Into[n] : e[1] \notin Garbage})
                         ELSE Cardinality(Into[n]) + IF n \in Garbage THEN 1 ELSE 0
    BY Zenon DEF CountsRestored
  <2>1. PhasesTypeOK /\ Counted /\ Stacks
    BY Zenon DEF IInv
  <2>2. /\ Todo = {}
        /\ \A x \in Nodes : buf[x] = "list" <=> x \in Garbage \cap Values
        /\ \A x \in Nodes : col[x] # "white"
    BY AllTaken
  <2>3. rc[n] = extra[n] + Cardinality(Into[n] \ Off) + IF buf[n] = "list" THEN 1 ELSE 0
    BY <2>1, Zenon DEF Counted, CountedAs
  <2>4. extra[n] \in Nat /\ Cardinality(Into[n] \ Off) \in Nat
    BY <2>1, IntoFacts, Zenon DEF PhasesTypeOK, GraphOK
  <2>5. \A e \in Refs : e[1] \in Nodes
    BY <2>1, RefFacts, Zenon
  <2>6. \A e \in Refs : e \in Off <=> e[1] \in ObjectZvals /\ e[1] \in Garbage
    <3>1. \A x \in ObjectZvals : x \in Values
      BY Zenon DEF Values
    <3>2. ASSUME NEW e \in Refs
          PROVE  e \in Off <=> \/ col[e[1]] = "white" \/ e \in Todo
                               \/ e[1] \in ObjectZvals /\ buf[e[1]] = "list"
      BY Zenon DEF Off
    <3> QED BY <2>2, <2>5, <3>1, <3>2, Zenon
  <2>7. \A e \in Into[n] : e \in Refs /\ To[e] = n /\ (n \in Objects <=> e[1] \in ObjectZvals)
    <3>1. GraphOK
      BY <2>1, Zenon DEF PhasesTypeOK
    <3>2. ASSUME NEW e \in Into[n] PROVE e \in Refs /\ To[e] = n
      BY <2>1, RefFacts, Zenon
    <3> QED BY <3>1, <3>2, Zenon DEF GraphOK
  <2>8. CASE n \in Objects
    <3>1. Into[n] \ Off = {e \in Into[n] : e[1] \notin Garbage}
      BY <2>6, <2>7, <2>8, Zenon
    <3>2. buf[n] # "list"
      BY <2>2, <2>8, PhasesAssumption, Zenon
    <3>3. rc[n] = extra[n] + Cardinality(Into[n] \ Off)
      BY <2>3, <2>4, <3>2
    <3> QED BY <2>8, <3>1, <3>3, Zenon
  <2>9. CASE n \notin Objects
    <3>1. Into[n] \ Off = Into[n]
      BY <2>6, <2>7, <2>9, Zenon
    <3>2. n \in Values
      BY <2>9, Zenon DEF Nodes
    <3>3. buf[n] = "list" <=> n \in Garbage
      BY <2>2, <3>2, Zenon
    <3>4. Cardinality(Into[n]) \in Nat
      BY <2>4, <3>1, Zenon
    <3>5. rc[n] = extra[n] + Cardinality(Into[n]) + IF n \in Garbage THEN 1 ELSE 0
      BY <2>3, <3>1, <3>3, Zenon
    <3>6. rc[n] = extra[n] + (Cardinality(Into[n]) + IF n \in Garbage THEN 1 ELSE 0)
      BY <2>4, <3>4, <3>5
    <3> QED BY <2>9, <3>6, Zenon
  <2> QED BY <2>8, <2>9
<1> QED BY <1>1, Invariant, PTL

\* The counts are unsigned, and marking never takes one below zero.
THEOREM CountsStayNatural == PhasesSpec => []CountsNatural
<1>1. IInv => CountsNatural
  BY RcNatural, Zenon DEF IInv, CountsNatural
<1> QED BY <1>1, Invariant, PTL

\* No colour and no address in the buffer is left over for the next collection.
THEOREM CollectionSettles == PhasesSpec => []Settled
<1>1. IInv => Settled
  BY AllTaken, Zenon DEF Settled
<1> QED BY <1>1, Invariant, PTL
============================================================================
