------------------------------ MODULE ZendGc ------------------------------
(* Reference counting and the cycle collector of the Zend engine.  Scripts    *)
(* share arrays by reference and object zvals by reference or by copy, and    *)
(* drop them; what they drop is freed or becomes a possible root.  A heap is  *)
(* one value, and the functions of zend_gc.c are operators from heaps to      *)
(* heaps.  Classes have no destructors.                                       *)
EXTENDS Integers, Sequences, FiniteSets

CONSTANTS
  Zvals,     \* addresses of zvals
  Handles,   \* object handles
  Vars,      \* variables of the script
  None,      \* the value of a variable that is not set
  MaxStored, \* bound: elements of arrays and properties of objects together
  RootMaxes  \* values of GC_ROOT_BUFFER_MAX_ENTRIES

ASSUME GcAssumption == RootMaxes \subseteq Nat \ {0} /\ MaxStored \in Nat

VARIABLES
  heap,      \* [z, o, roots, max, free, bad, stale, lost]
  var        \* what the variables of the script refer to

gcVars == <<heap, var>>

\* A zval: col and buf are the two parts of u.buffered, buf being "list" when it
\* is u.next.  An entry of the object store.
FreeZval == [kind |-> "free", rc |-> 0, at |-> None, elems |-> <<>>, col |-> "black", buf |-> "none"]
FreeObject == [valid |-> FALSE, rc |-> 0, props |-> <<>>, col |-> "black", buf |-> "none"]

\* roots is the buffer, which has room for max, free the list of zval_to_free or
\* free_list, bad says that a zval was used after it was freed, and stale that a
\* collection which made room for a possible root has buffered that root itself or
\* dropped its last reference, and lost that no room was made.
EmptyHeap(max) ==
  [z |-> [z \in Zvals |-> FreeZval], o |-> [o \in Handles |-> FreeObject],
   roots |-> <<>>, max |-> max, free |-> <<>>,
   bad |-> FALSE, stale |-> FALSE, lost |-> FALSE]

ZRoot(z) == [zval |-> TRUE, of |-> z]
ORoot(o) == [zval |-> FALSE, of |-> o]

AddRef(h, z, d) == [h EXCEPT !.z[z].rc = @ + d, !.bad = @ \/ h.z[z].kind = "free"]
AddObjectRef(h, o, d) == [h EXCEPT !.o[o].rc = @ + d]
SetColor(h, z, c) == [h EXCEPT !.z[z].col = c]
SetObjectColor(h, o, c) == [h EXCEPT !.o[o].col = c]

\* What the collector follows: elements, and what get_gc returns.
Elems(h, z) == IF h.z[z].kind = "array" THEN h.z[z].elems ELSE <<>>
Props(h, o) == IF h.o[o].valid THEN h.o[o].props ELSE <<>>

\* gc_remove_from_buffer.
Unroot(h, r) == [h EXCEPT !.roots = SelectSeq(@, LAMBDA x : x # r)]

----------------------------------------------------------------------------
(* The phases of a collection *)

RECURSIVE zval_scan_black(_, _), zobj_scan_black(_, _), ScanBlackAll(_, _)
zval_scan_black(h, z) ==
  IF h.z[z].kind = "object"
  THEN LET o == h.z[z].at
       IN  zobj_scan_black(AddObjectRef(SetColor(h, z, "black"), o, 1), o)
  ELSE ScanBlackAll(SetColor(h, z, "black"), Elems(h, z))
zobj_scan_black(h, o) ==
  IF h.o[o].col = "black" THEN h
  ELSE ScanBlackAll(SetObjectColor(h, o, "black"), Props(h, o))
ScanBlackElem(h, z) == IF h.z[z].col = "black" THEN h ELSE zval_scan_black(h, z)
ScanBlackAll(h, s) ==
  IF s = <<>> THEN h ELSE ScanBlackAll(ScanBlackElem(AddRef(h, s[1], 1), s[1]), Tail(s))

RECURSIVE zval_mark_grey(_, _), zobj_mark_grey(_, _), MarkGreyAll(_, _)
zval_mark_grey(h, z) ==
  LET o == h.z[z].at
  IN  CASE h.z[z].col = "grey" -> h
        [] h.z[z].col # "grey" /\ h.z[z].kind = "object" ->
             zobj_mark_grey(AddObjectRef(SetColor(h, z, "grey"), o, -1), o)
        [] OTHER -> MarkGreyAll(SetColor(h, z, "grey"), Elems(h, z))
zobj_mark_grey(h, o) ==
  IF h.o[o].col = "grey" THEN h ELSE MarkGreyAll(SetObjectColor(h, o, "grey"), Props(h, o))
MarkGreyAll(h, s) ==
  IF s = <<>> THEN h ELSE MarkGreyAll(zval_mark_grey(AddRef(h, s[1], -1), s[1]), Tail(s))

\* Mutant: a buffered object is dropped from the buffer unmarked.
MutMarkRoot(h, r) ==
  IF r.zval /\ h.z[r.of].col = "purple" THEN zval_mark_grey(h, r.of)
  ELSE Unroot(IF r.zval THEN [h EXCEPT !.z[r.of].buf = "none"]
              ELSE [h EXCEPT !.o[r.of].buf = "none"], r)

\* A root that is no longer purple was reached from another one.
MarkRoot(h, r) ==
  LET col == IF r.zval THEN h.z[r.of].col ELSE h.o[r.of].col
  IN  IF col = "purple"
      THEN IF r.zval THEN zval_mark_grey(h, r.of) ELSE zobj_mark_grey(h, r.of)
      ELSE Unroot(IF r.zval THEN [h EXCEPT !.z[r.of].buf = "none"]
                  ELSE [h EXCEPT !.o[r.of].buf = "none"], r)

RECURSIVE gc_mark_roots(_, _)
gc_mark_roots(h, s) == IF s = <<>> THEN h ELSE gc_mark_roots(MarkRoot(h, s[1]), Tail(s))

RECURSIVE zval_scan(_, _), zobj_scan(_, _), ScanAll(_, _)
zval_scan(h, z) ==
  CASE h.z[z].col # "grey" -> h
    [] h.z[z].col = "grey" /\ h.z[z].rc > 0 -> zval_scan_black(h, z)
    [] h.z[z].col = "grey" /\ h.z[z].rc <= 0 /\ h.z[z].kind = "object" ->
         zobj_scan(SetColor(h, z, "white"), h.z[z].at)
    [] OTHER -> ScanAll(SetColor(h, z, "white"), Elems(h, z))
zobj_scan(h, o) ==
  CASE h.o[o].col # "grey" -> h
    [] h.o[o].col = "grey" /\ h.o[o].rc > 0 -> zobj_scan_black(h, o)
    [] OTHER -> ScanAll(SetObjectColor(h, o, "white"), Props(h, o))
ScanAll(h, s) == IF s = <<>> THEN h ELSE ScanAll(zval_scan(h, s[1]), Tail(s))

RECURSIVE gc_scan_roots(_, _)
gc_scan_roots(h, s) ==
  IF s = <<>> THEN h
  ELSE gc_scan_roots(IF s[1].zval THEN zval_scan(h, s[1].of) ELSE zobj_scan(h, s[1].of), Tail(s))

\* Its own reference keeps a zval on the list until the end.
PutOnList(h, z) == [AddRef(h, z, 1) EXCEPT !.free = <<z>> \o @, !.z[z].buf = "list"]

RECURSIVE zval_collect_white(_, _), zobj_collect_white(_, _), CollectAll(_, _)
zval_collect_white(h, z) ==
  CASE ~(h.z[z].col = "white" /\ h.z[z].buf = "none") -> h
    [] h.z[z].col = "white" /\ h.z[z].buf = "none" /\ h.z[z].kind = "object" ->
         zobj_collect_white(PutOnList(SetColor(h, z, "black"), z), h.z[z].at)
    [] OTHER -> CollectAll(PutOnList(SetColor(h, z, "black"), z), Elems(h, z))
\* Purple keeps a collection that runs inside this one from buffering the object.
zobj_collect_white(h, o) ==
  IF h.o[o].col = "white" /\ h.o[o].buf = "none"
  THEN CollectAll(SetObjectColor(h, o, "purple"), Props(h, o)) ELSE h
CollectAll(h, s) ==
  IF s = <<>> THEN h ELSE CollectAll(zval_collect_white(AddRef(h, s[1], 1), s[1]), Tail(s))

CollectRoot(h, r) ==
  Unroot(IF r.zval THEN zval_collect_white([h EXCEPT !.z[r.of].buf = "none"], r.of)
         ELSE zobj_collect_white([h EXCEPT !.o[r.of].buf = "none"], r.of), r)

RECURSIVE gc_collect_roots(_, _)
gc_collect_roots(h, s) == IF s = <<>> THEN h ELSE gc_collect_roots(CollectRoot(h, s[1]), Tail(s))

\* The three phases, over the roots that each finds.
Scanned(h) == gc_scan_roots(h, h.roots)
Collected(h) == gc_collect_roots(h, h.roots)
Phases(h) == Collected(Scanned(gc_mark_roots([h EXCEPT !.free = <<>>], h.roots)))

----------------------------------------------------------------------------
(* Dropping references, and the end of a collection *)

Efree(h, z) ==
  [h EXCEPT !.z[z] = FreeZval, !.bad = @ \/ h.z[z].kind = "free"]

\* Mutant: the mark is cleared and the entry stays.
MutRemoveZval(h, z) ==
  IF h.z[z].buf = "root" THEN [h EXCEPT !.z[z].buf = "none", !.z[z].col = "black"] ELSE h

\* GC_REMOVE_ZVAL_FROM_BUFFER.
gc_remove_zval_from_buffer(h, z) ==
  IF h.z[z].buf = "root" THEN [Unroot(h, ZRoot(z)) EXCEPT !.z[z].buf = "none", !.z[z].col = "black"]
  ELSE h

\* GC_REMOVE_ZOBJ_FROM_BUFFER.
RemoveObject(h, o) ==
  IF h.o[o].buf = "root" THEN [Unroot(h, ORoot(o)) EXCEPT !.o[o].buf = "none", !.o[o].col = "black"]
  ELSE h

BufferZval(h, z) ==
  [h EXCEPT !.z[z].col = "purple", !.z[z].buf = "root", !.roots = <<ZRoot(z)>> \o @]
BufferObject(h, o) ==
  [h EXCEPT !.o[o].col = "purple", !.o[o].buf = "root", !.roots = <<ORoot(o)>> \o @]

Full(h) == Len(h.roots) >= h.max

RECURSIVE zval_ptr_dtor(_, _), DtorAll(_, _), del_ref_by_handle(_, _),
          gc_zval_possible_root(_, _), gc_zobj_possible_root(_, _, _),
          gc_collect_cycles(_), Destroy(_, _)

\* When the buffer is full, a collection makes room; z must survive it.
MakeRoom(h, z) ==
  LET after == AddRef(gc_collect_cycles(AddRef(h, z, 1)), z, -1)
  IN  IF Full(h) THEN [after EXCEPT !.stale = @ \/ (h.z[z].rc > 0 /\ after.z[z].rc = 0)] ELSE h

\* h was made room in for z, or for the object o.
RootZval(h, z) ==
  [(IF Full(h) THEN [h EXCEPT !.lost = TRUE] ELSE BufferZval(h, z))
     EXCEPT !.stale = @ \/ h.z[z].buf = "root"]
RootObject(h, o) ==
  [(IF Full(h) THEN [h EXCEPT !.lost = TRUE] ELSE BufferObject(h, o))
     EXCEPT !.stale = @ \/ h.o[o].buf = "root" \/ ~h.o[o].valid]

\* z is the zval that shows the object.
gc_zobj_possible_root(h, o, z) ==
  IF h.o[o].valid /\ h.o[o].col # "purple" /\ h.o[o].buf = "none"
  THEN RootObject(MakeRoom(h, z), o) ELSE h

gc_zval_possible_root(h, z) ==
  CASE h.z[z].buf # "list" /\ h.z[z].kind = "object" -> gc_zobj_possible_root(h, h.z[z].at, z)
    [] h.z[z].buf = "none" /\ h.z[z].kind = "array" /\ h.z[z].col # "purple" ->
         RootZval(MakeRoom(h, z), z)
    [] OTHER -> h

\* The last reference frees the properties and gives the handle back.
del_ref_by_handle(h, o) ==
  IF h.o[o].valid /\ h.o[o].rc = 1
  THEN [DtorAll(RemoveObject(h, o), h.o[o].props) EXCEPT !.o[o] = FreeObject]
  ELSE AddObjectRef(h, o, -1)

\* zend_objects_store_del_ref: z counts as used while the object is released.
del_ref(h, o, z) ==
  gc_zobj_possible_root(AddRef(del_ref_by_handle(AddRef(h, z, 1), o), z, -1), o, z)

zval_dtor(h, z) ==
  CASE h.z[z].kind = "array" -> DtorAll([h EXCEPT !.z[z].kind = "null"], h.z[z].elems)
    [] h.z[z].kind = "object" -> del_ref(h, h.z[z].at, z)
    [] OTHER -> h

\* One reference to z is gone.
Released(h, z) ==
  IF h.z[z].rc # 0 THEN gc_zval_possible_root(h, z)
  ELSE Efree(zval_dtor(gc_remove_zval_from_buffer(h, z), z), z)
zval_ptr_dtor(h, z) == Released(AddRef(h, z, -1), z)
DtorAll(h, s) == IF s = <<>> THEN h ELSE DtorAll(zval_ptr_dtor(h, s[1]), Tail(s))

\* What a collection does with a zval on its list: objects that nothing refers
\* to and arrays are destroyed.
DestroyZval(h, z) ==
  LET null == [h EXCEPT !.z[z].kind = "null"]
      o == h.z[z].at
  IN  CASE h.z[z].kind = "object" ->
             IF h.o[o].valid /\ h.o[o].rc <= 0
             THEN del_ref_by_handle([null EXCEPT !.o[o].rc = 1], o) ELSE h
        [] h.z[z].kind = "array" -> DtorAll(null, h.z[z].elems)
        [] OTHER -> null
Destroy(h, s) == IF s = <<>> THEN h ELSE Destroy(DestroyZval(h, s[1]), Tail(s))

RECURSIVE FreeList(_, _)
FreeList(h, s) == IF s = <<>> THEN h ELSE FreeList(Efree(h, s[1]), Tail(s))

\* Mutant: the list of the collection that this one runs inside is not put back.
MutFreeGarbage(h, outer) ==
  LET d == Destroy(h, h.free)
  IN  [FreeList(d, d.free) EXCEPT !.free = <<>>]

\* outer is that list; the last loop reads the list again.
FreeGarbage(h, outer) ==
  LET d == Destroy(h, h.free)
  IN  [FreeList(d, d.free) EXCEPT !.free = outer]
gc_collect_cycles(h) ==
  IF h.roots = <<>> THEN h ELSE FreeGarbage(Phases(h), h.free)

----------------------------------------------------------------------------
(* What scripts do *)

FreeZvals == {z \in Zvals : heap.z[z].kind = "free"}
FreeHandles == {o \in Handles : ~heap.o[o].valid}
AnyOf(S) == CHOOSE x \in S : TRUE

\* A script goes on with h.  What follows a stale root is undefined, and left out.
Goes(h) == ~heap.stale /\ heap' = h

\* $v is set to z, which has a reference more for it, and gives up its old value.
Set(h, v, z) ==
  /\ Goes(IF var[v] = None THEN h ELSE zval_ptr_dtor(h, var[v]))
  /\ var' = [var EXCEPT ![v] = z]

NewArray(v) ==
  LET z == AnyOf(FreeZvals)
  IN  /\ FreeZvals # {} /\ var[v] = None
      /\ Set([heap EXCEPT !.z[z] = [FreeZval EXCEPT !.kind = "array", !.rc = 1]], v, z)

\* Another zval for the object o, which may be new.
ObjectZval(o) == [FreeZval EXCEPT !.kind = "object", !.rc = 1, !.at = o]

NewObject(v) ==
  LET z == AnyOf(FreeZvals)
      o == AnyOf(FreeHandles)
  IN  /\ FreeZvals # {} /\ FreeHandles # {} /\ var[v] = None
      /\ Set([heap EXCEPT !.z[z] = ObjectZval(o),
                          !.o[o] = [FreeObject EXCEPT !.valid = TRUE, !.rc = 1]], v, z)

\* $v =& $w.
Share(v, w) ==
  /\ var[w] # None /\ var[v] # var[w]
  /\ Set(AddRef(heap, var[w], 1), v, var[w])

\* $v = $w where $w is a reference to an object.
Copy(v, w) ==
  LET z == AnyOf(FreeZvals)
      o == heap.z[var[w]].at
  IN  /\ var[v] = None /\ var[w] # None /\ FreeZvals # {}
      /\ heap.z[var[w]].kind = "object"
      /\ Set(AddObjectRef([heap EXCEPT !.z[z] = ObjectZval(o)], o, 1), v, z)

\* Where arrays and objects hold a reference, and to which zval.
Live(h) == {z \in Zvals : h.z[z].kind # "free"}
Slots(h) ==
  UNION ({{z} \X DOMAIN h.z[z].elems : z \in Live(h)}
         \cup {{o} \X DOMAIN h.o[o].props : o \in {o \in Handles : h.o[o].valid}})
Held(h, s) == IF s[1] \in Zvals THEN h.z[s[1]].elems[s[2]] ELSE h.o[s[1]].props[s[2]]

\* $v[] =& $w, or a new property of $v.
Store(v, w) ==
  LET h == AddRef(heap, var[w], 1)
      o == heap.z[var[v]].at
  IN  /\ var[v] # None /\ var[w] # None
      /\ \/ /\ heap.z[var[v]].kind = "array"
            /\ Goes([h EXCEPT !.z[var[v]].elems = Append(@, var[w])])
         \/ /\ heap.z[var[v]].kind = "object"
            /\ Goes([h EXCEPT !.o[o].props = Append(@, var[w])])
      /\ UNCHANGED var

Unset(v) == var[v] # None /\ Set(heap, v, None)

\* unset of the first element, which is unlinked before it is dropped, or of the
\* first property, which is dropped before it is unlinked.
UnsetFirst(v) ==
  LET o == heap.z[var[v]].at
  IN  /\ var[v] # None
      /\ \/ /\ heap.z[var[v]].kind = "array" /\ heap.z[var[v]].elems # <<>>
            /\ Goes(zval_ptr_dtor([heap EXCEPT !.z[var[v]].elems = Tail(@)],
                                  heap.z[var[v]].elems[1]))
         \/ /\ heap.z[var[v]].kind = "object" /\ heap.o[o].props # <<>>
            /\ Goes([zval_ptr_dtor(heap, heap.o[o].props[1]) EXCEPT !.o[o].props = Tail(@)])
      /\ UNCHANGED var

\* gc_collect_cycles() of a script.
CollectCycles ==
  /\ heap.roots # <<>>
  /\ Goes(gc_collect_cycles(heap)) /\ UNCHANGED var

GcInit == (\E max \in RootMaxes : heap = EmptyHeap(max)) /\ var = [v \in Vars |-> None]

GcNext ==
  \/ CollectCycles
  \/ \E v \in Vars : NewArray(v) \/ NewObject(v) \/ Unset(v) \/ UnsetFirst(v)
  \/ \E v, w \in Vars : Share(v, w) \/ Copy(v, w)
  \/ Cardinality(Slots(heap)) < MaxStored /\ \E v, w \in Vars : Store(v, w)

GcSpec == GcInit /\ [][GcNext]_gcVars

----------------------------------------------------------------------------
(* Properties *)

\* How often x is in s.
Occurs(s, x) == Cardinality({i \in 1 .. Len(s) : s[i] = x})

RefsTo(z) ==
  Cardinality({v \in Vars : var[v] = z})
  + Cardinality({s \in Slots(heap) : Held(heap, s) = z})

\* The zvals that h lets a script reach from those in S.
Next1(h, S) ==
  LET holders == {IF h.z[z].kind = "object" THEN h.z[z].at ELSE z : z \in S}
  IN  {Held(h, s) : s \in {s \in Slots(h) : s[1] \in holders}}
RECURSIVE Reach(_, _)
Reach(h, S) == IF Next1(h, S) \subseteq S THEN S ELSE Reach(h, S \cup Next1(h, S))
Reachable(h) == Reach(h, {var[v] : v \in Vars} \ {None})

\* Reference counts are exact between two operations, so what is referred to is
\* there: no order of sharing, dropping and collecting, also when a full buffer
\* starts a collection inside a destruction, frees a zval or object too early,
\* twice or not at all.
GcExact == ~heap.stale =>
  /\ ~heap.bad
  /\ \A z \in Zvals : LET n == RefsTo(z) IN heap.z[z].rc = n /\ (z \in Live(heap) <=> n > 0)
  /\ \A o \in Handles :
       /\ heap.o[o].rc = Cardinality({z \in Zvals : heap.z[z].kind = "object" /\ heap.z[z].at = o})
       /\ heap.o[o].valid <=> heap.o[o].rc > 0

\* The buffer holds the zvals and objects that are marked as buffered, each once,
\* and no colour but purple for those is left over from a collection.
GcBuffered == ~heap.stale =>
  /\ Len(heap.roots) <= heap.max /\ heap.free = <<>>
  /\ \A z \in Zvals :
       /\ heap.z[z].buf = "root" <=> heap.z[z].col = "purple"
       /\ heap.z[z].buf # "root" => heap.z[z].buf = "none" /\ heap.z[z].col = "black"
       /\ Occurs(heap.roots, ZRoot(z)) = IF heap.z[z].buf = "root" THEN 1 ELSE 0
  /\ \A o \in Handles :
       /\ heap.o[o].buf = "root" <=> heap.o[o].col = "purple"
       /\ heap.o[o].buf # "root" => heap.o[o].buf = "none" /\ heap.o[o].col = "black"
       /\ Occurs(heap.roots, ORoot(o)) = IF heap.o[o].buf = "root" THEN 1 ELSE 0

\* A collection started now would free all that scripts cannot reach and nothing
\* else: every cycle that was cut off has a root in the buffer, unless a full buffer
\* had to turn a root away.
GcComplete ==
  LET h == gc_collect_cycles(heap)
  IN  ~h.stale /\ ~h.lost => ~h.bad /\ Live(h) = Reachable(heap)
============================================================================
