------------------------------- MODULE ZendGc -------------------------------
(***************************************************************************)
(* Reference counting and the cycle collector (Zend/zend_gc.c,             *)
(* Zend/zend_objects_API.c).  A zval is an array, which holds its elements,*)
(* or a reference to an object, which holds its properties; an object has  *)
(* a count of its own, of the zvals that refer to it.  A zval whose count  *)
(* falls to 0 is freed with what it holds.  One whose count falls to       *)
(* something else may be the root of a garbage cycle: it is coloured       *)
(* purple and entered into the root buffer.  The collector subtracts the   *)
(* references inside what the roots hold (grey), gives back what is held   *)
(* from outside (black), and frees the rest (white).                       *)
(*                                                                         *)
(* The memory is a record, and the functions of the code are operators on  *)
(* it, with the recursion and the order of the code.  The program acts on  *)
(* it through variables, one statement at a time.                          *)
(***************************************************************************)
EXTENDS Integers, Sequences, FiniteSets, SequencesExt

CONSTANTS
    Arrays,     \* zvals of type IS_ARRAY
    Refs,       \* zvals of type IS_OBJECT
    Objects,    \* handles of the object store
    Handle,     \* Z_OBJ_HANDLE of each of Refs
    Width,      \* how many elements or properties each of Arrays and Objects has
    Clears,     \* objects whose destructor unsets the properties of $this
    Collects,   \* objects whose destructor ends with gc_collect_cycles()
    Vars,       \* variables of the program
    BufSize,    \* GC_ROOT_BUFFER_MAX_ENTRIES
    None        \* an unset variable, element or property

ASSUME GcAssumption ==
    /\ Handle \in [Refs -> Objects]
    /\ Width \in [Arrays \cup Objects -> Nat]
    /\ Clears \cup Collects \subseteq Objects
    /\ BufSize \in Nat \ {0}
    /\ Cardinality({Arrays, Refs, Objects, {None}}) = 4

Zvals == Arrays \cup Refs
Nodes == Zvals \cup Objects     \* whatever has a count and a colour

VARIABLES
    m,          \* the memory
    var         \* the zval each variable holds

vars == <<m, var>>

(***************************************************************************)
(* m.used    zvals and objects that are allocated (valid)                  *)
(* m.rc      refcount__gc, and the refcount of objects                     *)
(* m.color   the low bits of u.buffered and of obj->buffered               *)
(* m.addr    the rest of that word: no address, a root buffer, or (zvals   *)
(*           only, u.next) the link of the list of zvals to free           *)
(* m.slot    elements and properties                                       *)
(* m.roots   the list of possible roots, newest first                      *)
(* m.tofree  the list zval_to_free that is being built                     *)
(* m.freeing how many lists are being freed: free_list is not NULL         *)
(* m.called  objects whose destructor_called is set                        *)
(* m.calls   history: how often the destructor of an object was called     *)
(* m.undone  history: an object was freed without one call of it           *)
(* m.wild    history: memory that was not allocated was touched            *)
(***************************************************************************)
Init ==
    /\ m = [used |-> {},
            rc |-> [n \in Nodes |-> 0],
            color |-> [n \in Nodes |-> "black"],
            addr |-> [n \in Nodes |-> "none"],
            slot |-> [c \in Arrays \cup Objects |-> [i \in 1 .. Width[c] |-> None]],
            roots |-> <<>>, tofree |-> <<>>, freeing |-> 0,
            called |-> {}, calls |-> [o \in Objects |-> 0],
            undone |-> FALSE, wild |-> FALSE]
    /\ var = [v \in Vars |-> None]

\* Counts are unsigned: one below 0 is not 0, and so counts as held.
Add(g, n, k) == [g EXCEPT !.rc[n] = @ + k, !.wild = @ \/ n \notin g.used]
Paint(g, n, c) == [g EXCEPT !.color[n] = c, !.wild = @ \/ n \notin g.used]

\* The elements or properties of c, in order.
Children(g, c) == SelectSeq([i \in 1 .. Width[c] |-> g.slot[c][i]], LAMBDA z : z # None)

\* GC_REMOVE_FROM_BUFFER.  The entry of n to remove is the one its word has the
\* address of, the newest.
gc_remove_from_buffer(g, n) == [g EXCEPT !.roots = RemoveFirst(@, n)]

----------------------------------------------------------------------------
(* Marking.  Counts lose the references from within.                       *)

RECURSIVE zval_mark_grey(_, _), zobj_mark_grey(_, _)

MarkChildren(g, c) ==
    FoldLeft(LAMBDA h, z : zval_mark_grey(Add(h, z, -1), z), g, Children(g, c))

zval_mark_grey(g, z) ==
    IF g.color[z] = "grey" THEN g
    ELSE LET h == Paint(g, z, "grey")
         IN  IF z \in Arrays THEN MarkChildren(h, z)
             ELSE zobj_mark_grey(Add(h, Handle[z], -1), Handle[z])

zobj_mark_grey(g, o) ==
    IF g.color[o] = "grey" THEN g ELSE MarkChildren(Paint(g, o, "grey"), o)

\* Mutant: the entry goes, its address stays.
mark_root_address(g, r) ==
    IF g.color[r] # "purple" THEN gc_remove_from_buffer(g, r)
    ELSE IF r \in Objects THEN zobj_mark_grey(g, r) ELSE zval_mark_grey(g, r)

\* A root that is not purple any more was reached from one before it; its entry
\* goes (if it has two, this is the older one).
mark_root(g, r) ==
    IF g.color[r] # "purple"
    THEN [g EXCEPT !.addr[r] = "none", !.wild = @ \/ r \notin g.used,
                   !.roots = RemoveAt(@, SelectLastInSeq(@, LAMBDA q : q = r))]
    ELSE IF r \in Objects THEN zobj_mark_grey(g, r) ELSE zval_mark_grey(g, r)

gc_mark_roots(g) == FoldLeft(mark_root, g, g.roots)

----------------------------------------------------------------------------
(* Scanning.  What is still counted is held from outside: it and all that  *)
(* it holds get their counts back.                                         *)

RECURSIVE zval_scan_black(_, _), zval_scan(_, _), zobj_scan(_, _)

\* Mutant: what is black already gets no count back.
BlackChildren_once(g, c) ==
    FoldLeft(LAMBDA h, z : IF h.color[z] = "black" THEN h ELSE zval_scan_black(Add(h, z, 1), z),
             g, Children(g, c))

BlackChildren(g, c) ==
    FoldLeft(LAMBDA h, z : LET k == Add(h, z, 1)
                           IN  IF k.color[z] = "black" THEN k ELSE zval_scan_black(k, z),
             g, Children(g, c))

zobj_scan_black(g, o) == BlackChildren(Paint(g, o, "black"), o)

zval_scan_black(g, z) ==
    LET h == Paint(g, z, "black")
    IN  IF z \in Arrays THEN BlackChildren(h, z)
        ELSE LET k == Add(h, Handle[z], 1)
             IN  IF k.color[Handle[z]] = "black" THEN k ELSE zobj_scan_black(k, Handle[z])

ScanChildren(g, c) == FoldLeft(zval_scan, g, Children(g, c))

zval_scan(g, z) ==
    IF g.color[z] # "grey" THEN g
    ELSE IF g.rc[z] # 0 THEN zval_scan_black(g, z)
    ELSE LET h == Paint(g, z, "white")
         IN  IF z \in Arrays THEN ScanChildren(h, z) ELSE zobj_scan(h, Handle[z])

zobj_scan(g, o) ==
    IF g.color[o] # "grey" THEN g
    ELSE IF g.rc[o] # 0 THEN zobj_scan_black(g, o)
    ELSE ScanChildren(Paint(g, o, "white"), o)

gc_scan_roots(g) ==
    FoldLeft(LAMBDA h, r : IF r \in Objects THEN zobj_scan(h, r) ELSE zval_scan(h, r),
             g, g.roots)

----------------------------------------------------------------------------
(* Collecting.  White zvals are linked into zval_to_free with one          *)
(* reference more, so that releasing what they hold does not free them.    *)

RECURSIVE zval_collect_white(_, _)

CollectChildren(g, c) ==
    FoldLeft(LAMBDA h, z : zval_collect_white(Add(h, z, 1), z), g, Children(g, c))

IsWhite(g, n) == g.color[n] = "white" /\ g.addr[n] = "none"

\* Objects turn purple, not black, "to prevent buffering in nested gc calls".
zobj_collect_white(g, o) ==
    IF IsWhite(g, o) THEN CollectChildren(Paint(g, o, "purple"), o) ELSE g

zval_collect_white(g, z) ==
    IF ~IsWhite(g, z) THEN g
    ELSE LET h == [Paint(Add(g, z, 1), z, "black") EXCEPT
                      !.addr[z] = "list", !.tofree = <<z>> \o @]
         IN  IF z \in Arrays THEN CollectChildren(h, z) ELSE zobj_collect_white(h, Handle[z])

collect_root(g, r) ==
    LET h == [g EXCEPT !.addr[r] = "none"]
    IN  gc_remove_from_buffer(IF r \in Objects THEN zobj_collect_white(h, r)
                                               ELSE zval_collect_white(h, r), r)

gc_collect_roots(g) == FoldLeft(collect_root, g, g.roots)

----------------------------------------------------------------------------
(* Releasing a reference.                                                  *)

RECURSIVE i_zval_ptr_dtor(_, _), gc_collect_cycles(_)

\* A zval of the list that is being freed: its word holds a link, not a root.
ToBeFreed(g, z) == g.freeing > 0 /\ g.addr[z] = "list"

Buffer(g, n) == [g EXCEPT !.color[n] = "purple", !.addr[n] = "buffer", !.roots = <<n>> \o @]
BufferIfRoom(g, n) == IF Len(g.roots) < BufSize THEN Buffer(g, n) ELSE g
Keep(g, z, k) == IF z = None THEN g ELSE Add(g, z, k)

\* n, which lost the reference of the zval z (None: of a temporary one), enters
\* the buffer.  A full buffer is collected first, while z is kept.
possible_root(g, n, z) ==
    IF g.color[n] = "purple" \/ g.addr[n] # "none" THEN g
    ELSE IF Len(g.roots) < BufSize THEN Buffer(g, n)
    ELSE BufferIfRoom(Keep(gc_collect_cycles(Keep(g, z, 1)), z, -1), n)

gc_zobj_possible_root(g, z) ==
    IF Handle[z] \in g.used THEN possible_root(g, Handle[z], z) ELSE g

gc_zval_possible_root(g, z) ==
    IF ToBeFreed(g, z) THEN g
    ELSE IF z \in Refs THEN gc_zobj_possible_root(g, z)
    ELSE possible_root(g, z, z)

Unbuffer(g, n) == [gc_remove_from_buffer(g, n) EXCEPT !.color[n] = "black", !.addr[n] = "none"]

\* Mutant: the word of the zval is reset, its entry stays.
gc_remove_zval_from_buffer_word(g, z) ==
    IF g.addr[z] = "none" \/ ToBeFreed(g, z) THEN g
    ELSE [g EXCEPT !.color[z] = "black", !.addr[z] = "none"]

gc_remove_zval_from_buffer(g, z) ==
    IF g.addr[z] = "none" \/ ToBeFreed(g, z) THEN g ELSE Unbuffer(g, z)

Release(g, zs) == FoldLeft(i_zval_ptr_dtor, g, zs)

Clear(g, c) == [g EXCEPT !.slot[c] = [i \in DOMAIN @ |-> None]]

\* The array's type is IS_NULL while zend_hash_destroy() runs.
zend_hash_destroy(g, a) == Release(Clear(g, a), Children(g, a))

\* unset() of a declared property, place p: the property is released
\* first, and set to NULL after that.
zend_std_unset_property(g, p) ==
    LET z == g.slot[p[1]][p[2]]
    IN  IF z = None THEN g ELSE [i_zval_ptr_dtor(g, z) EXCEPT !.slot[p[1]][p[2]] = None]

Properties(o) == [i \in 1 .. Width[o] |-> <<o, i>>]

\* What the script's destructor does.
UnsetProperties(g, o) ==
    IF o \in Clears THEN FoldLeft(zend_std_unset_property, g, Properties(o)) ELSE g
__destruct(g, o) ==
    IF o \in Collects THEN gc_collect_cycles(UnsetProperties(g, o)) ELSE UnsetProperties(g, o)

\* A destructor runs with a zval of its own for $this, whose release makes the
\* object a possible root.
zend_objects_destroy_object(g, o) ==
    IF o \in Clears \cup Collects
    THEN possible_root(Add(__destruct(Add(g, o, 1), o), o, -1), o, None)
    ELSE g

\* Mutant: destructor_called is not set.
Destruct_unmarked(g, o) == zend_objects_destroy_object([g EXCEPT !.calls[o] = @ + 1], o)

Destruct(g, o) ==
    zend_objects_destroy_object([g EXCEPT !.called = @ \cup {o}, !.calls[o] = @ + 1], o)

\* zend_object_std_dtor() releases the properties one by one; the object stays
\* in the store until all of them are released.
ReleaseAll(g, o) == Clear(Release(g, Children(g, o)), o)
free_storage(g, o) ==
    [ReleaseAll(IF g.addr[o] = "buffer" THEN Unbuffer(g, o) ELSE g, o) EXCEPT
        !.used = @ \ {o}, !.called = @ \ {o}, !.color[o] = "black",
        !.calls[o] = 0, !.undone = @ \/ g.calls[o] # 1]

\* The last reference goes: the destructor runs and, if it has left no new
\* one, the object is freed.
DestructLast(g, o) == IF o \in g.called THEN g ELSE Destruct(g, o)
FreeLast(g, o) == IF o \in g.used /\ g.rc[o] = 1 THEN free_storage(g, o) ELSE g

\* Mutant: an object that is freed loses its last reference twice.
zend_objects_store_del_ref_by_handle_ex_twice(g, o) ==
    [FreeLast(DestructLast(g, o), o) EXCEPT !.rc[o] = @ - 1 - (IF g.rc[o] = 1 THEN 1 ELSE 0)]

zend_objects_store_del_ref_by_handle_ex(g, o) ==
    IF o \in g.used /\ g.rc[o] = 1
    THEN [FreeLast(DestructLast(g, o), o) EXCEPT !.rc[o] = @ - 1]
    ELSE [g EXCEPT !.rc[o] = @ - 1]

\* Mutant: an object that lost a reference is no possible root.
zend_objects_store_del_ref_only(g, z) ==
    Add(zend_objects_store_del_ref_by_handle_ex(Add(g, z, 1), Handle[z]), z, -1)

zend_objects_store_del_ref(g, z) ==
    gc_zobj_possible_root(
        Add(zend_objects_store_del_ref_by_handle_ex(Add(g, z, 1), Handle[z]), z, -1), z)

efree(g, z) == [g EXCEPT !.used = @ \ {z}, !.color[z] = "black", !.addr[z] = "none",
                         !.rc[z] = 0, !.wild = @ \/ z \notin g.used]

zval_dtor(g, z) ==
    IF z \in Arrays THEN zend_hash_destroy(g, z) ELSE zend_objects_store_del_ref(g, z)

i_zval_ptr_dtor(g, z) ==
    LET h == Add(g, z, -1)
    IN  IF h.rc[z] = 0 THEN efree(zval_dtor(gc_remove_zval_from_buffer(h, z), z), z)
                       ELSE gc_zval_possible_root(h, z)

----------------------------------------------------------------------------
(* gc_collect_cycles()                                                     *)

call_destructor(g, z) ==
    LET o == Handle[z]
    IN  IF z \in Refs /\ o \in g.used /\ g.rc[o] = 0 /\ o \notin g.called
        THEN Add(Destruct(Add(g, o, 1), o), o, -1)
        ELSE g

destroy_zval(g, z) ==
    IF z \in Arrays THEN zend_hash_destroy(g, z)
    ELSE LET o == Handle[z]
         IN  IF o \in g.used /\ g.rc[o] = 0
             THEN zend_objects_store_del_ref_by_handle_ex([g EXCEPT !.rc[o] = 1], o)
             ELSE g

free_garbage(g) ==
    LET called == FoldLeft(call_destructor, [g EXCEPT !.tofree = <<>>, !.freeing = @ + 1], g.tofree)
        freed == FoldLeft(efree, FoldLeft(destroy_zval, called, g.tofree), g.tofree)
    IN  [freed EXCEPT !.freeing = @ - 1]

gc_collect_cycles(g) ==
    IF g.roots = <<>> THEN g
    ELSE free_garbage(gc_collect_roots(gc_scan_roots(gc_mark_roots(g))))

----------------------------------------------------------------------------
(* The program.                                                            *)

\* Elements and properties that the program can name: those of the array or
\* object a variable holds.
Container(z) == IF z \in Arrays THEN z ELSE Handle[z]
Held == {v \in Vars : var[v] # None}
Places(C) == UNION {{<<c, i>> : i \in 1 .. Width[c]} : c \in C}
Named == Places({Container(var[v]) : v \in Held})
Readable == ({var[v] : v \in Vars} \cup {m.slot[p[1]][p[2]] : p \in Named}) \ {None}

zend_objects_store_put(g, o) ==
    [g EXCEPT !.used = @ \cup {o}, !.rc[o] = 1, !.color[o] = "black", !.addr[o] = "none"]

ReleaseOld(g, z) == IF z = None THEN g ELSE i_zval_ptr_dtor(g, z)

\* $v = array(), $v = new C, and, for an object that the program can name,
\* $v = $w, of an unset variable v.
New(v, z) ==
    LET o == Handle[z]
        g == [m EXCEPT !.used = @ \cup {z}, !.rc[z] = 1]
    IN  /\ var[v] = None /\ z \notin m.used
        /\ \/ z \in Arrays /\ m' = g
           \/ z \in Refs /\ o \notin m.used /\ m' = zend_objects_store_put(g, o)
           \/ z \in Refs /\ o \in {Handle[y] : y \in Readable \cap Refs} /\ m' = Add(g, o, 1)
        /\ var' = [var EXCEPT ![v] = z]

\* $v = &...; zend_assign_to_variable_reference()
AssignVar(v, z) ==
    /\ z # var[v]
    /\ m' = ReleaseOld(Add(m, z, 1), var[v])
    /\ var' = [var EXCEPT ![v] = z]

AssignPlace(p, z) ==
    LET old == m.slot[p[1]][p[2]]
    IN  /\ z # old
        /\ m' = ReleaseOld([Add(m, z, 1) EXCEPT !.slot[p[1]][p[2]] = z], old)
        /\ UNCHANGED var

UnsetVar(v) ==
    /\ var[v] # None
    /\ m' = i_zval_ptr_dtor(m, var[v])
    /\ var' = [var EXCEPT ![v] = None]

\* zend_hash_del() takes an element out of the array, and releases it then.
UnsetPlace(p) ==
    LET old == m.slot[p[1]][p[2]]
    IN  /\ old # None
        /\ m' = IF p[1] \in Objects THEN zend_std_unset_property(m, p)
                ELSE i_zval_ptr_dtor([m EXCEPT !.slot[p[1]][p[2]] = None], old)
        /\ UNCHANGED var

Collect ==
    /\ m' = gc_collect_cycles(m)
    /\ UNCHANGED var

Next ==
    \/ \E v \in Vars : UnsetVar(v) \/ (\E z \in Zvals : New(v, z)) \/ (\E z \in Readable : AssignVar(v, z))
    \/ \E p \in Named : UnsetPlace(p) \/ (\E z \in Readable : AssignPlace(p, z))
    \/ Collect

Spec == Init /\ [][Next]_vars

----------------------------------------------------------------------------
(* Properties                                                              *)

TypeOK ==
    /\ var \in [Vars -> Zvals \cup {None}]
    /\ m.used \subseteq Nodes
    /\ m.rc \in [Nodes -> Nat]
    /\ m.color \in [Nodes -> {"black", "purple"}]
    /\ m.addr \in [Nodes -> {"none", "buffer"}]
    /\ Len(m.roots) <= BufSize
    /\ m.tofree = <<>> /\ m.freeing = 0

\* References to z from variables, and from what is allocated.
Count(z) ==
    Cardinality({v \in Vars : var[v] = z})
      + Cardinality({p \in Places((Arrays \cup Objects) \cap m.used) : m.slot[p[1]][p[2]] = z})

\* Between two statements every count is exact: the collector has given back all
\* it subtracted from what it kept, and taken the references of what it freed.
CountsExact ==
    /\ \A z \in Zvals : m.rc[z] = IF z \in m.used THEN Count(z) ELSE 0
    /\ \A o \in Objects \cap m.used : m.rc[o] = Cardinality({z \in Refs \cap m.used : Handle[z] = o})

\* What i_zval_ptr_dtor() and del_ref_by_handle_ex() free is in the list of
\* possible roots no more.
RemovedFromBuffer == ToSet(m.roots) \subseteq m.used

\* Nothing that is freed is touched, by the collector or by a release, and all
\* that variables, elements, properties and roots refer to is allocated.
NothingDangles ==
    /\ ~m.wild
    /\ RemovedFromBuffer
    /\ \A v \in Held : var[v] \in m.used
    /\ \A c \in (Arrays \cup Objects) \cap m.used : \A z \in ToSet(Children(m, c)) : z \in m.used
    /\ \A z \in Refs \cap m.used : Handle[z] \in m.used

\* A possible root is purple and has one entry; all else is black and has none.
RootsTidy ==
    \A n \in m.used :
        LET entries == Len(SelectSeq(m.roots, LAMBDA r : r = n))
        IN  /\ entries = IF m.color[n] = "purple" THEN 1 ELSE 0
            /\ m.addr[n] = IF m.color[n] = "purple" THEN "buffer" ELSE "none"

\* A destructor is called once for an object, whether the object goes with its
\* last reference or with a cycle, and never for one that is held.
DestructedOnce ==
    /\ ~m.undone
    /\ \A o \in Objects \cap m.used : m.calls[o] = 0

\* What the variables reach.
Reach[S \in SUBSET Nodes] ==
    LET T == S \cup {Handle[z] : z \in S \cap Refs}
               \cup UNION {ToSet(Children(m, c)) : c \in S \ Refs}
    IN  IF T = S THEN S ELSE Reach[T]

Reachable == Reach[{var[v] : v \in Held}]

\* At any time a collection would free all garbage, and nothing else: the counts
\* and the root buffer lose track of no cycle, however it came to be cut off.
CollectsGarbage == gc_collect_cycles(m).used = Reachable

=============================================================================
