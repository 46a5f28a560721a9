---------------------------- MODULE ZendGcPhases ----------------------------
(***************************************************************************)
(* The three phases of gc_collect_cycles() (Zend/zend_gc.c) that decide    *)
(* what is garbage, on any heap, one step per reference that is followed.  *)
(* gc_mark_roots() subtracts the references inside what the possible roots *)
(* hold, gc_scan_roots() gives them back to what is held from elsewhere,   *)
(* gc_collect_roots() makes the list of the rest.  The heap does not       *)
(* change meanwhile.                                                       *)
(*                                                                         *)
(* The recursion of zval_mark_grey(), zval_scan(), zval_scan_black() and   *)
(* zval_collect_white() is a set of references that are still to be        *)
(* followed.  The code follows them depth first, in the order of elements  *)
(* and properties; here any order is allowed.                              *)
(***************************************************************************)
EXTENDS Integers, FiniteSets

CONSTANTS
    Cells,      \* zvals and objects, allocated or not
    ObjCells    \* those of them that are objects

VARIABLES
    refs,       \* elements, properties, and the handles of zvals of type IS_OBJECT
    from,       \* the zval or object that holds a reference
    to,         \* the zval or object that it leads to
    outside,    \* how many references to a node are held elsewhere, as by variables
    suspects,   \* history: the possible roots that the collection began with
    phase,      \* which of the three loops over the roots is running
    todo,       \* roots that it has not come to
    work,       \* references that it still has to follow
    restore,    \* references that zval_scan_black() still has to give back
    rc,         \* refcount__gc, and the refcount of objects
    color,      \* the low bits of u.buffered and of obj->buffered
    buffered,   \* nodes with an entry in the root buffer, whose address that word has
    tofree      \* the zvals in the list zval_to_free

heap == <<refs, from, to, outside, suspects>>
phaseVars == <<heap, phase, todo, work, restore, rc, color, buffered, tofree>>

RefsTo(n) == {r \in refs : to[r] = n}
RefsFrom(n) == {r \in refs : from[r] = n}

\* Between two statements counts are exact, and the possible roots are purple.
PhasesInit ==
    /\ IsFiniteSet(refs)
    /\ from \in [refs -> Cells] /\ to \in [refs -> Cells]
    /\ \A r \in refs : to[r] \in ObjCells => from[r] \notin ObjCells
    /\ outside \in [Cells -> Nat]
    /\ rc = [n \in Cells |-> outside[n] + Cardinality(RefsTo(n))]
    /\ color \in [Cells -> {"black", "purple"}]
    /\ suspects = {n \in Cells : color[n] = "purple"}
    /\ buffered = suspects
    /\ phase = "mark" /\ todo = suspects
    /\ work = {} /\ restore = {} /\ tofree = {}

\* A loop over the roots is at its end, and the next one begins.
NextLoop(this, next) ==
    /\ phase = this /\ todo = {} /\ work = {} /\ restore = {}
    /\ phase' = next /\ todo' = buffered
    /\ UNCHANGED <<heap, work, restore, rc, color, buffered, tofree>>

\* The loop comes to the root n.
AtRoot(this, n) ==
    /\ phase = this /\ work = {} /\ restore = {}
    /\ n \in todo /\ todo' = todo \ {n}
    /\ UNCHANGED <<heap, phase>>

\* The recursion comes to the reference r.
AtRef(this, r) ==
    /\ phase = this /\ restore = {} /\ r \in work
    /\ UNCHANGED <<heap, phase, todo>>

----------------------------------------------------------------------------
(* Marking.                                                                *)

MarkRoot(n) ==
    /\ AtRoot("mark", n)
    /\ color[n] = "purple"
    /\ color' = [color EXCEPT ![n] = "grey"]
    /\ work' = RefsFrom(n)
    /\ UNCHANGED <<restore, rc, buffered, tofree>>

\* A root that is not purple any more was reached from one before it.
DropRoot(n) ==
    /\ AtRoot("mark", n)
    /\ color[n] # "purple"
    /\ buffered' = buffered \ {n}
    /\ UNCHANGED <<work, restore, rc, color, tofree>>

mark_grey(r) ==
    /\ AtRef("mark", r)
    /\ rc' = [rc EXCEPT ![to[r]] = @ - 1]
    /\ IF color[to[r]] = "grey"
       THEN work' = work \ {r} /\ UNCHANGED color
       ELSE /\ color' = [color EXCEPT ![to[r]] = "grey"]
            /\ work' = (work \ {r}) \cup RefsFrom(to[r])
    /\ UNCHANGED <<restore, buffered, tofree>>

MarkDone == NextLoop("mark", "scan")

----------------------------------------------------------------------------
(* Scanning.  zval_scan_black() has priority: it returns before the scan   *)
(* goes on.                                                                *)

\* n, found grey, is held from elsewhere, or it may be garbage.
ScanGrey(n, rest) ==
    /\ color[n] = "grey"
    /\ \/ /\ rc[n] > 0
          /\ color' = [color EXCEPT ![n] = "black"]
          /\ restore' = RefsFrom(n) /\ work' = rest
       \/ /\ rc[n] = 0
          /\ color' = [color EXCEPT ![n] = "white"]
          /\ work' = rest \cup RefsFrom(n) /\ UNCHANGED restore

ScanOther(n, rest) ==
    /\ color[n] # "grey"
    /\ work' = rest
    /\ UNCHANGED <<restore, color>>

ScanRoot(n) ==
    /\ AtRoot("scan", n)
    /\ ScanGrey(n, work) \/ ScanOther(n, work)
    /\ UNCHANGED <<rc, buffered, tofree>>

scan(r) ==
    /\ AtRef("scan", r)
    /\ ScanGrey(to[r], work \ {r}) \/ ScanOther(to[r], work \ {r})
    /\ UNCHANGED <<rc, buffered, tofree>>

\* Mutant: what is white is not visited again.
scan_black_grey(r) ==
    /\ phase = "scan" /\ r \in restore
    /\ rc' = [rc EXCEPT ![to[r]] = @ + 1]
    /\ IF color[to[r]] # "grey"
       THEN restore' = restore \ {r} /\ UNCHANGED color
       ELSE /\ color' = [color EXCEPT ![to[r]] = "black"]
            /\ restore' = (restore \ {r}) \cup RefsFrom(to[r])
    /\ UNCHANGED <<heap, phase, todo, work, buffered, tofree>>

\* Mutant: what is black already gets no count back.
scan_black_once(r) ==
    /\ phase = "scan" /\ r \in restore
    /\ IF color[to[r]] = "black"
       THEN restore' = restore \ {r} /\ UNCHANGED <<color, rc>>
       ELSE /\ rc' = [rc EXCEPT ![to[r]] = @ + 1]
            /\ color' = [color EXCEPT ![to[r]] = "black"]
            /\ restore' = (restore \ {r}) \cup RefsFrom(to[r])
    /\ UNCHANGED <<heap, phase, todo, work, buffered, tofree>>

scan_black(r) ==
    /\ phase = "scan" /\ r \in restore
    /\ rc' = [rc EXCEPT ![to[r]] = @ + 1]
    /\ IF color[to[r]] = "black"
       THEN restore' = restore \ {r} /\ UNCHANGED color
       ELSE /\ color' = [color EXCEPT ![to[r]] = "black"]
            /\ restore' = (restore \ {r}) \cup RefsFrom(to[r])
    /\ UNCHANGED <<heap, phase, todo, work, buffered, tofree>>

ScanDone == NextLoop("scan", "collect")

----------------------------------------------------------------------------
(* Collecting.  The references of garbage to zvals are given back, and the *)
(* list has one more; those to objects stay subtracted.                    *)

\* Mutant: objects turn black too.
CollectWhite_black(n, k, rest) ==
    /\ color[n] = "white" /\ n \notin buffered'
    /\ work' = rest \cup RefsFrom(n)
    /\ color' = [color EXCEPT ![n] = "black"]
    /\ rc' = [rc EXCEPT ![n] = IF n \in ObjCells THEN k ELSE k + 1]
    /\ tofree' = IF n \in ObjCells THEN tofree ELSE tofree \cup {n}

\* collect_white() of n, whose count is k: u.buffered is GC_WHITE, the colour and
\* no address.
CollectWhite(n, k, rest) ==
    /\ color[n] = "white" /\ n \notin buffered'
    /\ work' = rest \cup RefsFrom(n)
    /\ IF n \in ObjCells
       THEN /\ color' = [color EXCEPT ![n] = "purple"]
            /\ rc' = [rc EXCEPT ![n] = k] /\ UNCHANGED tofree
       ELSE /\ color' = [color EXCEPT ![n] = "black"]
            /\ rc' = [rc EXCEPT ![n] = k + 1] /\ tofree' = tofree \cup {n}

CollectOther(n, k, rest) ==
    /\ ~(color[n] = "white" /\ n \notin buffered')
    /\ work' = rest
    /\ rc' = [rc EXCEPT ![n] = k]
    /\ UNCHANGED <<color, tofree>>

\* The address goes first; the entry is freed at the end.
CollectRoot(n) ==
    /\ AtRoot("collect", n)
    /\ buffered' = buffered \ {n}
    /\ CollectWhite(n, rc[n], work) \/ CollectOther(n, rc[n], work)
    /\ UNCHANGED restore

\* Mutant: objects get their count back too.
collect_white_objects(r) ==
    /\ AtRef("collect", r)
    /\ UNCHANGED <<restore, buffered>>
    /\ \/ CollectWhite(to[r], rc[to[r]] + 1, work \ {r})
       \/ CollectOther(to[r], rc[to[r]] + 1, work \ {r})

collect_white(r) ==
    LET n == to[r]
        k == IF n \in ObjCells THEN rc[n] ELSE rc[n] + 1
    IN  /\ AtRef("collect", r)
        /\ UNCHANGED <<restore, buffered>>
        /\ CollectWhite(n, k, work \ {r}) \/ CollectOther(n, k, work \ {r})

CollectDone == NextLoop("collect", "done")

----------------------------------------------------------------------------

PhasesNext ==
    \/ MarkDone \/ ScanDone \/ CollectDone
    \/ \E n \in todo : MarkRoot(n) \/ DropRoot(n) \/ ScanRoot(n) \/ CollectRoot(n)
    \/ \E r \in work : mark_grey(r) \/ scan(r) \/ collect_white(r)
    \/ \E r \in restore : scan_black(r)

PhasesSpec == PhasesInit /\ [][PhasesNext]_phaseVars

----------------------------------------------------------------------------
(* Properties                                                              *)

\* Counts are never below 0, so that the comparison of unsigned numbers with 0 in
\* zval_scan() means what it says, and colours are those of the phase.
PhaseTypes ==
    /\ phase \in {"mark", "scan", "collect", "done"}
    /\ todo \subseteq buffered /\ buffered \subseteq suspects
    /\ work \subseteq refs /\ restore \subseteq refs
    /\ rc \in [Cells -> Nat]
    /\ color \in [Cells -> {"black", "grey", "white", "purple"}]
    /\ tofree \subseteq Cells \ ObjCells

\* What a set of nodes holds, directly or not.
Closed(S) == \A r \in refs : from[r] \in S => to[r] \in S
ReachFrom(S) == {n \in Cells : \A T \in SUBSET Cells : S \subseteq T /\ Closed(T) => n \in T}

\* What the possible roots hold, and what is held from outside of that.
Suspected == ReachFrom(suspects)
Live == ReachFrom({n \in Cells : outside[n] > 0} \cup (Cells \ Suspected))

\* What the collector has found to be garbage; collected objects are purple.
Garbage == tofree \cup {n \in Cells : color[n] \in {"white", "purple"}}

\* gc_collect_roots() leaves in the list, or purple, exactly what can be reached from
\* the possible roots and is not held from elsewhere, whatever the shape of the heap and
\* the order of the visits; nothing stays grey or white.
CollectsExactly ==
    phase = "done" =>
        /\ Garbage = Cells \ Live
        /\ \A n \in Cells : color[n] \in {"black", "purple"}

\* All that the phases have subtracted is given back: the count of a zval is exact, with
\* one more for the list, and that of an object lacks the references of what is in the
\* list, which the destruction of the list does not release one by one.
CountsRestored ==
    phase = "done" =>
        \A n \in Cells :
            rc[n] = outside[n] + (IF n \in tofree THEN 1 ELSE 0)
                      + Cardinality({r \in RefsTo(n) : n \in ObjCells => from[r] \notin tofree})

\* The test "refcount <= 0", by which gc_collect_cycles() destructs and frees the object
\* of a zval in the list, is true of the garbage objects and of no other.
ZeroIsGarbage ==
    phase = "done" =>
        \A r \in refs : from[r] \in tofree /\ to[r] \in ObjCells =>
            (rc[to[r]] = 0 <=> to[r] \in Garbage)

=============================================================================
