---------------------------- MODULE ZendGcSteps -----------------------------
(***************************************************************************)
(* ZendGc, with the phases of a collection that the program starts taken   *)
(* one step at a time (ZendGcPhases, whose cells are the zvals and objects *)
(* of ZendGc).  ZendGc computes the result of the phases with recursive    *)
(* operators in the order of the code; here the steps are compared with    *)
(* them.                                                                   *)
(***************************************************************************)
EXTENDS ZendGc, ZendGcPhases

CONSTANT MaxRefs    \* heaps with more references are not collected step by step

ASSUME CellsAssumption == Cells = Nodes /\ ObjCells = Objects

\* Between two collections: nothing is suspected.
Resting == phase = "done" /\ suspects = {}

StepInit ==
    /\ Init /\ Resting
    /\ refs = {} /\ from = <<>> /\ to = <<>> /\ outside = [n \in Cells |-> 0]
    /\ todo = {} /\ work = {} /\ restore = {}
    /\ rc = [n \in Cells |-> 0] /\ color = [n \in Cells |-> "black"]
    /\ buffered = {} /\ tofree = {}

Filled(g) == {p \in Places((Arrays \cup Objects) \cap g.used) : g.slot[p[1]][p[2]] # None}
Handles(g) == {<<z, 0>> : z \in Refs \cap g.used}

\* gc_collect_cycles() finds possible roots.
Begin ==
    /\ Resting /\ m.roots # <<>>
    /\ Cardinality(Filled(m) \cup Handles(m)) <= MaxRefs
    /\ phase' = "mark"
    /\ refs' = Filled(m) \cup Handles(m)
    /\ from' = [r \in refs' |-> r[1]]
    /\ to' = [r \in refs' |-> IF r[1] \in Refs THEN Handle[r[1]] ELSE m.slot[r[1]][r[2]]]
    /\ outside' = [n \in Cells |-> Cardinality({v \in Vars : var[v] = n})]
    /\ suspects' = ToSet(m.roots) /\ buffered' = suspects' /\ todo' = suspects'
    /\ rc' = m.rc /\ color' = m.color
    /\ work' = {} /\ restore' = {} /\ tofree' = {}
    /\ UNCHANGED vars

\* The rest of gc_collect_cycles() is the business of free_garbage().
End ==
    /\ phase = "done" /\ ~Resting /\ phase' = "done"
    /\ refs' = {} /\ from' = <<>> /\ to' = <<>> /\ outside' = [n \in Cells |-> 0]
    /\ suspects' = {} /\ todo' = {} /\ work' = {} /\ restore' = {}
    /\ rc' = [n \in Cells |-> 0] /\ color' = [n \in Cells |-> "black"]
    /\ buffered' = {} /\ tofree' = {}
    /\ UNCHANGED vars

Program == Resting /\ Next /\ UNCHANGED phaseVars
Step == PhasesNext /\ UNCHANGED vars

StepNext == Program \/ Begin \/ Step \/ End
StepSpec == StepInit /\ [][StepNext]_<<vars, phaseVars>>

----------------------------------------------------------------------------
(* Properties                                                              *)

\* Whatever the program has done, also in destructors that a collection runs, and whatever
\* collections there were, the next one begins with exact counts and with all that is
\* purple in the buffer, which is all that ZendGcPhases supposes of the heap; and in whatever
\* order its steps follow the references, they come to the counts, the colours and the list
\* of gc_mark_roots(), gc_scan_roots() and gc_collect_roots() as ZendGc has them, depth first
\* and in the order of the buffer.
Agrees ==
    /\ phase = "mark" /\ todo = suspects /\ work = {} => PhasesInit
    /\ phase = "done" /\ ~Resting =>
        LET g == gc_collect_roots(gc_scan_roots(gc_mark_roots(m)))
        IN  /\ rc = g.rc /\ color = g.color /\ tofree = ToSet(g.tofree)
            /\ buffered = {} /\ g.roots = <<>>
=============================================================================
