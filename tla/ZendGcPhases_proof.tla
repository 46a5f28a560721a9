------------------------- MODULE ZendGcPhases_proof -------------------------
(* The phases of the collector are right on every heap: proofs for           *)
(* ZendGcPhases, by induction over the steps.                                *)
EXTENDS ZendGcPhases, FiniteSetTheorems, TLAPS

Colored(c) == {n \in Cells : color[n] = c}

\* The heap, which no step changes.
HeapOK ==
    /\ IsFiniteSet(refs)
    /\ from \in [refs -> Cells] /\ to \in [refs -> Cells]
    /\ \A r \in refs : to[r] \in ObjCells => from[r] \notin ObjCells
    /\ outside \in [Cells -> Nat]
    /\ suspects \subseteq Cells

\* A reference that is subtracted from the count of the node it leads to.
Taken(r) ==
    \/ phase = "mark" /\ color[from[r]] = "grey" /\ r \notin work
    \/ phase = "scan" /\ (color[from[r]] \in {"grey", "white"} \/ r \in restore)
    \/ /\ phase \in {"collect", "done"}
       /\ \/ color[from[r]] = "white"
          \/ r \in work
          \/ from[r] \in tofree /\ to[r] \in ObjCells

Standing(n) == {r \in refs : to[r] = n /\ ~Taken(r)}

\* At every step a count is what is outside, what stands, and the list.
Counted ==
    \A n \in Cells : rc[n] = outside[n] + Cardinality(Standing(n))
                               + (IF n \in tofree THEN 1 ELSE 0)

\* Whoever follows references from S comes to all of N.
LeadsTo(S, N) == \A T \in SUBSET Cells : S \subseteq T /\ Closed(T) => N \subseteq T

MarkInv ==
    phase = "mark" =>
        /\ restore = {} /\ tofree = {} /\ Colored("white") = {}
        /\ Colored("purple") \subseteq todo
        /\ suspects \subseteq Colored("purple") \cup Colored("grey")
        /\ \A r \in work : color[from[r]] = "grey"
        /\ \A r \in refs \ work : color[from[r]] = "grey" => color[to[r]] = "grey"
        /\ LeadsTo(buffered \ todo, Colored("grey"))

ScanInv ==
    phase = "scan" =>
        /\ tofree = {} /\ Colored("purple") = {} /\ LeadsTo(buffered, Suspected)
        /\ Colored("grey") \cup Colored("white") \subseteq Suspected
        /\ Suspected \cap Colored("black") \subseteq Live
        /\ \A r \in restore : from[r] \in Suspected \cap Colored("black")
        /\ \A n \in Colored("white") : rc[n] = 0
        /\ \A r \in refs : from[r] \in Suspected \ Colored("grey") /\ to[r] \in Colored("grey")
                             => r \in work \cup restore
        /\ LeadsTo(todo \cup (Suspected \ Colored("grey")), Colored("grey"))

CollectInv ==
    phase \in {"collect", "done"} =>
        /\ restore = {} /\ todo = buffered /\ Colored("grey") = {}
        /\ Garbage = Cells \ Live
        /\ Colored("purple") \subseteq ObjCells /\ tofree \subseteq Colored("black")
        /\ \A r \in work : from[r] \in Garbage \ Colored("white")
        /\ \A r \in refs : from[r] \in Garbage \ Colored("white") /\ to[r] \in Colored("white")
                             => r \in work \/ to[r] \in buffered
        /\ LeadsTo(buffered \cup (Cells \ Colored("white")), Colored("white"))
        /\ phase = "done" => work = {} /\ Colored("white") = {}

PhaseInv == HeapOK /\ PhaseTypes /\ Counted /\ MarkInv /\ ScanInv /\ CollectInv

----------------------------------------------------------------------------
(* Reachability.                                                           *)

\* ReachFrom(S) is the least closed set that contains S.
LEMMA ReachLeast ==
    ASSUME HeapOK, NEW S \in SUBSET Cells
    PROVE  /\ ReachFrom(S) \subseteq Cells /\ S \subseteq ReachFrom(S) /\ Closed(ReachFrom(S))
           /\ \A T \in SUBSET Cells : S \subseteq T /\ Closed(T) => ReachFrom(S) \subseteq T
<1>1. ReachFrom(S) \subseteq Cells /\ S \subseteq ReachFrom(S)
  BY DEF ReachFrom
<1>2. Closed(ReachFrom(S))
  <2> SUFFICES ASSUME NEW r \in refs, from[r] \in ReachFrom(S),
                      NEW T \in SUBSET Cells, S \subseteq T, Closed(T)
               PROVE  to[r] \in T
    BY DEF Closed, ReachFrom, HeapOK
  <2>1. from[r] \in T
    BY DEF ReachFrom
  <2> QED  BY <2>1 DEF Closed
<1> QED  BY <1>1, <1>2 DEF ReachFrom

\* A step that leaves the heap alone leaves alone what is reachable.
LEMMA HeapStays ==
    ASSUME UNCHANGED heap
    PROVE  /\ Suspected' = Suspected /\ Live' = Live
           /\ \A T : Closed(T)' <=> Closed(T)
           /\ HeapOK' <=> HeapOK
<1>1. \A T : Closed(T)' <=> Closed(T)
  BY DEF Closed, heap
<1>2. \A S : ReachFrom(S)' = ReachFrom(S)
  BY <1>1 DEF ReachFrom
<1>3. /\ suspects' = suspects /\ outside' = outside
  BY DEF heap
<1>4. Suspected' = Suspected
  BY <1>2, <1>3 DEF Suspected
<1>5. Live' = Live
  BY <1>2, <1>3, <1>4 DEF Live
<1> QED  BY <1>1, <1>4, <1>5 DEF HeapOK, heap

\* What is suspected, and what is live.
LEMMA Reachability ==
    ASSUME HeapOK
    PROVE  /\ Suspected \subseteq Cells /\ suspects \subseteq Suspected /\ Closed(Suspected)
           /\ \A T \in SUBSET Cells : suspects \subseteq T /\ Closed(T) => Suspected \subseteq T
           /\ Live \subseteq Cells /\ Closed(Live)
           /\ Cells \ Suspected \subseteq Live
           /\ \A n \in Cells : outside[n] > 0 => n \in Live
           /\ \A T \in SUBSET Cells :
                  /\ \A n \in Cells : outside[n] > 0 => n \in T
                  /\ Cells \ Suspected \subseteq T
                  /\ Closed(T)
                  => Live \subseteq T
<1> DEFINE H == {n \in Cells : outside[n] > 0} \cup (Cells \ Suspected)
<1>1. suspects \in SUBSET Cells /\ H \in SUBSET Cells
  BY DEF HeapOK
<1>2. Live = ReachFrom(H)
  BY DEF Live
<1>3. /\ Suspected \subseteq Cells /\ suspects \subseteq Suspected /\ Closed(Suspected)
      /\ \A T \in SUBSET Cells : suspects \subseteq T /\ Closed(T) => Suspected \subseteq T
  BY ReachLeast, <1>1 DEF Suspected
<1>4. /\ Live \subseteq Cells /\ H \subseteq Live /\ Closed(Live)
      /\ \A T \in SUBSET Cells : H \subseteq T /\ Closed(T) => Live \subseteq T
  <2> HIDE DEF H
  <2> QED  BY ReachLeast, <1>1, <1>2
<1> QED  BY <1>3, <1>4

\* A live node is held from outside, or by a live one.
LEMMA LiveHeld ==
    ASSUME HeapOK, NEW n \in Live
    PROVE  \/ n \notin Suspected
           \/ outside[n] > 0
           \/ \E r \in refs : to[r] = n /\ from[r] \in Live
<1> SUFFICES ASSUME n \in Suspected, ~(outside[n] > 0),
                    \A r \in refs : to[r] = n => from[r] \notin Live
             PROVE  FALSE
  OBVIOUS
<1>1. Closed(Live \ {n})
  BY Reachability DEF Closed
<1>2. Live \subseteq Live \ {n}
  BY <1>1, Reachability
<1> QED  BY <1>2

----------------------------------------------------------------------------
(* Counting.                                                               *)

LEMMA StandingFinite ==
    ASSUME HeapOK, NEW n
    PROVE  /\ IsFiniteSet(Standing(n)) /\ Cardinality(Standing(n)) \in Nat
           /\ UNCHANGED heap => Cardinality(Standing(n)') \in Nat
<1>1. Standing(n) \subseteq refs /\ (UNCHANGED heap => Standing(n)' \subseteq refs)
  BY DEF Standing, heap
<1> QED  BY <1>1, FS_Subset, FS_CardinalityType DEF HeapOK

\* A step that takes and gives back no reference leaves the counts as they are.
LEMMA NoneTaken ==
    ASSUME UNCHANGED heap, \A r \in refs : Taken(r)' <=> Taken(r)
    PROVE  \A n : Standing(n)' = Standing(n)
BY DEF Standing, heap

\* One that takes a reference lowers the count of the node it leads to.
LEMMA OneTaken ==
    ASSUME HeapOK, UNCHANGED heap, NEW r \in refs, ~Taken(r), Taken(r)',
           \A s \in refs \ {r} : Taken(s)' <=> Taken(s)
    PROVE  /\ \A n : n # to[r] => Standing(n)' = Standing(n)
           /\ \A n : n = to[r] => Cardinality(Standing(n)') = Cardinality(Standing(n)) - 1
<1>1. \A n : n # to[r] => Standing(n)' = Standing(n)
  BY DEF Standing, heap
<1>2. ASSUME NEW n, n = to[r]
      PROVE  Cardinality(Standing(n)') = Cardinality(Standing(n)) - 1
  <2>1. Standing(n)' = Standing(n) \ {r} /\ r \in Standing(n)
    BY <1>2 DEF Standing, heap
  <2> QED  BY <2>1, StandingFinite, FS_RemoveElement
<1> QED  BY <1>1, <1>2

\* One that gives a reference back raises it.
LEMMA OneGiven ==
    ASSUME HeapOK, UNCHANGED heap, NEW r \in refs, Taken(r), ~Taken(r)',
           \A s \in refs \ {r} : Taken(s)' <=> Taken(s)
    PROVE  /\ \A n : n # to[r] => Standing(n)' = Standing(n)
           /\ \A n : n = to[r] => Cardinality(Standing(n)') = Cardinality(Standing(n)) + 1
<1>1. \A n : n # to[r] => Standing(n)' = Standing(n)
  BY DEF Standing, heap
<1>2. ASSUME NEW n, n = to[r]
      PROVE  Cardinality(Standing(n)') = Cardinality(Standing(n)) + 1
  <2>1. Standing(n)' = Standing(n) \cup {r} /\ r \notin Standing(n)
    BY <1>2 DEF Standing, heap
  <2> QED  BY <2>1, StandingFinite, FS_AddElement
<1> QED  BY <1>1, <1>2

----------------------------------------------------------------------------
(* Marking.                                                                *)

LEMMA MarkRootStep ==
    ASSUME PhaseInv, NEW n \in todo, MarkRoot(n)
    PROVE  PhaseInv'
<1>0. /\ HeapOK /\ PhaseTypes /\ Counted /\ UNCHANGED heap
      /\ phase = "mark" /\ phase' = "mark" /\ n \in Cells
  BY DEF PhaseInv, MarkRoot, AtRoot, PhaseTypes, HeapOK
<1>1. HeapOK'
  BY <1>0, HeapStays
<1>2. PhaseTypes'
  BY <1>0 DEF PhaseTypes, HeapOK, MarkRoot, AtRoot, heap, RefsFrom
<1>3. Counted'
  <2>1. \A r \in refs : Taken(r)' <=> Taken(r)
    BY <1>0 DEF Taken, MarkRoot, AtRoot, heap, RefsFrom, HeapOK, PhaseTypes
  <2> QED  BY <1>0, <2>1, NoneTaken DEF Counted, MarkRoot, heap
<1>4. MarkInv'
  <2>1. MarkInv
    BY DEF PhaseInv
  <2>2. /\ Colored("grey")' = Colored("grey") \cup {n} /\ Colored("purple")' = Colored("purple") \ {n}
        /\ Colored("white")' = Colored("white")
    BY <1>0 DEF Colored, MarkRoot, PhaseTypes
  <2>3. \A r \in work' : color'[from'[r]] = "grey"
    BY <1>0 DEF MarkRoot, RefsFrom, HeapOK, PhaseTypes, heap
  <2>4. \A r \in refs' \ work' : color'[from'[r]] = "grey" => color'[to'[r]] = "grey"
    BY <1>0, <2>1 DEF MarkInv, MarkRoot, AtRoot, RefsFrom, HeapOK, PhaseTypes, heap
  <2>5. LeadsTo(buffered \ todo, Colored("grey"))'
    <3> SUFFICES ASSUME NEW T \in SUBSET Cells, buffered' \ todo' \subseteq T, Closed(T)'
                 PROVE  Colored("grey")' \subseteq T
      BY DEF LeadsTo
    <3>1. Closed(T) /\ buffered \ todo \subseteq T /\ n \in T
      BY <1>0, HeapStays DEF MarkRoot, AtRoot, PhaseTypes
    <3> QED  BY <3>1, <2>1, <2>2, <1>0 DEF MarkInv, LeadsTo
  <2> QED
    BY <1>0, <2>1, <2>2, <2>3, <2>4, <2>5 DEF MarkInv, MarkRoot, AtRoot, heap
<1> QED  BY <1>0, <1>1, <1>2, <1>3, <1>4 DEF PhaseInv, ScanInv, CollectInv

LEMMA DropRootStep ==
    ASSUME PhaseInv, NEW n \in todo, DropRoot(n)
    PROVE  PhaseInv'
<1>0. /\ HeapOK /\ PhaseTypes /\ Counted /\ MarkInv /\ UNCHANGED heap
      /\ phase = "mark" /\ phase' = "mark" /\ n \in Cells
  BY DEF PhaseInv, DropRoot, AtRoot, PhaseTypes, HeapOK
<1>1. HeapOK'
  BY <1>0, HeapStays
<1>2. PhaseTypes'
  BY <1>0 DEF PhaseTypes, DropRoot, AtRoot, heap
<1>3. Counted'
  <2>1. \A r \in refs : Taken(r)' <=> Taken(r)
    BY <1>0 DEF Taken, DropRoot, AtRoot, heap
  <2> QED  BY <1>0, <2>1, NoneTaken DEF Counted, DropRoot, heap
<1>4. MarkInv'
  <2>1. buffered' \ todo' = buffered \ todo
    BY DEF DropRoot, AtRoot
  <2>2. Colored("grey")' = Colored("grey") /\ \A T : Closed(T)' <=> Closed(T)
    BY <1>0, HeapStays DEF Colored, DropRoot
  <2>3. LeadsTo(buffered \ todo, Colored("grey"))'
    BY <1>0, <2>1, <2>2 DEF MarkInv, LeadsTo
  <2>4. Colored("purple")' \subseteq todo'
    BY <1>0 DEF MarkInv, DropRoot, AtRoot, Colored
  <2> QED  BY <1>0, <2>3, <2>4 DEF MarkInv, DropRoot, AtRoot, heap, Colored
<1> QED  BY <1>0, <1>1, <1>2, <1>3, <1>4 DEF PhaseInv, ScanInv, CollectInv

LEMMA MarkGreyStep ==
    ASSUME PhaseInv, NEW r \in work, mark_grey(r)
    PROVE  PhaseInv'
<1>0. /\ HeapOK /\ PhaseTypes /\ Counted /\ MarkInv /\ UNCHANGED heap
      /\ phase = "mark" /\ phase' = "mark" /\ r \in refs
      /\ to[r] \in Cells /\ from[r] \in Cells /\ color[from[r]] = "grey"
  BY DEF PhaseInv, mark_grey, AtRef, PhaseTypes, HeapOK, MarkInv
<1>n. PICK n \in Cells : n = to[r]
  BY <1>0
<1>1. HeapOK'
  BY <1>0, HeapStays
<1>a. /\ color' = [color EXCEPT ![n] = "grey"]
      /\ work' \subseteq refs /\ r \notin work' /\ work \ {r} \subseteq work'
      /\ \A s \in refs \ {r} : s \in work' <=> s \in work \/ (color[n] # "grey" /\ from[s] = n)
  <2>1. CASE color[n] = "grey"
    BY <1>0, <1>n, <2>1 DEF mark_grey, PhaseTypes
  <2>2. CASE color[n] # "grey"
    BY <1>0, <1>n, <2>2 DEF mark_grey, PhaseTypes, RefsFrom
  <2> QED  BY <2>1, <2>2
<1>3. /\ \A m \in Cells : m # n => Standing(m)' = Standing(m)
      /\ Cardinality(Standing(n)') = Cardinality(Standing(n)) - 1
  <2>1. ~Taken(r) /\ Taken(r)'
    BY <1>0, <1>n, <1>a DEF Taken, PhaseTypes, heap
  <2>2. \A s \in refs \ {r} : Taken(s)' <=> Taken(s)
    BY <1>0, <1>n, <1>a DEF Taken, PhaseTypes, heap, HeapOK
  <2> QED  BY <1>0, <1>n, <2>1, <2>2, OneTaken
<1>4. /\ rc' = [rc EXCEPT ![n] = @ - 1] /\ tofree' = tofree /\ outside' = outside
  BY <1>0, <1>n DEF mark_grey, heap
<1>5. Counted'
  BY <1>0, <1>3, <1>4, StandingFinite DEF Counted, PhaseTypes, HeapOK
<1>2. PhaseTypes'
  <2>1. rc' \in [Cells -> Nat]
    <3>1. \A m \in Cells : Cardinality(Standing(m)') \in Nat
      BY <1>0, StandingFinite
    <3> QED  BY <1>0, <1>1, <1>4, <1>5, <3>1 DEF Counted, PhaseTypes, HeapOK
  <2> QED  BY <1>0, <1>a, <2>1 DEF PhaseTypes, mark_grey, AtRef, heap
<1>6. MarkInv'
  <2>2. /\ Colored("grey")' = Colored("grey") \cup {n}
        /\ Colored("purple")' = Colored("purple") \ {n}
        /\ Colored("white")' = Colored("white")
    BY <1>0, <1>n, <1>a DEF Colored, PhaseTypes, MarkInv
  <2>3. \A s \in work' : color'[from'[s]] = "grey"
    BY <1>0, <1>n, <1>a DEF MarkInv, HeapOK, PhaseTypes, heap
  <2>4. \A s \in refs' \ work' : color'[from'[s]] = "grey" => color'[to'[s]] = "grey"
    BY <1>0, <1>n, <1>a DEF MarkInv, HeapOK, PhaseTypes, heap
  <2>5. LeadsTo(buffered \ todo, Colored("grey"))'
    <3> SUFFICES ASSUME NEW T \in SUBSET Cells, buffered' \ todo' \subseteq T, Closed(T)'
                 PROVE  Colored("grey")' \subseteq T
      BY DEF LeadsTo
    <3>1. Closed(T) /\ buffered \ todo \subseteq T
      BY <1>0, HeapStays DEF mark_grey, AtRef
    <3>2. Colored("grey") \subseteq T
      BY <3>1, <1>0 DEF MarkInv, LeadsTo
    <3>3. from[r] \in T
      BY <3>2, <1>0 DEF Colored
    <3> QED  BY <3>1, <3>2, <3>3, <2>2, <1>0, <1>n DEF Closed
  <2> QED
    BY <1>0, <2>2, <2>3, <2>4, <2>5 DEF MarkInv, mark_grey, AtRef, heap
<1> QED  BY <1>0, <1>1, <1>2, <1>5, <1>6 DEF PhaseInv, ScanInv, CollectInv


\* When all is marked, what is grey is what the roots left in the buffer lead to.
LEMMA MarkDoneStep ==
    ASSUME PhaseInv, MarkDone
    PROVE  PhaseInv'
<1>0. /\ HeapOK /\ PhaseTypes /\ Counted /\ MarkInv /\ UNCHANGED heap
      /\ phase = "mark" /\ phase' = "scan" /\ todo = {} /\ work = {} /\ restore = {}
      /\ UNCHANGED <<work, restore, rc, color, buffered, tofree>> /\ todo' = buffered
  BY DEF PhaseInv, MarkDone, NextLoop
<1>1. HeapOK'
  BY <1>0, HeapStays
<1>2. PhaseTypes'
  BY <1>0 DEF PhaseTypes, heap
<1>3. Counted'
  <2>1. \A r \in refs : Taken(r)' <=> Taken(r)
    BY <1>0 DEF Taken, heap, MarkInv, Colored, HeapOK
  <2> QED  BY <1>0, <2>1, NoneTaken DEF Counted, heap
<1>4. Colored("grey") = Suspected
  <2>1. Colored("grey") \subseteq Suspected
    BY <1>0, Reachability DEF MarkInv, LeadsTo, PhaseTypes
  <2>2. suspects \subseteq Colored("grey") /\ Colored("grey") \in SUBSET Cells
    BY <1>0 DEF MarkInv, Colored
  <2>3. Closed(Colored("grey"))
    BY <1>0 DEF MarkInv, Colored, Closed, HeapOK
  <2> QED  BY <1>0, <2>1, <2>2, <2>3, Reachability
<1>5. ScanInv'
  <2>1. Suspected' = Suspected /\ Live' = Live /\ \A T : Closed(T)' <=> Closed(T)
    BY <1>0, HeapStays
  <2>2. \A c : Colored(c)' = Colored(c)
    BY <1>0 DEF Colored
  <2>3. \A T \in SUBSET Cells : buffered \subseteq T /\ Closed(T) => Suspected \subseteq T
    BY <1>0, <1>4 DEF MarkInv, LeadsTo
  <2>4. /\ Colored("white") = {} /\ Colored("purple") = {} /\ tofree = {}
        /\ Colored("black") \cap Colored("grey") = {}
    BY <1>0 DEF MarkInv, Colored
  <2>5. LeadsTo(buffered, Suspected)'
    BY <1>0, <2>1, <2>3 DEF LeadsTo
  <2>6. LeadsTo(todo \cup (Suspected \ Colored("grey")), Colored("grey"))'
    BY <1>0, <1>4, <2>1, <2>2, <2>3 DEF LeadsTo
  <2> QED  BY <1>0, <1>4, <2>1, <2>2, <2>4, <2>5, <2>6 DEF ScanInv
<1> QED  BY <1>0, <1>1, <1>2, <1>3, <1>5 DEF PhaseInv, MarkInv, CollectInv

----------------------------------------------------------------------------
(* Scanning.                                                               *)

\* While nothing is being given back, what has a count is live.
LEMMA CountedIsLive ==
    ASSUME PhaseInv, phase = "scan", restore = {}, NEW n \in Cells, rc[n] > 0
    PROVE  n \in Live
<1>0. HeapOK /\ PhaseTypes /\ Counted /\ ScanInv
  BY DEF PhaseInv
<1>1. CASE outside[n] > 0
  BY <1>0, <1>1, Reachability
<1>2. CASE ~(outside[n] > 0)
  <2>1. Cardinality(Standing(n)) # 0
    BY <1>0, <1>2, StandingFinite DEF Counted, ScanInv, HeapOK
  <2>2. PICK r : r \in Standing(n)
    BY <1>0, <2>1, StandingFinite, FS_EmptySet
  <2>3. r \in refs /\ to[r] = n /\ from[r] \in Cells /\ color[from[r]] = "black"
    BY <1>0, <2>2 DEF Standing, Taken, ScanInv, Colored, PhaseTypes, HeapOK
  <2>4. from[r] \in Live
    BY SMTT(40), <1>0, <2>3, Reachability DEF ScanInv, Colored
  <2> QED  BY <1>0, <2>3, <2>4, Reachability DEF Closed
<1> QED  BY <1>1, <1>2

\* A visit of zval_scan() or zobj_scan(), from a root or along references.
LEMMA ScanVisit ==
    ASSUME PhaseInv, phase = "scan", restore = {}, NEW n \in Cells, NEW rest \in SUBSET work,
           UNCHANGED <<heap, phase, rc, buffered, tofree>>,
           todo' \subseteq todo, todo \subseteq todo' \cup {n},
           \A r \in work \ rest : to[r] = n,
           ScanGrey(n, rest) \/ ScanOther(n, rest)
    PROVE  PhaseInv'
<1>0. /\ HeapOK /\ PhaseTypes /\ Counted /\ ScanInv /\ UNCHANGED heap /\ UNCHANGED <<rc, tofree, buffered>>
      /\ phase' = "scan"
  BY DEF PhaseInv
<1>1. HeapOK'
  BY <1>0, HeapStays
<1>a. /\ color' \in [Cells -> {"black", "grey", "white", "purple"}]
      /\ \A m \in Cells \ {n} : color'[m] = color[m]
      /\ color[n] # "grey" => color'[n] = color[n]
      /\ color[n] = "grey" => \/ color'[n] = "black" /\ rc[n] > 0
                              \/ color'[n] = "white" /\ rc[n] = 0
      /\ color'[n] # "grey"
  BY <1>0 DEF ScanGrey, ScanOther, PhaseTypes
<1>b. /\ work' \subseteq refs /\ restore' \subseteq refs /\ rest \subseteq work'
      /\ \A r \in restore' : from[r] = n /\ color[n] = "grey" /\ color'[n] = "black"
      /\ color[n] = "grey" => RefsFrom(n) \subseteq work' \cup restore'
      /\ color[n] = "grey" /\ color'[n] = "black" => restore' = RefsFrom(n)
  BY <1>0 DEF ScanGrey, ScanOther, PhaseTypes, RefsFrom
<1>2. PhaseTypes'
  BY SMTT(40), <1>0, <1>a, <1>b DEF PhaseTypes, heap
<1>3. Counted'
  <2>1. \A r \in refs : Taken(r)' <=> Taken(r)
    BY SMTT(40), <1>0, <1>a, <1>b DEF Taken, heap, HeapOK, RefsFrom
  <2> QED  BY SMTT(40), <1>0, <2>1, NoneTaken DEF Counted, heap
<1>4. ScanInv'
  <2>1. Suspected' = Suspected /\ Live' = Live /\ \A T : Closed(T)' <=> Closed(T)
    BY SMTT(40), <1>0, HeapStays
  <2>2. /\ Colored("purple")' = {} /\ Colored("grey")' = Colored("grey") \ {n}
        /\ Colored("white")' \subseteq Colored("white") \cup {n}
        /\ Colored("black")' \subseteq Colored("black") \cup {n}
        /\ n \in Colored("white")' \ Colored("white") => rc[n] = 0 /\ n \in Colored("grey")
        /\ n \in Colored("black")' \ Colored("black") => n \in Live
    BY <1>0, <1>a, CountedIsLive DEF ScanInv, Colored
  <2>3. LeadsTo(buffered, Suspected)'
    BY SMTT(40), <1>0, <2>1 DEF ScanInv, LeadsTo
  <2>4. (Colored("grey") \cup Colored("white"))' \subseteq Suspected
    BY <1>0, <2>2 DEF ScanInv
  <2>5. Suspected \cap Colored("black")' \subseteq Live
    BY SMTT(40), <1>0, <2>2 DEF ScanInv
  <2>6. \A r \in restore' : from[r] \in Suspected \cap Colored("black")'
    BY SMTT(40), <1>0, <1>a, <1>b DEF ScanInv, Colored
  <2>7. \A m \in Colored("white")' : rc[m] = 0
    BY <1>0, <2>2 DEF ScanInv
  <2>8. ASSUME NEW r \in refs, from[r] \in Suspected \ Colored("grey")', to[r] \in Colored("grey")'
        PROVE  r \in work' \cup restore'
    <3>1. to[r] # n /\ to[r] \in Colored("grey")
      BY <2>2, <2>8
    <3>2. CASE from[r] \in Colored("grey")
      BY <1>b, <2>2, <2>8, <3>2 DEF RefsFrom, Colored
    <3>3. CASE from[r] \notin Colored("grey")
      BY SMTT(40), <1>0, <1>b, <2>8, <3>1, <3>3 DEF ScanInv
    <3> QED  BY <3>2, <3>3
  <2>9. LeadsTo(todo \cup (Suspected \ Colored("grey")), Colored("grey"))'
    <3> SUFFICES ASSUME NEW T \in SUBSET Cells, Closed(T),
                        todo' \cup (Suspected \ Colored("grey")') \subseteq T
                 PROVE  Colored("grey")' \subseteq T
      BY <2>1 DEF LeadsTo
    <3>1. todo \subseteq Suspected
      BY <1>0, Reachability DEF PhaseTypes
    <3>2. todo \cup (Suspected \ Colored("grey")) \subseteq T
      BY <3>1, <2>2
    <3> QED  BY <1>0, <2>2, <3>2 DEF ScanInv, LeadsTo
  <2> QED
    BY <1>0, <2>1, <2>2, <2>3, <2>4, <2>5, <2>6, <2>7, <2>8, <2>9 DEF ScanInv, heap
<1> QED  BY <1>0, <1>1, <1>2, <1>3, <1>4 DEF PhaseInv, MarkInv, CollectInv

LEMMA ScanRootStep ==
    ASSUME PhaseInv, NEW n \in todo, ScanRoot(n)
    PROVE  PhaseInv'
<1>1. n \in Cells
  BY DEF PhaseInv, PhaseTypes, HeapOK
<1> QED  BY <1>1, ScanVisit DEF ScanRoot, AtRoot

LEMMA ScanRefStep ==
    ASSUME PhaseInv, NEW r \in work, scan(r)
    PROVE  PhaseInv'
<1>1. PICK n \in Cells : n = to[r]
  BY DEF PhaseInv, PhaseTypes, HeapOK
<1>2. PICK rest \in SUBSET work : rest = work \ {r}
  BY ZenonT(60)
<1> QED  BY <1>1, <1>2, ScanVisit DEF scan, AtRef

LEMMA ScanBlackStep ==
    ASSUME PhaseInv, NEW r \in restore, scan_black(r)
    PROVE  PhaseInv'
<1>0. /\ HeapOK /\ PhaseTypes /\ Counted /\ ScanInv /\ UNCHANGED heap /\ UNCHANGED <<todo, work, buffered, tofree>>
      /\ phase = "scan" /\ phase' = "scan" /\ r \in refs /\ to[r] \in Cells
      /\ from[r] \in Cells /\ from[r] \in Suspected /\ color[from[r]] = "black"
  BY DEF PhaseInv, scan_black, PhaseTypes, HeapOK, ScanInv, Colored
<1>n. PICK n \in Cells : n = to[r]
  BY <1>0
<1>1. HeapOK'
  BY Zenon, <1>0, HeapStays
<1>a. /\ color' = [color EXCEPT ![n] = "black"]
      /\ restore' \subseteq refs /\ r \notin restore'
      /\ \A s \in refs \ {r} : s \in restore' <=> s \in restore \/ (color[n] # "black" /\ from[s] = n)
  <2>1. CASE color[n] = "black"
    BY SMTT(40), <1>0, <1>n, <2>1 DEF scan_black, PhaseTypes
  <2>2. CASE color[n] # "black"
    BY SMTT(40), <1>0, <1>n, <2>2 DEF scan_black, PhaseTypes, RefsFrom
  <2> QED  BY <2>1, <2>2
<1>3. /\ \A m \in Cells : m # n => Standing(m)' = Standing(m)
      /\ Cardinality(Standing(n)') = Cardinality(Standing(n)) + 1
  <2>1. Taken(r) /\ ~Taken(r)'
    BY <1>0, <1>n, <1>a DEF Taken, PhaseTypes, heap
  <2>2. \A s \in refs \ {r} : Taken(s)' <=> Taken(s)
    BY SMTT(40), <1>0, <1>n, <1>a DEF Taken, PhaseTypes, heap, HeapOK, ScanInv, Colored
  <2> QED  BY <1>0, <1>n, <2>1, <2>2, OneGiven
<1>4. /\ rc' = [rc EXCEPT ![n] = @ + 1] /\ tofree' = tofree /\ outside' = outside
  BY <1>0, <1>n DEF scan_black, heap
<1>5. Counted'
  BY SMTT(40), <1>0, <1>3, <1>4, StandingFinite DEF Counted, PhaseTypes, HeapOK
<1>2. PhaseTypes'
  BY SMTT(40), <1>0, <1>a, <1>4 DEF PhaseTypes, heap
<1>6. ScanInv'
  <2>1. Suspected' = Suspected /\ Live' = Live /\ \A T : Closed(T)' <=> Closed(T)
    BY SMTT(40), <1>0, HeapStays
  <2>2. /\ Colored("purple")' = {} /\ Colored("grey")' = Colored("grey") \ {n}
        /\ Colored("white")' = Colored("white") \ {n}
        /\ Colored("black")' = Colored("black") \cup {n}
    BY <1>0, <1>a DEF ScanInv, Colored, PhaseTypes
  <2>3. n \in Live /\ n \in Suspected
    BY SMTT(40), <1>0, <1>n, Reachability DEF ScanInv, Colored, Closed
  <2>4. LeadsTo(buffered, Suspected)'
    BY <1>0, <2>1 DEF ScanInv, LeadsTo
  <2>5. \A s \in restore' : from[s] \in Suspected \cap Colored("black")'
    BY SMTT(40), <1>0, <1>a, <2>2, <2>3 DEF ScanInv
  <2>6. \A m \in Colored("white")' : rc'[m] = 0
    BY <1>0, <1>4, <2>2 DEF ScanInv, PhaseTypes, Colored
  <2>7. ASSUME NEW s \in refs, from[s] \in Suspected \ Colored("grey")', to[s] \in Colored("grey")'
        PROVE  s \in work' \cup restore'
    <3>1. s # r /\ to[s] \in Colored("grey")
      BY <1>n, <2>2, <2>7
    <3>2. CASE from[s] \in Colored("grey")
      BY <1>a, <2>2, <2>7, <3>1, <3>2 DEF Colored
    <3>3. CASE from[s] \notin Colored("grey")
      BY <1>0, <1>a, <2>7, <3>1, <3>3 DEF ScanInv
    <3> QED  BY <3>2, <3>3
  <2>8. LeadsTo(todo \cup (Suspected \ Colored("grey")), Colored("grey"))'
    BY SMTT(40), <1>0, <2>1, <2>2 DEF ScanInv, LeadsTo
  <2>9. /\ tofree' = {} /\ refs' = refs /\ from' = from /\ to' = to
        /\ Colored("grey")' \cup Colored("white")' \subseteq Suspected
        /\ Suspected \cap Colored("black")' \subseteq Live
    BY <1>0, <2>2, <2>3 DEF ScanInv, heap
  <2> QED
    BY Zenon, <2>1, <2>2, <2>4, <2>5, <2>6, <2>7, <2>8, <2>9 DEF ScanInv
<1> QED  BY <1>0, <1>1, <1>2, <1>5, <1>6 DEF PhaseInv, MarkInv, CollectInv

\* When all is scanned, what is white is what is not live.
LEMMA ScanDoneStep ==
    ASSUME PhaseInv, ScanDone
    PROVE  PhaseInv'
<1>0. /\ HeapOK /\ PhaseTypes /\ Counted /\ ScanInv /\ UNCHANGED heap
      /\ phase = "scan" /\ phase' = "collect" /\ todo = {} /\ work = {} /\ restore = {}
      /\ UNCHANGED <<work, restore, rc, color, buffered, tofree>> /\ todo' = buffered
  BY DEF PhaseInv, ScanDone, NextLoop
<1>1. HeapOK'
  BY <1>0, HeapStays
<1>2. PhaseTypes'
  BY <1>0 DEF PhaseTypes, heap
<1>3. Colored("grey") = {}
  <2>1. Suspected \ Colored("grey") \in SUBSET Cells
    BY <1>0, Reachability
  <2>2. Closed(Suspected \ Colored("grey"))
    BY <1>0, Reachability DEF Closed, ScanInv
  <2>3. Colored("grey") \subseteq Suspected \ Colored("grey")
    BY SMTT(40), <1>0, <2>1, <2>2 DEF ScanInv, LeadsTo
  <2> QED  BY <2>3
<1>4. Counted'
  <2>1. \A r \in refs : Taken(r)' <=> Taken(r)
    BY <1>0, <1>3 DEF Taken, heap, ScanInv, Colored, HeapOK
  <2> QED  BY SMTT(40), <1>0, <2>1, NoneTaken DEF Counted, heap
<1>5. Colored("white") = Cells \ Live
  <2> DEFINE T == Cells \ Colored("white")
  <2>1. \A n \in Colored("white") : outside[n] = 0 /\ Cardinality(Standing(n)) = 0
    BY <1>0, StandingFinite DEF ScanInv, Counted, Colored, HeapOK
  <2>2. \A n \in Colored("white") : Standing(n) = {}
    BY <1>0, <2>1, StandingFinite, FS_EmptySet
  <2>3. \A r \in refs : from[r] \notin Colored("white") => ~Taken(r)
    BY <1>0, <1>3 DEF Taken, Colored, HeapOK
  <2>4. Closed(T)
    BY SMTT(40), <1>0, <2>2, <2>3 DEF Closed, Standing, HeapOK
  <2>5. /\ T \in SUBSET Cells /\ Cells \ Suspected \subseteq T
        /\ \A n \in Cells : outside[n] > 0 => n \in T
    BY SMTT(40), <1>0, <2>1 DEF ScanInv
  <2>6. Live \subseteq T
    <3> HIDE DEF T
    <3> QED  BY <1>0, <2>4, <2>5, Reachability
  <2>7. T \subseteq Colored("black")
    BY <1>0, <1>3 DEF Colored, ScanInv, PhaseTypes
  <2>8. T \subseteq Live
    BY SMTT(40), <1>0, <2>7, Reachability DEF ScanInv
  <2> QED  BY SMTT(40), <2>6, <2>8 DEF Colored
<1>6. CollectInv'
  <2>1. Live' = Live /\ \A T : Closed(T)' <=> Closed(T)
    BY <1>0, HeapStays
  <2>2. \A c : Colored(c)' = Colored(c)
    BY <1>0 DEF Colored
  <2>3. Garbage' = Colored("white")
    BY <1>0 DEF Garbage, Colored, ScanInv
  <2>4. LeadsTo(buffered \cup (Cells \ Colored("white")), Colored("white"))'
    BY <1>0, <2>1, <2>2 DEF ScanInv, LeadsTo
  <2> QED  BY <1>0, <1>3, <1>5, <2>1, <2>2, <2>3, <2>4 DEF CollectInv, ScanInv
<1> QED  BY <1>0, <1>1, <1>2, <1>4, <1>6 DEF PhaseInv, MarkInv, ScanInv

----------------------------------------------------------------------------
(* Collecting.                                                             *)

\* A visit of collect_white(), apart from the counts.
LEMMA CollectVisit ==
    ASSUME PhaseInv, phase = "collect", NEW n \in Cells, NEW k \in Nat, NEW rest \in SUBSET work,
           UNCHANGED <<heap, phase, restore>>, todo' = buffered',
           buffered' \subseteq buffered, buffered \subseteq buffered' \cup {n},
           \A r \in work \ rest : to[r] = n,
           CollectWhite(n, k, rest) \/ CollectOther(n, k, rest)
    PROVE  HeapOK' /\ PhaseTypes' /\ CollectInv'
<1>0. HeapOK /\ PhaseTypes /\ CollectInv /\ UNCHANGED heap /\ restore' = restore /\ phase' = "collect"
  BY DEF PhaseInv
<1>1. HeapOK'
  BY <1>0, HeapStays
<1> DEFINE White == color[n] = "white" /\ n \notin buffered'
<1>a. /\ color' \in [Cells -> {"black", "grey", "white", "purple"}]
      /\ \A m \in Cells \ {n} : color'[m] = color[m]
      /\ ~White => color'[n] = color[n] /\ tofree' = tofree /\ work' = rest
      /\ White => work' = rest \cup RefsFrom(n)
      /\ White /\ n \in ObjCells => color'[n] = "purple" /\ tofree' = tofree
      /\ White /\ n \notin ObjCells => color'[n] = "black" /\ tofree' = tofree \cup {n}
      /\ rc' \in [Cells -> Nat]
  BY SMTT(40), <1>0 DEF CollectWhite, CollectOther, PhaseTypes
<1>2. PhaseTypes'
  BY SMTT(40), <1>0, <1>a DEF PhaseTypes, heap, RefsFrom
<1>3. CollectInv'
  <2>1. Live' = Live /\ \A T : Closed(T)' <=> Closed(T)
    BY SMTT(40), <1>0, HeapStays
  <2>2. /\ Colored("grey")' = {} /\ Colored("purple")' \subseteq ObjCells
        /\ tofree' \subseteq Colored("black")'
        /\ Colored("white")' = IF White THEN Colored("white") \ {n} ELSE Colored("white")
    BY <1>0, <1>a DEF Colored, CollectInv, PhaseTypes
  <2>3. Garbage' = Garbage
    BY SMTT(40), <1>0, <1>a DEF Garbage, PhaseTypes
  <2>4. White => n \in Garbage \ Colored("white")'
    BY SMTT(40), <1>0, <2>2 DEF Garbage, Colored
  <2>5. \A r \in work' : from[r] \in Garbage \ Colored("white")'
    BY SMTT(40), <1>0, <1>a, <2>2, <2>4 DEF CollectInv, RefsFrom
  <2>6. ASSUME NEW r \in refs, from[r] \in Garbage \ Colored("white")', to[r] \in Colored("white")'
        PROVE  r \in work' \/ to[r] \in buffered'
    <3>1. CASE from[r] \in Colored("white")
      BY SMTT(40), <1>a, <2>2, <2>6, <3>1 DEF RefsFrom
    <3>2. CASE from[r] \notin Colored("white") /\ to[r] = n
      BY SMTT(40), <2>2, <2>6, <3>2 DEF Colored
    <3>3. CASE from[r] \notin Colored("white") /\ to[r] # n
      BY SMTT(40), <1>0, <1>a, <2>2, <2>6, <3>3 DEF CollectInv
    <3> QED  BY SMTT(40), <3>1, <3>2, <3>3
  <2>7. LeadsTo(buffered \cup (Cells \ Colored("white")), Colored("white"))'
    <3>1. buffered \cup (Cells \ Colored("white")) \subseteq buffered' \cup (Cells \ Colored("white")')
      BY <1>0, <2>2 DEF Colored
    <3>2. Colored("white")' \subseteq Colored("white")
      BY SMTT(40), <2>2
    <3> QED  BY SMTT(40), <1>0, <2>1, <3>1, <3>2 DEF CollectInv, LeadsTo
  <2> QED  BY <1>0, <2>1, <2>2, <2>3, <2>5, <2>6, <2>7 DEF CollectInv, heap
<1> QED  BY <1>1, <1>2, <1>3

LEMMA CollectRootStep ==
    ASSUME PhaseInv, NEW n \in todo, CollectRoot(n)
    PROVE  PhaseInv'
<1>0. /\ HeapOK /\ PhaseTypes /\ Counted /\ CollectInv /\ UNCHANGED heap
      /\ phase = "collect" /\ phase' = "collect" /\ n \in Cells /\ work = {} /\ todo = buffered
  BY SMTT(40) DEF PhaseInv, CollectRoot, AtRoot, PhaseTypes, HeapOK, CollectInv
<1>1. HeapOK' /\ PhaseTypes' /\ CollectInv'
  <2>1. PICK k \in Nat : k = rc[n]
    BY <1>0 DEF PhaseTypes
  <2>2. PICK rest \in SUBSET work : rest = work
    OBVIOUS
  <2> QED  BY <1>0, <2>1, <2>2, CollectVisit DEF CollectRoot, AtRoot
<1>2. Counted'
  <2>1. CASE color[n] = "white"
    <3>1. /\ color' = [color EXCEPT ![n] = IF n \in ObjCells THEN "purple" ELSE "black"]
          /\ work' = RefsFrom(n)
          /\ tofree' = IF n \in ObjCells THEN tofree ELSE tofree \cup {n}
          /\ rc' = [rc EXCEPT ![n] = IF n \in ObjCells THEN @ ELSE @ + 1]
      BY <1>0, <2>1 DEF CollectRoot, CollectWhite, CollectOther, PhaseTypes
    <3>2. \A r \in refs : Taken(r)' <=> Taken(r)
      BY <1>0, <2>1, <3>1 DEF Taken, heap, RefsFrom, HeapOK, PhaseTypes
    <3>3. \A m : Standing(m)' = Standing(m)
      BY SMTT(40), <1>0, <3>2, NoneTaken
    <3>4. n \notin tofree /\ outside' = outside
      BY SMTT(40), <1>0, <2>1 DEF CollectInv, Colored, heap
    <3> QED  BY <1>0, <3>1, <3>3, <3>4, StandingFinite DEF Counted, PhaseTypes, HeapOK
  <2>2. CASE color[n] # "white"
    <3>1. color' = color /\ work' = work /\ tofree' = tofree /\ rc' = rc
      BY SMTT(40), <1>0, <2>2 DEF CollectRoot, CollectWhite, CollectOther, PhaseTypes
    <3>2. \A r \in refs : Taken(r)' <=> Taken(r)
      BY SMTT(40), <1>0, <3>1 DEF Taken, heap
    <3> QED  BY Zenon, <1>0, <3>1, <3>2, NoneTaken DEF Counted, heap
  <2> QED  BY <2>1, <2>2
<1> QED  BY SMTT(40), <1>0, <1>1, <1>2 DEF PhaseInv, MarkInv, ScanInv

LEMMA CollectWhiteStep ==
    ASSUME PhaseInv, NEW r \in work, collect_white(r)
    PROVE  PhaseInv'
<1>0. /\ HeapOK /\ PhaseTypes /\ Counted /\ CollectInv /\ UNCHANGED heap /\ buffered' = buffered
      /\ phase = "collect" /\ phase' = "collect" /\ r \in refs /\ to[r] \in Cells
      /\ from[r] \in Cells /\ from[r] \in Garbage /\ color[from[r]] # "white"
  BY DEF PhaseInv, collect_white, AtRef, PhaseTypes, HeapOK, CollectInv, Colored
<1>n. PICK n \in Cells : n = to[r]
  BY <1>0
<1>k. PICK k \in Nat : k = IF n \in ObjCells THEN rc[n] ELSE rc[n] + 1
  BY SMTT(40), <1>0 DEF PhaseTypes
<1>v. CollectWhite(n, k, work \ {r}) \/ CollectOther(n, k, work \ {r})
  BY <1>n, <1>k DEF collect_white
<1>1. HeapOK' /\ PhaseTypes' /\ CollectInv'
  <2>2. PICK rest \in SUBSET work : rest = work \ {r}
    BY Zenon
  <2>3. UNCHANGED <<heap, phase, restore>> /\ todo' = buffered'
    BY <1>0 DEF collect_white, AtRef, CollectInv
  <2>4. CollectWhite(n, k, rest) \/ CollectOther(n, k, rest)
    BY <1>v, <2>2
  <2> QED  BY <1>0, <1>n, <2>2, <2>3, <2>4, CollectVisit
<1> DEFINE White == color[n] = "white" /\ n \notin buffered
<1>a. /\ color' = IF White THEN [color EXCEPT ![n] = IF n \in ObjCells THEN "purple" ELSE "black"]
                  ELSE color
      /\ work' = IF White THEN (work \ {r}) \cup RefsFrom(n) ELSE work \ {r}
      /\ tofree' = IF White /\ n \notin ObjCells THEN tofree \cup {n} ELSE tofree
      /\ rc' = [rc EXCEPT ![n] = IF White /\ n \notin ObjCells THEN k + 1 ELSE k]
  BY <1>0, <1>v DEF CollectWhite, CollectOther, PhaseTypes
<1>b. /\ White => n \notin tofree
      /\ White => from[r] # n
      /\ n \in ObjCells => from[r] \in tofree
  <2>1. n \in ObjCells => from[r] \notin ObjCells
    BY SMTT(40), <1>0, <1>n DEF HeapOK
  <2> QED  BY <1>0, <2>1 DEF CollectInv, Colored, Garbage
<1>c. \A s \in refs \ {r} : Taken(s)' <=> Taken(s)
  BY <1>0, <1>a DEF Taken, heap, RefsFrom, HeapOK, PhaseTypes
<1>2. Counted'
  <2>1. CASE n \in ObjCells
    <3>1. Taken(r)' <=> Taken(r)
      BY SMTT(40), <1>0, <1>n, <1>a, <1>b, <2>1 DEF Taken, heap
    <3>2. \A m : Standing(m)' = Standing(m)
      BY SMTT(40), <1>0, <1>c, <3>1, NoneTaken
    <3>3. rc' = rc /\ tofree' = tofree /\ outside' = outside
      BY <1>0, <1>a, <1>k, <2>1 DEF PhaseTypes, heap
    <3> QED  BY SMTT(40), <1>0, <3>2, <3>3 DEF Counted
  <2>2. CASE n \notin ObjCells
    <3>1. Taken(r) /\ ~Taken(r)'
      BY SMTT(40), <1>0, <1>n, <1>a, <1>b, <2>2 DEF Taken, heap, PhaseTypes, RefsFrom
    <3>2. /\ \A m \in Cells : m # n => Standing(m)' = Standing(m)
          /\ Cardinality(Standing(n)') = Cardinality(Standing(n)) + 1
      BY SMTT(40), <1>0, <1>n, <1>c, <3>1, OneGiven
    <3>3. /\ rc' = [rc EXCEPT ![n] = rc[n] + 1 + (IF White THEN 1 ELSE 0)]
          /\ tofree' = IF White THEN tofree \cup {n} ELSE tofree
          /\ outside' = outside /\ Cardinality(Standing(n)) \in Nat
      <4>1. rc[n] \in Nat /\ k = rc[n] + 1
        BY <1>0, <1>k, <2>2 DEF PhaseTypes
      <4>2. (IF White /\ n \notin ObjCells THEN k + 1 ELSE k) = rc[n] + 1 + (IF White THEN 1 ELSE 0)
        BY <2>2, <4>1
      <4>3. rc' = [rc EXCEPT ![n] = rc[n] + 1 + (IF White THEN 1 ELSE 0)]
        BY <1>a, <4>2, Zenon
      <4>4. Cardinality(Standing(n)) \in Nat
        BY <1>0, StandingFinite
      <4> QED  BY Zenon, <1>0, <1>a, <2>2, <4>3, <4>4 DEF heap
    <3>4. ASSUME NEW m \in Cells
          PROVE  rc'[m] = outside'[m] + Cardinality(Standing(m)') + (IF m \in tofree' THEN 1 ELSE 0)
      <4>1. /\ rc[m] = outside[m] + Cardinality(Standing(m)) + (IF m \in tofree THEN 1 ELSE 0)
            /\ rc[m] \in Nat /\ outside[m] \in Nat
        BY SMTT(40), <1>0 DEF Counted, PhaseTypes, HeapOK
      <4>2. CASE m = n
        BY SMTT(40), <1>0, <1>b, <3>2, <3>3, <4>1, <4>2 DEF PhaseTypes
      <4>3. CASE m # n
        BY SMTT(40), <1>0, <3>2, <3>3, <4>1, <4>3 DEF PhaseTypes
      <4> QED  BY <4>2, <4>3
    <3> QED  BY SMTT(40), <3>4 DEF Counted
  <2> QED  BY SMTT(40), <2>1, <2>2
<1> QED  BY Zenon, <1>0, <1>1, <1>2 DEF PhaseInv, MarkInv, ScanInv

\* When all roots are gone, nothing is white.
LEMMA CollectDoneStep ==
    ASSUME PhaseInv, CollectDone
    PROVE  PhaseInv'
<1>0. /\ HeapOK /\ PhaseTypes /\ Counted /\ CollectInv /\ UNCHANGED heap
      /\ phase = "collect" /\ phase' = "done" /\ todo = {} /\ work = {} /\ restore = {}
      /\ UNCHANGED <<work, restore, rc, color, buffered, tofree>> /\ todo' = buffered
  BY DEF PhaseInv, CollectDone, NextLoop
<1>1. HeapOK'
  BY <1>0, HeapStays
<1>2. PhaseTypes'
  BY <1>0 DEF PhaseTypes, heap
<1>3. Counted'
  <2>1. \A r \in refs : Taken(r)' <=> Taken(r)
    BY <1>0 DEF Taken, heap
  <2> QED  BY <1>0, <2>1, NoneTaken DEF Counted, heap
<1>4. Colored("white") = {}
  <2>1. \A n \in Cells : n \in Colored("white") => n \in Garbage
    BY SMTT(40) DEF Colored, Garbage
  <2>2. Closed(Cells \ Colored("white"))
    BY <1>0, <2>1, Reachability DEF Closed, CollectInv, HeapOK
  <2>3. Cells \ Colored("white") \in SUBSET Cells
    OBVIOUS
  <2>4. Colored("white") \subseteq Cells \ Colored("white")
    BY SMTT(40), <1>0, <2>2, <2>3 DEF CollectInv, LeadsTo
  <2> QED  BY <2>4
<1>5. CollectInv'
  <2>1. Live' = Live /\ \A T : Closed(T)' <=> Closed(T)
    BY <1>0, HeapStays
  <2>2. /\ \A c : Colored(c)' = Colored(c)
        /\ Garbage' = Garbage
    BY <1>0 DEF Colored, Garbage
  <2>3. LeadsTo(buffered \cup (Cells \ Colored("white")), Colored("white"))'
    BY SMTT(40), <1>0, <1>4, <2>2 DEF LeadsTo
  <2> QED  BY <1>0, <1>4, <2>1, <2>2, <2>3 DEF CollectInv, heap
<1> QED  BY Zenon, <1>0, <1>1, <1>2, <1>3, <1>5 DEF PhaseInv, MarkInv, ScanInv

----------------------------------------------------------------------------
(* The theorems.                                                           *)

LEMMA PhaseInit == PhasesInit => PhaseInv
<1> SUFFICES ASSUME PhasesInit PROVE PhaseInv
  OBVIOUS
<1>1. HeapOK /\ phase = "mark"
  BY DEF PhasesInit, HeapOK
<1>2. \A n \in Cells : Standing(n) = RefsTo(n)
  BY <1>1 DEF PhasesInit, Standing, RefsTo, Taken, HeapOK
<1>3. Counted
  BY <1>1, <1>2, StandingFinite DEF PhasesInit, Counted, HeapOK
<1>4. rc \in [Cells -> Nat]
  BY <1>1, <1>2, StandingFinite DEF PhasesInit, HeapOK
<1>5. PhaseTypes
  BY <1>4 DEF PhasesInit, PhaseTypes
<1>6. MarkInv
  BY <1>1 DEF PhasesInit, MarkInv, Colored, LeadsTo, HeapOK
<1> QED  BY <1>1, <1>3, <1>5, <1>6 DEF PhaseInv, ScanInv, CollectInv

LEMMA PhaseStep == PhaseInv /\ [PhasesNext]_phaseVars => PhaseInv'
<1> SUFFICES ASSUME PhaseInv, [PhasesNext]_phaseVars PROVE PhaseInv'
  OBVIOUS
<1>1. CASE UNCHANGED phaseVars
  <2>1. UNCHANGED heap /\ UNCHANGED <<phase, todo, work, restore, rc, color, buffered, tofree>>
    BY <1>1 DEF phaseVars
  <2>2. Live' = Live /\ Suspected' = Suspected /\ (\A T : Closed(T)' <=> Closed(T)) /\ HeapOK'
    BY <2>1, HeapStays DEF PhaseInv
  <2>3. (\A c : Colored(c)' = Colored(c)) /\ Garbage' = Garbage
    BY <2>1 DEF Colored, Garbage
  <2>4. \A S, N : LeadsTo(S, N)' <=> LeadsTo(S, N)
    BY <2>2 DEF LeadsTo
  <2>5. Counted'
    <3>1. \A r \in refs : Taken(r)' <=> Taken(r)
      BY SMTT(40), <2>1 DEF Taken, heap
    <3> QED  BY <2>1, <3>1, NoneTaken DEF Counted, heap, PhaseInv
  <2>6. PhaseTypes' /\ MarkInv'
    BY SMTT(40), <2>1, <2>2, <2>3, <2>4 DEF PhaseInv, PhaseTypes, MarkInv, heap
  <2>7. ScanInv'
    BY SMTT(40), <2>1, <2>2, <2>3, <2>4 DEF PhaseInv, ScanInv, heap
  <2>8. CollectInv'
    BY Zenon, <2>1, <2>2, <2>3, <2>4 DEF PhaseInv, CollectInv, heap
  <2> QED  BY <2>2, <2>5, <2>6, <2>7, <2>8 DEF PhaseInv
<1>2. CASE MarkDone \/ ScanDone \/ CollectDone
  BY <1>2, MarkDoneStep, ScanDoneStep, CollectDoneStep
<1>3. CASE \E n \in todo : MarkRoot(n) \/ DropRoot(n) \/ ScanRoot(n) \/ CollectRoot(n)
  BY <1>3, MarkRootStep, DropRootStep, ScanRootStep, CollectRootStep
<1>4. CASE \E r \in work : mark_grey(r) \/ scan(r) \/ collect_white(r)
  BY <1>4, MarkGreyStep, ScanRefStep, CollectWhiteStep
<1>5. CASE \E r \in restore : scan_black(r)
  BY <1>5, ScanBlackStep
<1> QED  BY <1>1, <1>2, <1>3, <1>4, <1>5 DEF PhasesNext

LEMMA PhaseAlways == PhasesSpec => []PhaseInv
BY PhaseInit, PhaseStep, PTL DEF PhasesSpec

\* Counts never fall below 0 in any phase, and every variable keeps its type.
THEOREM PhasesTypeCorrect == PhasesSpec => []PhaseTypes
<1>1. PhaseInv => PhaseTypes
  BY DEF PhaseInv
<1> QED  BY <1>1, PhaseAlways, PTL

\* On every finite heap with exact counts and whatever possible roots, in whatever order
\* they and the references are visited, the list and the purple objects of
\* gc_collect_roots() are all that the roots reach and nothing else holds.
THEOREM PhasesCollectExactly == PhasesSpec => []CollectsExactly
<1>1. PhaseInv => CollectsExactly
  BY DEF PhaseInv, CollectInv, CollectsExactly, PhaseTypes, Colored
<1> QED  BY <1>1, PhaseAlways, PTL

\* All that gc_mark_roots() has subtracted is given back by gc_scan_roots() and
\* gc_collect_roots(), but for the references of garbage to objects.
THEOREM PhasesRestoreCounts == PhasesSpec => []CountsRestored
<1>1. ASSUME PhaseInv, phase = "done", NEW n \in Cells
      PROVE  Standing(n) = {r \in RefsTo(n) : n \in ObjCells => from[r] \notin tofree}
  BY <1>1 DEF PhaseInv, CollectInv, Standing, RefsTo, Taken, Colored, HeapOK
<1>2. ASSUME PhaseInv, phase = "done", NEW n \in Cells
      PROVE  rc[n] = outside[n] + (IF n \in tofree THEN 1 ELSE 0)
                       + Cardinality({r \in RefsTo(n) : n \in ObjCells => from[r] \notin tofree})
  <2>1. rc[n] = outside[n] + Cardinality(Standing(n)) + (IF n \in tofree THEN 1 ELSE 0)
    BY <1>2 DEF PhaseInv, Counted
  <2>2. outside[n] \in Nat /\ Cardinality(Standing(n)) \in Nat
    BY <1>2, StandingFinite DEF PhaseInv, HeapOK
  <2>3. rc[n] = outside[n] + (IF n \in tofree THEN 1 ELSE 0) + Cardinality(Standing(n))
    BY <2>1, <2>2
  <2> QED  BY <1>1, <1>2, <2>3, Zenon
<1>3. PhaseInv => CountsRestored
  BY <1>2, Zenon DEF CountsRestored
<1> QED  BY <1>3, PhaseAlways, PTL

\* An object that a zval in the list refers to has the count 0 after the phases if and
\* only if it is garbage, which gc_collect_cycles() relies on.
THEOREM PhasesZeroIsGarbage == PhasesSpec => []ZeroIsGarbage
<1>1. ASSUME PhaseInv, phase = "done", NEW r \in refs, from[r] \in tofree, to[r] \in ObjCells
      PROVE  rc[to[r]] = 0 <=> to[r] \in Garbage
  <2>0. /\ HeapOK /\ PhaseTypes /\ Counted /\ CollectInv /\ work = {} /\ Colored("white") = {}
        /\ Garbage = Cells \ Live /\ to[r] \in Cells /\ from[r] \in Cells
        /\ Colored("purple") \subseteq ObjCells
    BY <1>1 DEF PhaseInv, CollectInv, HeapOK
  <2>1. PICK o \in Cells : o = to[r]
    BY <2>0
  <2>2. /\ o \notin tofree /\ rc[o] = outside[o] + Cardinality(Standing(o))
        /\ outside[o] \in Nat /\ Cardinality(Standing(o)) \in Nat
    BY <1>1, <2>0, <2>1, StandingFinite DEF PhaseTypes, Counted, HeapOK
  <2>3. o \in Suspected
    <3>1. from[r] \in Suspected
      BY SMTT(40), <1>1, <2>0, Reachability DEF Garbage
    <3> QED  BY <2>0, <2>1, <3>1, Reachability DEF Closed
  <2>4. CASE o \in Garbage
    <3>1. \A s \in refs : to[s] = o => from[s] \in tofree
      <4> SUFFICES ASSUME NEW s \in refs, to[s] = o PROVE from[s] \in tofree
        OBVIOUS
      <4>1. from[s] \in Cells /\ from[s] \notin Live /\ from[s] \notin ObjCells
        BY <1>1, <2>0, <2>1, <2>4, Reachability DEF Closed, HeapOK
      <4> QED  BY <2>0, <4>1 DEF Garbage, Colored
    <3>2. Standing(o) = {}
      BY <1>1, <2>1, <3>1 DEF Standing, Taken
    <3>3. ~(outside[o] > 0)
      BY <2>0, <2>4, Reachability
    <3> QED  BY <2>1, <2>2, <2>4, <3>2, <3>3, FS_EmptySet
  <2>5. CASE o \notin Garbage
    <3>1. o \in Live
      BY <2>0, <2>5
    <3>2. CASE outside[o] > 0
      BY <2>1, <2>2, <2>5, <3>2
    <3>3. CASE \E s \in refs : to[s] = o /\ from[s] \in Live
      <4>1. PICK s \in refs : to[s] = o /\ from[s] \in Live
        BY <3>3
      <4>2. from[s] \notin tofree /\ color[from[s]] # "white"
        BY <2>0, <4>1, Reachability DEF Garbage, Colored
      <4>3. s \in Standing(o)
        BY <1>1, <2>0, <4>1, <4>2 DEF Standing, Taken
      <4>4. Cardinality(Standing(o)) # 0
        BY <2>0, <4>3, StandingFinite, FS_EmptySet
      <4> QED  BY <2>1, <2>2, <2>5, <4>4
    <3> QED  BY <2>0, <2>3, <3>1, <3>2, <3>3, LiveHeld
  <2> QED  BY <2>1, <2>4, <2>5
<1>2. PhaseInv => ZeroIsGarbage
  BY <1>1 DEF ZeroIsGarbage
<1> QED  BY <1>2, PhaseAlways, PTL

=============================================================================
