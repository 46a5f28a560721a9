--------------------------- MODULE FpmMaster_proof ---------------------------
(***************************************************************************)
(* The counters of the master are exact, so that CoreInv is inductive with *)
(* them, and the properties of FpmMaster that follow.                      *)
(***************************************************************************)
EXTENDS FpmMaster_inv, FiniteSetTheorems

\* The counters of the master are those of its list of children.
Counted ==
  /\ IsFiniteSet(children)
  /\ running_children = Cardinality(children)
  /\ \A p \in Pools : running[p] = Cardinality(ChildrenOf(p))

\* The inductive invariant.
MasterInv == CoreInv /\ Counted

\* A non-empty set of numbers has a least one.
LEMMA LeastNumber ==
  ASSUME NEW T, T \subseteq Nat, T # {}
  PROVE  \E x \in T : \A y \in T : x <= y
<1> DEFINE R == {ss \in Nat \X Nat : ss[1] < ss[2]}
<1>1. IsWellFoundedOn(R, Nat)  BY NatLessThanWellFounded DEF OpToRel
<1>2. PICK x \in T : \A y \in T : ~ (<<y, x>> \in R)
  <2> HIDE DEF R
  <2> QED  BY Zenon, <1>1, WFMin
<1>3. ASSUME NEW y \in T PROVE x <= y
  <2>1. x \in Nat /\ y \in Nat /\ <<y, x>> \in Nat \X Nat  OBVIOUS
  <2>2. ~ (<<y, x>>[1] < <<y, x>>[2])  BY <1>2, <2>1
  <2> QED  BY <2>1, <2>2
<1> QED  BY <1>3

\* fpm_scoreboard_proc_alloc() returns a free slot when there is one.
LEMMA AllocFree ==
  ASSUME NEW p \in Pools, FreeSlots(p) # {}
  PROVE  fpm_scoreboard_proc_alloc(p) \in FreeSlots(p)
<1>1. FreeSlots(p) \subseteq Nat  BY PoolFacts DEF FreeSlots
<1>2. \E i \in FreeSlots(p) : \A j \in FreeSlots(p) : i <= j
  BY <1>1, LeastNumber
<1> QED  BY <1>2 DEF fpm_scoreboard_proc_alloc

\* Placed is SlotsExact.
LEMMA PlacedExact ==
  ASSUME TypeOK
  PROVE  Placed <=> SlotsExact
<1>1. ASSUME Placed PROVE SlotsExact
  BY <1>1 DEF Placed, SlotsExact, ChildrenOf, Slot, TypeOK
<1>2. ASSUME SlotsExact PROVE Placed
  <2>1. ASSUME NEW c \in children
        PROVE  scoreboard_i[c] \in Index(child_wp[c]) /\ Slot(c) # "free"
    <3>1. child_wp[c] \in Pools /\ c \in ChildrenOf(child_wp[c])
      BY <2>1 DEF TypeOK, ChildrenOf
    <3> QED  BY <3>1, <1>2 DEF SlotsExact, Slot
  <2>2. ASSUME NEW p \in Pools, NEW i \in Index(p), procs[p][i] # "free"
        PROVE  \E c \in children : child_wp[c] = p /\ scoreboard_i[c] = i
    BY <1>2, <2>2 DEF SlotsExact, ChildrenOf
  <2>3. ASSUME NEW c \in children, NEW d \in children, child_wp[c] = child_wp[d],
               scoreboard_i[c] = scoreboard_i[d]
        PROVE  c = d
    <3>1. child_wp[c] \in Pools /\ c \in ChildrenOf(child_wp[c])
          /\ d \in ChildrenOf(child_wp[c])
      BY <2>3 DEF TypeOK, ChildrenOf
    <3> QED  BY <3>1, <2>3, <1>2 DEF SlotsExact
  <2> QED  BY <2>1, <2>2, <2>3 DEF Placed
<1> QED  BY <1>1, <1>2

\* A pool with fewer workers than pm.max_children has a free slot: else the slots
\* would be mapped one to one into the workers.
LEMMA FreeSlotLeft ==
  ASSUME TypeOK, Counted, Placed, NEW p \in Pools,
         running[p] < pm_max_children[p]
  PROVE  FreeSlots(p) # {}
<1> SUFFICES ASSUME FreeSlots(p) = {} PROVE FALSE  OBVIOUS
<1>1. \A i \in Index(p) : \E c \in ChildrenOf(p) : scoreboard_i[c] = i
  BY DEF FreeSlots, Placed, ChildrenOf
<1> DEFINE f == [i \in Index(p) |-> CHOOSE c \in ChildrenOf(p) : scoreboard_i[c] = i]
<1>2. f \in Injection(Index(p), ChildrenOf(p))
  BY <1>1 DEF Injection, IsInjective
<1>3. IsFiniteSet(ChildrenOf(p))
  BY FS_Subset DEF Counted, ChildrenOf
<1>4. Cardinality(Index(p)) <= Cardinality(ChildrenOf(p))
  <2> HIDE DEF f
  <2> QED  BY <1>2, <1>3, FS_Injection
<1>5. Cardinality(Index(p)) = pm_max_children[p]
  BY PoolFacts, FS_Interval DEF Index
<1> QED  BY SMTT(40), <1>4, <1>5, PoolFacts DEF Counted, TypeOK

\* Linking or unlinking one worker moves the counters by one.
LEMMA CountAdd ==
  ASSUME TypeOK, Counted, NEW c \in Pids \ children, NEW q \in Pools,
         children' = children \cup {c},
         child_wp' = [child_wp EXCEPT ![c] = q],
         running' = [running EXCEPT ![q] = @ + 1],
         running_children' = running_children + 1
  PROVE  Counted'
<1>1. IsFiniteSet(children') /\ running_children' = Cardinality(children')
  BY FS_AddElement DEF Counted
<1>2. ASSUME NEW p \in Pools PROVE running'[p] = Cardinality(ChildrenOf(p)')
  <2>1. IsFiniteSet(ChildrenOf(p)) /\ c \notin ChildrenOf(p)
    BY FS_Subset DEF Counted, ChildrenOf
  <2>2. CASE p = q
    <3>1. ChildrenOf(p)' = ChildrenOf(p) \cup {c}
      BY SMTT(40), <2>2 DEF ChildrenOf, TypeOK
    <3>2. Cardinality(ChildrenOf(p)') = Cardinality(ChildrenOf(p)) + 1
      BY Zenon, <3>1, <2>1, FS_AddElement
    <3> QED  BY <3>2, <2>2 DEF Counted, TypeOK
  <2>3. CASE p # q
    <3>1. \A d \in children : child_wp'[d] = child_wp[d]
      BY DEF TypeOK
    <3>2. child_wp'[c] # p
      BY <2>3 DEF TypeOK
    <3>3. ChildrenOf(p)' = ChildrenOf(p)
      BY <3>1, <3>2 DEF ChildrenOf
    <3> QED  BY <3>3, <2>3 DEF Counted, TypeOK
  <2> QED  BY <2>2, <2>3
<1> QED  BY <1>1, <1>2 DEF Counted

\* The same for a worker that leaves the list.
LEMMA CountRemove ==
  ASSUME TypeOK, Counted, NEW c \in children,
         children' = children \ {c},
         child_wp' = [child_wp EXCEPT ![c] = AnyPool],
         running' = [running EXCEPT ![child_wp[c]] = @ - 1],
         running_children' = running_children - 1
  PROVE  /\ Counted' /\ running[child_wp[c]] > 0 /\ running_children > 0
<1> DEFINE q == child_wp[c]
<1>0. q \in Pools /\ c \in Pids  BY DEF TypeOK
<1>1. /\ IsFiniteSet(children') /\ running_children' = Cardinality(children')
      /\ running_children > 0
  BY FS_RemoveElement, FS_EmptySet, FS_CardinalityType DEF Counted
<1>2. ASSUME NEW p \in Pools
      PROVE  /\ running'[p] = Cardinality(ChildrenOf(p)')
             /\ p = q => running[p] > 0
  <2>1. IsFiniteSet(ChildrenOf(p))
    BY FS_Subset DEF Counted, ChildrenOf
  <2>2. CASE p = q
    <3>1. ChildrenOf(p)' = ChildrenOf(p) \ {c} /\ c \in ChildrenOf(p)
      BY SMTT(40), <2>2 DEF ChildrenOf, TypeOK
    <3>2. Cardinality(ChildrenOf(p)') = Cardinality(ChildrenOf(p)) - 1
      BY Zenon, <3>1, <2>1, FS_RemoveElement
    <3>3. Cardinality(ChildrenOf(p)) \in Nat /\ Cardinality(ChildrenOf(p)) # 0
      BY SMTT(40), <3>1, <2>1, FS_EmptySet, FS_CardinalityType
    <3> QED  BY SMTT(40), <3>2, <3>3, <2>2 DEF Counted, TypeOK
  <2>3. CASE p # q
    <3>1. ChildrenOf(p)' = ChildrenOf(p)
      BY Zenon, <2>3 DEF ChildrenOf, TypeOK
    <3> QED  BY <3>1, <2>3 DEF Counted, TypeOK
  <2> QED  BY <2>2, <2>3
<1> QED  BY <1>0, <1>1, <1>2 DEF Counted

\* Exact counters tell fpm_children_bury(), fpm_pctl() and fpm_children_make() what
\* they take from them.
LEMMA CountersTell ==
  ASSUME CoreInv, Counted
  PROVE  CountsTell
<1>0. TypeOK /\ Placed /\ Walked  BY DEF CoreInv
<1>1. running_children = 0 => children = {}
  BY Zenon, FS_EmptySet DEF Counted
<1>2. ASSUME NEW c \in children
      PROVE  /\ running[child_wp[c]] > 0 /\ running_children > 0
             /\ running_children = 1 => children = {c}
  <2>1. child_wp[c] \in Pools  BY <1>0 DEF TypeOK
  <2>2. PICK p \in Pools : p = child_wp[c]  BY <2>1
  <2>3. IsFiniteSet(ChildrenOf(p)) /\ ChildrenOf(p) # {}
    BY <2>2, FS_Subset DEF Counted, ChildrenOf
  <2>4. Cardinality(ChildrenOf(p)) \in Nat /\ Cardinality(ChildrenOf(p)) # 0
    BY <2>3, FS_EmptySet, FS_CardinalityType
  <2>5. running[child_wp[c]] > 0
    BY <2>2, <2>4 DEF Counted
  <2>6. Cardinality(children) \in Nat /\ Cardinality(children) # 0
    BY FS_EmptySet, FS_CardinalityType DEF Counted
  <2>7. running_children = 1 => children = {c}
    <3>1. SUFFICES ASSUME Cardinality(children) = 1 PROVE children = {c}
      BY DEF Counted
    <3>2. PICK d : children = {d}
      BY <3>1, FS_Singleton DEF Counted
    <3> QED  BY <3>2
  <2> QED  BY <2>5, <2>6, <2>7 DEF Counted
<1>3. ASSUME NEW p \in Pools, running[p] < pm_max_children[p]
      PROVE  FreeSlots(p) # {} /\ fpm_scoreboard_proc_alloc(p) \in FreeSlots(p)
  BY <1>0, <1>3, FreeSlotLeft, AllocFree
<1>4. mpc = "scan" => Cardinality(seen) \in Nat
  <2>1. mpc = "scan" => seen \subseteq children
    BY <1>0 DEF Walked, ChildrenOf
  <2>2. mpc = "scan" => IsFiniteSet(seen)
    BY <2>1, FS_Subset DEF Counted
  <2> QED  BY <2>2, FS_CardinalityType
<1> QED  BY <1>1, <1>2, <1>3, <1>4 DEF CountsTell

\* fpm_child_link(), fpm_child_unlink() and the end of the master are all that changes
\* the list and its counters.
LEMMA ListMoves ==
  ASSUME [Next]_vars
  PROVE  \/ UNCHANGED <<child, count>>
         \/ \E st : fpm_pctl_action_last(st)
         \/ \E c \in Pids : fpm_children_bury(c)
         \/ \E c \in Pids : Fork(c)
<1>1. CASE PctlTimeout \/ fpm_got_signal \/ StartFails
  BY <1>1 DEF PctlTimeout, fpm_got_signal, StartFails
<1>2. ASSUME NEW c \in Pids, BuryLast(c)
      PROVE  \E st : fpm_pctl_action_last(st)
  BY <1>2 DEF BuryLast
<1>3. CASE \/ SignalsReady \/ SignalsDone \/ GotSigchld \/ BuryDone
           \/ MakeDone \/ RefillFails \/ StartDone \/ MaintenanceHeartbeat
           \/ MaintenanceDone \/ SpawnSpare \/ NothingToDo \/ MaintenanceSpins
           \/ AcceptFork
           \/ \E p \in Pools : \/ StartOndemand(p) \/ fpm_children_create_initial(p)
                               \/ NextPool(p) \/ SocketReady(p)
           \/ \E c \in Pids : \/ ReadStage(c) \/ IdleKill(c) \/ RequestTimeout(c)
                              \/ AcceptReadStage(c)
  BY Zenon, <1>3
     DEF SignalsReady, SignalsDone, GotSigchld, BuryDone, MakeDone, RefillFails,
         StartDone, MaintenanceHeartbeat, MaintenanceDone, SpawnSpare,
         NothingToDo, MaintenanceSpins, AcceptFork, StartOndemand,
         fpm_children_create_initial,
         NextPool, SocketReady, ReadStage, IdleKill, RequestTimeout,
         AcceptReadStage
<1>4. CASE \/ \E c \in Pids : Worker(c)
           \/ \E s \in Signals : SendSignal(s)
           \/ \E p \in Pools : Connect(p)
           \/ Idle \/ UNCHANGED vars
  <2>1. UNCHANGED master \/ UNCHANGED vars
    BY <1>4 DEF Worker, fpm_child_init, Accepting, fpm_scoreboard_update, Accept,
                fpm_request_reading_headers, fpm_request_finished, Exit, Crash,
                Deliver, Moves, SendSignal, Connect, Idle
  <2> QED  BY SMTT(40), <2>1 DEF master, vars, child, count
<1> QED
  BY SMTT(40), <1>1, <1>2, <1>3, <1>4 DEF Next, Master

\* They keep the counters exact.
LEMMA CountedNext ==
  ASSUME CoreInv, Counted, [Next]_vars
  PROVE  Counted'
<1>0. TypeOK /\ NoOrphans  BY DEF CoreInv
<1>1. CASE UNCHANGED <<child, count>>
  BY <1>1 DEF Counted, ChildrenOf, child, count
<1>2. ASSUME NEW st, fpm_pctl_action_last(st) PROVE Counted'
  <2>1. /\ children' = {} /\ running_children' = 0
        /\ running' = [p \in Pools |-> 0]
    BY <1>2 DEF fpm_pctl_action_last
  <2>2. \A p \in Pools : ChildrenOf(p)' = {}
    BY <2>1 DEF ChildrenOf
  <2> QED  BY <2>1, <2>2, FS_EmptySet DEF Counted
<1>3. ASSUME NEW c \in Pids, fpm_children_bury(c) PROVE Counted'
  <2>1. cpc[c] = "zombie" /\ fpm_child_unlink(c)
    BY SMTT(40), <1>3 DEF fpm_children_bury
  <2>2. c \in children
    BY <1>0, <2>1 DEF NoOrphans
  <2> QED  BY Zenon, <1>0, <2>1, <2>2, CountRemove DEF fpm_child_unlink
<1>4. ASSUME NEW c \in Pids, Fork(c) PROVE Counted'
  <2>1. cpc[c] = "free" /\ fpm_child_link(c, fpm_scoreboard_proc_alloc(wp))
    BY SMTT(40), <1>4 DEF Fork
  <2>2. c \in Pids \ children /\ wp \in Pools
    BY <1>0, <2>1 DEF NoOrphans, TypeOK
  <2>3. PICK q \in Pools : q = wp
    BY <2>2
  <2> QED  BY Zenon, <1>0, <2>1, <2>2, <2>3, CountAdd DEF fpm_child_link
<1> QED  BY SMTT(40), <1>1, <1>2, <1>3, <1>4, ListMoves

\* MasterInv is an invariant of the process manager.
THEOREM MasterInvariant == Spec => []MasterInv
<1>1. Init => MasterInv
  <2> SUFFICES ASSUME Init PROVE MasterInv  OBVIOUS
  <2>1. children = {} /\ running_children = 0 /\ running = [p \in Pools |-> 0]
    BY DEF Init
  <2>2. \A p \in Pools : ChildrenOf(p) = {}
    BY <2>1 DEF ChildrenOf
  <2>3. Counted
    BY <2>1, <2>2, FS_EmptySet DEF Counted
  <2> QED  BY <2>3, CoreInit DEF MasterInv
<1>2. MasterInv /\ [Next]_vars => MasterInv'
  BY CountersTell, CoreNext, CountedNext DEF MasterInv
<1> QED  BY <1>1, <1>2, PTL DEF Spec

(***************************************************************************)
(* The properties.                                                         *)
(***************************************************************************)
\* Every variable of the process manager keeps its type.
THEOREM MasterTypes == Spec => []TypeOK
<1>1. MasterInv => TypeOK  BY DEF MasterInv, CoreInv
<1> QED  BY <1>1, MasterInvariant, PTL

\* The master knows exactly the processes that it has forked and not yet reaped, also
\* across reloads: fpm_children_bury() never meets an unknown child.
THEOREM MasterNoOrphans == Spec => []NoOrphans
<1>1. MasterInv => NoOrphans  BY DEF MasterInv, CoreInv
<1> QED  BY <1>1, MasterInvariant, PTL

\* The slots of the scoreboard that are in use are those of the children, one each,
\* over fpm_scoreboard_proc_alloc() and fpm_scoreboard_proc_free().
THEOREM MasterSlotsExact == Spec => []SlotsExact
<1>1. MasterInv => SlotsExact  BY SMTT(40), PlacedExact DEF MasterInv, CoreInv
<1> QED  BY <1>1, MasterInvariant, PTL

\* pm.max_children and process.max are never exceeded.
THEOREM MasterWithinLimits == Spec => []WithinLimits
<1>1. MasterInv => WithinLimits  BY DEF MasterInv, CoreInv, WithinLimits, Counted, Bounded
<1> QED  BY <1>1, MasterInvariant, PTL

\* fpm_children_make() has a free slot for every worker it forks.
THEOREM MasterSlotForEveryFork == Spec => []SlotForEveryFork
<1>1. MasterInv => SlotForEveryFork
  <2> SUFFICES ASSUME MasterInv, mpc = "make", CanFork PROVE FreeSlots(wp) # {}
    BY DEF SlotForEveryFork
  <2>0. TypeOK /\ Bounded /\ Counted /\ Placed  BY SMTT(40) DEF MasterInv, CoreInv
  <2>1. wp \in Pools /\ running[wp] \in Nat /\ max \in Nat
    BY SMTT(40), <2>0 DEF TypeOK
  <2>2. running[wp] < max /\ max <= pm_max_children[wp] /\ pm_max_children[wp] \in Nat
    BY <2>0, <2>1, PoolFacts DEF Bounded, CanFork
  <2>3. running[wp] < pm_max_children[wp]
    BY SMTT(40), <2>1, <2>2
  <2> QED  BY <2>0, <2>1, <2>3, FreeSlotLeft
<1> QED  BY <1>1, MasterInvariant, PTL

\* A worker that the idle maintenance has marked has heard its SIGQUIT or will.
THEOREM MasterIdleKillHeard == Spec => []IdleKillHeard
<1>1. MasterInv => IdleKillHeard  BY DEF MasterInv, CoreInv
<1> QED  BY <1>1, MasterInvariant, PTL

\* While there is a zombie the master has a reason to call fpm_children_bury().
THEOREM MasterZombieNoticed == Spec => []ZombieNoticed
<1>1. MasterInv => ZombieNoticed  BY DEF MasterInv, CoreInv
<1> QED  BY <1>1, MasterInvariant, PTL

\* What the states of fpm_pctl() rank.
LEMMA Ranks ==
  /\ Rank("NORMAL") = 0 /\ Rank("RELOADING") = 1
  /\ Rank("FINISHING") = 2 /\ Rank("TERMINATING") = 3
  /\ \A st \in States : Rank(st) \in 0 .. 3
BY DEF Rank, States

\* Where a step may take the state of fpm_pctl(), and when it may add a worker.
StopStep ==
  (mpc' # "start" \/ mpc = "start") =>
    /\ Rank(fpm_state') >= Rank(fpm_state)
    /\ fpm_state # "NORMAL" => children' \subseteq children

\* fpm_pctl() and fpm_pctl_action_last() only go to a stronger state.
LEMMA PctlStops ==
  ASSUME fpm_state \in States, NEW new \in {"TERMINATING", "FINISHING", "RELOADING"}
  PROVE  /\ fpm_pctl(new) => Rank(fpm_state') >= Rank(fpm_state)
         /\ Overrides(new) => Rank(new) >= Rank(fpm_state)
<1>1. Overrides(new) => Rank(new) >= Rank(fpm_state)
  BY Ranks DEF Overrides, States
<1>2. fpm_pctl(new) => Rank(fpm_state') >= Rank(fpm_state)
  BY <1>1, Ranks DEF fpm_pctl, pctl
<1> QED  BY <1>1, <1>2

\* A stop is final: until the master is replaced by exec, fpm_state only moves to a
\* stronger state, and no worker is forked once it has left NORMAL.
THEOREM MasterStopIsFinal == Spec => StopIsFinal
<1>1. TypeOK /\ [Next]_vars => StopStep
  <2> SUFFICES ASSUME TypeOK, [Next]_vars, mpc' # "start" \/ mpc = "start"
               PROVE  /\ Rank(fpm_state') >= Rank(fpm_state)
                      /\ fpm_state # "NORMAL" => children' \subseteq children
    BY SMTT(40) DEF StopStep
  <2>0. fpm_state \in States /\ pipe \in Seq({"CHLD", "TERM", "QUIT", "USR2"})
    BY DEF TypeOK
  <2>r. Rank(fpm_state) \in 0 .. 3
    BY <2>0, Ranks
  <2>a. ASSUME UNCHANGED <<fpm_state, children>> PROVE
               /\ Rank(fpm_state') >= Rank(fpm_state)
               /\ fpm_state # "NORMAL" => children' \subseteq children
    BY <2>a, <2>r
  <2>b. ASSUME NEW st \in States, fpm_pctl_action_last(st), mpc # "start",
               Rank(st) >= Rank(fpm_state)
        PROVE  /\ Rank(fpm_state') >= Rank(fpm_state)
               /\ children' = {}
    BY <2>b DEF fpm_pctl_action_last
  <2>1. CASE PctlTimeout
    <3>1. CASE running_children = 0
      BY SMTT(40), <3>1, <2>1, <2>0, <2>r, <2>b DEF PctlTimeout
    <3>2. CASE running_children # 0
      BY SMTT(40), <3>2, <2>1, <2>a DEF PctlTimeout, child
    <3> QED  BY <3>1, <3>2
  <2>2. CASE fpm_got_signal
    <3> DEFINE new == StateFor(Head(pipe))
    <3>1. /\ new \in {"TERMINATING", "FINISHING", "RELOADING"} /\ new \in States
          /\ mpc = "signals"
      <4>1. Head(pipe) \in {"TERM", "QUIT", "USR2"} /\ mpc = "signals"
        BY <2>2, <2>0 DEF fpm_got_signal
      <4> QED  BY <4>1, PctlFacts
    <3> HIDE DEF new
    <3>2. CASE Overrides(new) /\ running_children = 0
      <4>1. fpm_pctl_action_last(new)
        BY <3>2, <2>2 DEF fpm_got_signal, new
      <4>2. Rank(new) >= Rank(fpm_state)
        BY SMTT(40), <2>0, <3>1, <3>2, PctlStops
      <4> QED  BY SMTT(40), <4>1, <4>2, <3>1, <2>b
    <3>3. CASE ~(Overrides(new) /\ running_children = 0)
      <4>1. fpm_pctl(new) /\ children' = children
        BY SMTT(40), <3>3, <2>2 DEF fpm_got_signal, new, child
      <4> QED  BY SMTT(40), <4>1, <2>0, <3>1, PctlStops
    <3> QED  BY <3>2, <3>3
  <2>3. CASE StartFails
    <3>1. /\ "TERMINATING" \in {"TERMINATING", "FINISHING", "RELOADING"}
          /\ "TERMINATING" \in States /\ Rank("TERMINATING") >= Rank(fpm_state)
          /\ mpc = "make"
      BY <2>3, <2>r, Ranks DEF States, StartFails, MakeFails
    <3>2. CASE running_children = 0
      <4>1. fpm_pctl_action_last("TERMINATING")
        BY <2>3, <3>2 DEF StartFails
      <4> QED  BY <4>1, <3>1, <2>b
    <3>3. CASE running_children # 0
      <4>1. fpm_pctl("TERMINATING") /\ children' = children
        BY <2>3, <3>3 DEF StartFails, child
      <4> QED  BY SMTT(40), <4>1, <2>0, <3>1, PctlStops
    <3> QED  BY <3>2, <3>3
  <2>4. ASSUME NEW c \in Pids, BuryLast(c)
        PROVE  /\ Rank(fpm_state') >= Rank(fpm_state)
               /\ fpm_state # "NORMAL" => children' \subseteq children
    <3>1. PICK st \in States : fpm_pctl_action_last(st) /\ Rank(st) >= Rank(fpm_state)
      BY SMTT(40), <2>4, <2>0, <2>r, Ranks DEF BuryLast, States
    <3>2. mpc # "start"
      BY <2>4 DEF BuryLast
    <3> QED  BY SMTT(40), <3>1, <3>2, <2>b
  <2>5. ASSUME NEW c \in Pids, fpm_children_bury(c)
        PROVE  /\ Rank(fpm_state') >= Rank(fpm_state)
               /\ fpm_state # "NORMAL" => children' \subseteq children
    <3>1. children' \subseteq children /\ (UNCHANGED fpm_state \/ fpm_pctl("RELOADING"))
      BY <2>5 DEF fpm_children_bury, fpm_child_unlink, pctl
    <3> QED  BY SMTT(40), <3>1, <2>0, <2>r, PctlStops
  <2>6. ASSUME NEW c \in Pids, Fork(c)
        PROVE  /\ Rank(fpm_state') >= Rank(fpm_state)
               /\ fpm_state # "NORMAL" => children' \subseteq children
    BY <2>6, <2>r DEF Fork, CanFork, pctl
  <2>7. CASE \/ SignalsReady \/ SignalsDone \/ GotSigchld \/ BuryDone
             \/ MakeDone \/ RefillFails \/ StartDone \/ MaintenanceHeartbeat
             \/ MaintenanceDone \/ SpawnSpare \/ NothingToDo \/ MaintenanceSpins
             \/ AcceptFork
             \/ \E p \in Pools : \/ StartOndemand(p) \/ fpm_children_create_initial(p)
                                 \/ NextPool(p) \/ SocketReady(p)
             \/ \E c \in Pids : \/ ReadStage(c) \/ IdleKill(c) \/ RequestTimeout(c)
                                \/ AcceptReadStage(c)
    BY Zenon, <2>7, <2>a
       DEF SignalsReady, SignalsDone, GotSigchld, BuryDone, MakeDone, RefillFails,
           StartDone, MaintenanceHeartbeat, MaintenanceDone, SpawnSpare,
           NothingToDo, MaintenanceSpins, AcceptFork, StartOndemand,
           fpm_children_create_initial,
           NextPool, SocketReady, ReadStage, IdleKill, RequestTimeout,
           AcceptReadStage, pctl, child
  <2>8. CASE \/ \E c \in Pids : Worker(c)
             \/ \E s \in Signals : SendSignal(s)
             \/ \E p \in Pools : Connect(p)
             \/ Idle \/ UNCHANGED vars
    <3>1. UNCHANGED master \/ UNCHANGED vars
      BY Zenon, <2>8 DEF Worker, fpm_child_init, Accepting, fpm_scoreboard_update, Accept,
                  fpm_request_reading_headers, fpm_request_finished, Exit, Crash,
                  Deliver, Moves, SendSignal, Connect, Idle
    <3> QED  BY <3>1, <2>a DEF master, vars, pctl, child
  <2> QED
    BY SMTT(40), <2>1, <2>2, <2>3, <2>4, <2>5, <2>6, <2>7, <2>8 DEF Next, Master
<1> QED  BY <1>1, MasterTypes, PTL DEF StopIsFinal, Spec, StopStep

(***************************************************************************)
(* The master implements Supervisor.                                       *)
(***************************************************************************)
\* The workers of all teams are the children.
LEMMA TeamMembers ==
  ASSUME TypeOK
  PROVE  Manager!Members = children
<1>1. \A c \in children : child_wp[c] \in Pools
  BY DEF TypeOK
<1> QED  BY SMTT(40), <1>1 DEF Manager!Members, Team, ChildrenOf

\* The abstract manager counts as the concrete one does.
LEMMA SameCount == \A S : Manager!Cardinality(S) = Cardinality(S)
BY Zenon DEF Manager!Cardinality, Cardinality

\* What the orders of the abstract manager weigh.
LEMMA Strengths ==
  /\ Manager!Strength("NORMAL") = 0 /\ Manager!Strength("RELOADING") = 1
  /\ Manager!Strength("FINISHING") = 2 /\ Manager!Strength("TERMINATING") = 3
BY Zenon DEF Manager!Strength

\* What is not touched remains as it is.
LEMMA SupervisorFrames ==
  /\ UNCHANGED <<children, child_wp>> => Team' = Team
  /\ UNCHANGED cpc => Alive' = Alive
  /\ UNCHANGED fpm_state /\ (mpc = "gone" <=> mpc' = "gone") => Mode' = Mode
  /\ mpc # "gone" => Mode = fpm_state
  /\ mpc' # "gone" => Mode' = fpm_state'
<1>1. ASSUME UNCHANGED <<children, child_wp>> PROVE Team' = Team
  <2>1. \A p \in Pools : ChildrenOf(p)' = ChildrenOf(p)
    BY <1>1 DEF ChildrenOf
  <2> QED  BY Zenon, <2>1 DEF Team
<1>2. UNCHANGED cpc => Alive' = Alive
  BY DEF Alive
<1>3. /\ UNCHANGED fpm_state /\ (mpc = "gone" <=> mpc' = "gone") => Mode' = Mode
      /\ mpc # "gone" => Mode = fpm_state
      /\ mpc' # "gone" => Mode' = fpm_state'
  BY DEF Mode
<1> QED  BY <1>1, <1>2, <1>3

\* fpm_pctl_action_last(), called when the counter says that nobody is left or that the
\* child at hand is the last, is the end of a manager without workers.
LEMMA LastFinishes ==
  ASSUME MasterInv, NEW st, fpm_pctl_action_last(st), mpc # "gone",
         st = "RELOADING" => fpm_state \in {"NORMAL", "RELOADING"},
         running_children <= 1, Alive = {}, Alive' = {}
  PROVE  Manager!Finish
<1>0. TypeOK /\ Counted  BY SMTT(40) DEF MasterInv, CoreInv
<1>1. Mode = fpm_state /\ fpm_state # "GONE"
  BY <1>0, SupervisorFrames DEF TypeOK, States
<1>2. Manager!Cardinality(Manager!Members) <= 1
  BY SMTT(40), <1>0, TeamMembers, SameCount DEF Counted
<1>3. \/ Mode' = "GONE"
      \/ fpm_state \in {"NORMAL", "RELOADING"} /\ Mode' = "NORMAL"
  BY DEF fpm_pctl_action_last, Mode
<1>4. Team' = Manager!Nobody
  <2>1. children' = {}
    BY DEF fpm_pctl_action_last
  <2>2. \A p \in Pools : ChildrenOf(p)' = {}
    BY <2>1 DEF ChildrenOf
  <2> QED  BY Zenon, <2>2 DEF Team, Manager!Nobody
<1>5. Alive' = Alive
  OBVIOUS
<1> QED  BY Zenon, <1>1, <1>2, <1>3, <1>4, <1>5 DEF Manager!Finish

\* fpm_pctl() gives a stronger order, or none.
LEMMA PctlOrders ==
  ASSUME MasterInv, NEW new \in {"TERMINATING", "FINISHING", "RELOADING"},
         fpm_pctl(new), mpc # "gone", mpc' # "gone",
         UNCHANGED <<children, child_wp, cpc>>
  PROVE  Manager!Order(new) \/ UNCHANGED Manager!vars
<1>0. fpm_state \in States  BY DEF MasterInv, CoreInv, TypeOK
<1>1. Mode = fpm_state /\ Mode' = fpm_state' /\ Team' = Team /\ Alive' = Alive
  BY SupervisorFrames
<1>2. CASE Overrides(new)
  <2>1. fpm_state # "GONE" /\ fpm_state' = new
    BY <1>0, <1>2 DEF fpm_pctl, States
  <2>2. Manager!Strength(new) > Manager!Strength(fpm_state)
    BY SMTT(40), <1>0, <1>2, Strengths DEF Overrides, States
  <2> QED  BY SMTT(40), <1>1, <2>1, <2>2 DEF Manager!Order
<1>3. CASE ~Overrides(new)
  BY <1>1, <1>3 DEF fpm_pctl, pctl, Manager!vars
<1> QED  BY SMTT(40), <1>2, <1>3

\* A fork is a worker hired within both limits.
LEMMA ForkHires ==
  ASSUME MasterInv, NEW c \in Pids, Fork(c)
  PROVE  Manager!Hire(wp, c)
<1>0. TypeOK /\ NoOrphans /\ Bounded /\ Counted
  BY DEF MasterInv, CoreInv
<1>1. /\ mpc = "make" /\ CanFork /\ cpc[c] = "free" /\ mpc' = mpc
      /\ children' = children \cup {c} /\ child_wp' = [child_wp EXCEPT ![c] = wp]
      /\ cpc' = [cpc EXCEPT ![c] = "init"] /\ fpm_state' = fpm_state
  BY ZenonT(60) DEF Fork, fpm_child_link, pctl
<1>2. wp \in Pools /\ c \notin children
  BY SMTT(40), <1>0, <1>1 DEF TypeOK, NoOrphans
<1>3. Mode = "NORMAL" /\ Mode' = Mode
  BY SMTT(40), <1>1, SupervisorFrames DEF CanFork
<1>4. c \notin Alive /\ Alive' = Alive \cup {c}
  BY <1>0, <1>1 DEF Alive, Live, TypeOK
<1>5. Team' = [Team EXCEPT ![wp] = @ \cup {c}]
  <2>1. \A d \in children : d # c /\ child_wp'[d] = child_wp[d]
    BY SMTT(40), <1>0, <1>1, <1>2 DEF TypeOK
  <2>2. child_wp'[c] = wp
    BY SMTT(40), <1>0, <1>1 DEF TypeOK
  <2>3. ASSUME NEW p \in Pools
        PROVE  ChildrenOf(p)' = IF p = wp THEN ChildrenOf(p) \cup {c} ELSE ChildrenOf(p)
    BY SMTT(40), <1>1, <2>1, <2>2 DEF ChildrenOf
  <2> QED  BY ZenonT(60), <2>3, <1>2 DEF Team
<1>6. Manager!Cardinality(Team[wp]) < pm_max_children[wp]
  <2>1. Team[wp] = ChildrenOf(wp) /\ running[wp] = Cardinality(ChildrenOf(wp))
    BY SMTT(40), <1>0, <1>2 DEF Team, Counted
  <2>2. running[wp] < max /\ max <= pm_max_children[wp]
    BY SMTT(40), <1>0, <1>1 DEF CanFork, Bounded
  <2>3. running[wp] \in Nat /\ max \in Nat /\ pm_max_children[wp] \in Nat
    BY SMTT(40), <1>0, <1>2, PoolFacts DEF TypeOK
  <2>4. Manager!Cardinality(Team[wp]) = running[wp]
    BY Zenon, <2>1, SameCount
  <2> QED  BY SMTT(40), <2>2, <2>3, <2>4
<1>7. process_max > 0 => Manager!Cardinality(Manager!Members) < process_max
  <2>1. Manager!Cardinality(Manager!Members) = running_children
    BY Zenon, <1>0, TeamMembers, SameCount DEF Counted
  <2> QED  BY <2>1, <1>1, NumberAssumption DEF CanFork
<1>8. c \notin Manager!Members
  BY SMTT(40), <1>0, <1>2, TeamMembers
<1> QED  BY Zenon, <1>3, <1>4, <1>5, <1>6, <1>7, <1>8 DEF Manager!Hire

\* fpm_children_bury() buries a dead worker of its pool, and may give the order to reload.
LEMMA BuryBuries ==
  ASSUME MasterInv, NEW c \in Pids, fpm_children_bury(c)
  PROVE  Manager!Bury(child_wp[c], c)
<1>0. TypeOK /\ NoOrphans
  BY DEF MasterInv, CoreInv
<1>1. /\ mpc = "bury" /\ cpc[c] = "zombie" /\ mpc' \in {"make", "bury"}
      /\ children' = children \ {c} /\ child_wp' = [child_wp EXCEPT ![c] = AnyPool]
      /\ cpc' = [cpc EXCEPT ![c] = "free"]
      /\ UNCHANGED fpm_state \/ fpm_pctl("RELOADING")
  BY Zenon DEF fpm_children_bury, fpm_child_unlink, Reap, pctl
<1>2. c \in children /\ child_wp[c] \in Pools
  BY ZenonT(60), <1>0, <1>1 DEF TypeOK, NoOrphans
<1>3. c \notin Alive /\ Alive' = Alive
  BY Zenon, <1>0, <1>1 DEF Alive, Live, TypeOK
<1>4. c \in Team[child_wp[c]]
  BY <1>2 DEF Team, ChildrenOf
<1>5. Team' = [Team EXCEPT ![child_wp[c]] = @ \ {c}]
  <2>1. \A d \in children : d # c => child_wp'[d] = child_wp[d]
    BY SMTT(40), <1>0, <1>1 DEF TypeOK
  <2>2. ASSUME NEW p \in Pools
        PROVE  ChildrenOf(p)' = IF p = child_wp[c] THEN ChildrenOf(p) \ {c}
                                ELSE ChildrenOf(p)
    BY SMTT(40), <1>1, <1>2, <2>1 DEF ChildrenOf
  <2> QED  BY ZenonT(60), <2>2, <1>2 DEF Team
<1>6. Mode' = Mode \/ (Mode = "NORMAL" /\ Mode' = "RELOADING")
  <2>1. Mode = fpm_state /\ Mode' = fpm_state'
    BY <1>1, SupervisorFrames
  <2> QED  BY SMTT(40), <1>1, <2>1 DEF fpm_pctl, Overrides, pctl
<1> QED  BY SMTT(40), <1>3, <1>4, <1>5, <1>6 DEF Manager!Bury

\* A worker that goes on stays alive; one that exits, is killed or crashes dies.
LEMMA WorkerDies ==
  ASSUME MasterInv, NEW c \in Pids, Worker(c)
  PROVE  Manager!Die(c) \/ UNCHANGED Manager!vars
<1>0. TypeOK /\ Addressed  BY DEF MasterInv, CoreInv
<1>1. UNCHANGED master
  BY Zenon DEF Worker, fpm_child_init, Accepting, fpm_scoreboard_update, Accept,
               fpm_request_reading_headers, fpm_request_finished, Exit, Crash, Deliver, Moves
<1>2. Team' = Team /\ Mode' = Mode
  BY <1>1, SupervisorFrames DEF master, pctl, child
<1>3. ASSUME NEW from \in Live, NEW to \in Live, Moves(c, from, to)
      PROVE  UNCHANGED Manager!vars
  <2>1. Alive' = Alive
    BY Zenon, <1>0, <1>3 DEF Alive, Moves, TypeOK
  <2> QED  BY SMTT(40), <1>2, <2>1 DEF Manager!vars
<1>4. ASSUME NEW how, Dies(c, how), cpc[c] \in Live
      PROVE  Manager!Die(c)
  <2>1. c \in Alive /\ Alive' = Alive \ {c}
    BY Zenon, <1>0, <1>4 DEF Alive, Dies, TypeOK, Live
  <2> QED  BY SMTT(40), <1>2, <2>1 DEF Manager!Die
<1>5. CASE \/ fpm_child_init(c) \/ Accepting(c) \/ fpm_scoreboard_update(c)
           \/ Accept(c) \/ fpm_request_reading_headers(c) \/ fpm_request_finished(c)
  <2>1. \E from, to \in Live : Moves(c, from, to)
    BY Zenon, <1>5 DEF fpm_child_init, Accepting, fpm_scoreboard_update, Accept,
                       fpm_request_reading_headers, fpm_request_finished, Live
  <2> QED  BY Zenon, <2>1, <1>3
<1>6. CASE Exit(c)
  BY Zenon, <1>4, <1>6 DEF Exit, Live
<1>7. CASE Crash(c)
  BY Zenon, <1>4, <1>7 DEF Crash
<1>8. ASSUME NEW s, Deliver(c, s)
      PROVE  Manager!Die(c) \/ UNCHANGED Manager!vars
  <2>1. cpc[c] \in Live
    BY Zenon, <1>0, <1>8 DEF Deliver, Addressed
  <2>2. CASE Dies(c, s)
    BY SMTT(40), <1>4, <2>1, <2>2
  <2>3. CASE UNCHANGED cpc
    BY <1>2, <2>3, SupervisorFrames DEF Manager!vars
  <2> QED  BY Zenon, <1>8, <2>2, <2>3 DEF Deliver
<1> QED  BY Zenon, <1>5, <1>6, <1>7, <1>8 DEF Worker

\* Every step of the process manager is a step of Supervisor, or none.
LEMMA SupervisorStep == MasterInv /\ [Next]_vars => [Manager!Next]_(Manager!vars)
<1> SUFFICES ASSUME MasterInv, [Next]_vars
             PROVE  Manager!Next \/ UNCHANGED Manager!vars
  OBVIOUS
<1>0. TypeOK /\ CoreInv /\ CountsTell /\ NoOrphans
  BY SMTT(40), CountersTell DEF MasterInv, CoreInv
<1>t. /\ fpm_state \in States /\ pipe \in Seq({"CHLD", "TERM", "QUIT", "USR2"})
      /\ ret # "gone"
  BY <1>0 DEF TypeOK
<1>n. /\ Manager!Finish => Manager!Next
      /\ \A new \in {"TERMINATING", "FINISHING", "RELOADING"} :
            Manager!Order(new) => Manager!Next
  BY ZenonT(60) DEF Manager!Next
<1>z. running_children = 0 => Alive = {}
  BY Zenon, <1>0, NobodyLeft DEF Alive, Live
<1>1. CASE PctlTimeout
  <2>1. CASE running_children = 0
    <3>1. fpm_pctl_action_last(fpm_state) /\ UNCHANGED cpc /\ mpc # "gone"
      BY <1>1, <2>1 DEF PctlTimeout, os
    <3>2. Alive = {} /\ Alive' = {}
      BY SMTT(40), <1>z, <2>1, <3>1, SupervisorFrames
    <3>3. running_children <= 1
      BY <2>1
    <3> QED  BY Zenon, <1>n, <3>1, <3>2, <3>3, LastFinishes
  <2>2. CASE running_children # 0
    BY SMTT(40), <1>1, <2>2, SupervisorFrames DEF PctlTimeout, child, Manager!vars
  <2> QED  BY <2>1, <2>2
<1>2. CASE fpm_got_signal
  <2> DEFINE new == StateFor(Head(pipe))
  <2>1. new \in {"TERMINATING", "FINISHING", "RELOADING"} /\ mpc = "signals"
    <3>1. Head(pipe) \in {"TERM", "QUIT", "USR2"} /\ mpc = "signals"
      BY <1>2, <1>t DEF fpm_got_signal
    <3> QED  BY SMTT(40), <3>1, PctlFacts
  <2> HIDE DEF new
  <2>2. CASE Overrides(new) /\ running_children = 0
    <3>1. fpm_pctl_action_last(new) /\ UNCHANGED cpc
      BY <1>2, <2>2 DEF fpm_got_signal, new, os
    <3>2. Alive = {} /\ Alive' = {}
      BY SMTT(40), <1>z, <2>2, <3>1, SupervisorFrames
    <3>3. running_children <= 1 /\ (new = "RELOADING" => fpm_state \in {"NORMAL", "RELOADING"})
      BY <2>2 DEF Overrides
    <3> QED  BY SMTT(40), <1>n, <2>1, <3>1, <3>2, <3>3, LastFinishes
  <2>3. CASE ~(Overrides(new) /\ running_children = 0)
    <3>1. fpm_pctl(new) /\ UNCHANGED <<mpc, children, child_wp, cpc>>
      BY Zenon, <1>2, <2>3 DEF fpm_got_signal, new, child
    <3> QED  BY <1>n, <2>1, <3>1, PctlOrders
  <2> QED  BY <2>2, <2>3
<1>3. CASE StartFails
  <2>1. mpc = "make" /\ "TERMINATING" \in {"TERMINATING", "FINISHING", "RELOADING"}
    BY <1>3 DEF StartFails, MakeFails
  <2>2. CASE running_children = 0
    <3>1. fpm_pctl_action_last("TERMINATING") /\ UNCHANGED cpc
      BY <1>3, <2>2 DEF StartFails, os
    <3>2. Alive = {} /\ Alive' = {} /\ running_children <= 1
      BY SMTT(40), <1>z, <2>2, <3>1, SupervisorFrames
    <3> QED  BY SMTT(40), <1>n, <2>1, <3>1, <3>2, LastFinishes
  <2>3. CASE running_children # 0
    <3>1. fpm_pctl("TERMINATING") /\ mpc' = "wait" /\ UNCHANGED <<children, child_wp, cpc>>
      BY Zenon, <1>3, <2>3 DEF StartFails, child
    <3> QED  BY SMTT(40), <1>n, <2>1, <3>1, PctlOrders
  <2> QED  BY <2>2, <2>3
<1>4. ASSUME NEW c \in Pids, BuryLast(c) PROVE Manager!Next
  <2>1. /\ mpc = "bury" /\ cpc[c] = "zombie" /\ running_children = 1
        /\ cpc' = [cpc EXCEPT ![c] = "free"]
        /\ \E st : /\ fpm_pctl_action_last(st)
                   /\ st = "RELOADING" => fpm_state \in {"NORMAL", "RELOADING"}
    BY SMTT(40), <1>4 DEF BuryLast, Reap
  <2>2. \A d \in Pids : d # c => cpc[d] = "free"
    BY SMTT(40), <1>0, <2>1, NobodyLeft
  <2>3. Alive = {} /\ Alive' = {} /\ running_children <= 1
    <3>1. \A d \in Pids : cpc[d] \in {"free", "zombie"} /\ cpc'[d] = "free"
      BY SMTT(40), <1>0, <2>1, <2>2 DEF TypeOK
    <3>2. Alive = {} /\ Alive' = {}
      BY ONLY <3>1 DEF Alive, Live
    <3> QED  BY SMTT(40), <2>1, <3>2
  <2>4. PICK st : /\ fpm_pctl_action_last(st)
                  /\ st = "RELOADING" => fpm_state \in {"NORMAL", "RELOADING"}
    BY Zenon, <2>1
  <2>5. mpc # "gone"
    BY <2>1
  <2> QED  BY Zenon, <1>n, <2>3, <2>4, <2>5, LastFinishes
<1>5. ASSUME NEW c \in Pids, fpm_children_bury(c) PROVE Manager!Next
  <2>1. child_wp[c] \in Pools
    BY <1>0 DEF TypeOK
  <2> QED  BY ZenonT(60), <1>5, <2>1, BuryBuries DEF Manager!Next
<1>6. ASSUME NEW c \in Pids, Fork(c) PROVE Manager!Next
  <2>1. wp \in Pools
    BY <1>0 DEF TypeOK
  <2> QED  BY ZenonT(60), <1>6, <2>1, ForkHires DEF Manager!Next
<1>7. CASE \/ SignalsReady \/ SignalsDone \/ GotSigchld \/ BuryDone
           \/ MakeDone \/ RefillFails \/ StartDone \/ MaintenanceHeartbeat
           \/ MaintenanceDone \/ SpawnSpare \/ NothingToDo \/ MaintenanceSpins
           \/ AcceptFork
           \/ \E p \in Pools : \/ StartOndemand(p) \/ fpm_children_create_initial(p)
                               \/ NextPool(p) \/ SocketReady(p)
           \/ \E c \in Pids : \/ ReadStage(c) \/ IdleKill(c) \/ RequestTimeout(c)
                              \/ AcceptReadStage(c)
  <2>1. UNCHANGED <<fpm_state, children, child_wp, cpc>>
    BY Zenon, <1>7
       DEF SignalsReady, SignalsDone, GotSigchld, BuryDone, MakeDone, RefillFails,
           StartDone, MaintenanceHeartbeat, MaintenanceDone, SpawnSpare,
           NothingToDo, MaintenanceSpins, AcceptFork, StartOndemand,
           fpm_children_create_initial,
           NextPool, SocketReady, ReadStage, IdleKill, RequestTimeout,
           AcceptReadStage, pctl, child, os
  <2>2. mpc # "gone" /\ mpc' # "gone"
    BY Zenon, <1>7, <1>t
       DEF SignalsReady, SignalsDone, GotSigchld, BuryDone, MakeDone, RefillFails, MakeFails,
           StartDone, MaintenanceHeartbeat, MaintenanceDone, SpawnSpare, Scanned, AllRead,
           NothingToDo, MaintenanceSpins, AcceptFork, StartOndemand,
           fpm_children_create_initial,
           NextPool, SocketReady, ReadStage, IdleKill, RequestTimeout,
           AcceptReadStage
  <2> QED  BY Zenon, <2>1, <2>2, SupervisorFrames DEF Manager!vars
<1>8. ASSUME NEW c \in Pids, Worker(c) PROVE Manager!Next \/ UNCHANGED Manager!vars
  BY Zenon, <1>8, WorkerDies DEF Manager!Next
<1>9. CASE \/ \E s \in Signals : SendSignal(s)
           \/ \E p \in Pools : Connect(p)
           \/ Idle \/ UNCHANGED vars
  <2>1. UNCHANGED <<fpm_state, mpc, children, child_wp, cpc>>
    BY Zenon, <1>9 DEF SendSignal, Connect, Idle, master, vars, pctl, child, os
  <2> QED  BY Zenon, <2>1, SupervisorFrames DEF Manager!vars
<1> QED
  BY Zenon, <1>1, <1>2, <1>3, <1>4, <1>5, <1>6, <1>7, <1>8, <1>9 DEF Next, Master

\* The master with its lists, counters, scoreboards and signals implements Supervisor: it
\* hires within the limits and only under no order, buries only the dead, only strengthens
\* an order, and leaves or begins anew when no worker runs.
THEOREM MasterRefines == Spec => SupervisorSpec
<1>1. Init => Manager!Init
  <2> SUFFICES ASSUME Init PROVE Manager!Init  OBVIOUS
  <2>1. Mode = "NORMAL" /\ Alive = {}
    BY DEF Init, Mode, Alive, Live
  <2>2. \A p \in Pools : ChildrenOf(p) = {}
    BY DEF Init, ChildrenOf
  <2>3. Team = Manager!Nobody
    BY Zenon, <2>2 DEF Team, Manager!Nobody
  <2> QED  BY SMTT(40), <2>1, <2>3 DEF Manager!Init
<1> QED  BY <1>1, MasterInvariant, SupervisorStep, PTL DEF Spec, SupervisorSpec, Manager!Spec

=============================================================================
