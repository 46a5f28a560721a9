---------------------------- MODULE FpmMaster_inv ----------------------------
(***************************************************************************)
(* The inductive invariant of FpmMaster but for the counters, and a lemma  *)
(* for each step of the master, of the workers and of the environment.     *)
(***************************************************************************)
EXTENDS FpmMaster, TLAPS

\* SlotsExact in the form the proofs use: each child has a slot of its own, and
\* each used slot has its child.  Slot(c) is what the slot of c holds.
Slot(c) == procs[child_wp[c]][scoreboard_i[c]]
Placed ==
  /\ \A c \in children : scoreboard_i[c] \in Index(child_wp[c]) /\ Slot(c) # "free"
  /\ \A p \in Pools : \A i \in Index(p) :
       procs[p][i] # "free" => \E c \in children : child_wp[c] = p /\ scoreboard_i[c] = i
  /\ \A c, d \in children :
       child_wp[c] = child_wp[d] /\ scoreboard_i[c] = scoreboard_i[d] => c = d

\* The limits, and the targets that the callers of fpm_children_make() give it.
Bounded ==
  /\ \A p \in Pools : running[p] <= pm_max_children[p]
  /\ process_max > 0 => running_children <= process_max
  /\ mpc = "make" => max <= pm_max_children[wp]
  /\ mpc = "ascan" => running[wp] < pm_max_children[wp]

\* A scan holds children of the pool it is about: no child leaves during a callback
\* that walks the list.
Walked ==
  /\ mpc \in {"scan", "ascan"} => todo \subseteq ChildrenOf(wp)
  /\ mpc = "scan" => seen \subseteq ChildrenOf(wp)

\* A worker without handlers has not written to its slot, and has not been seen idle.
Young ==
  /\ \A c \in children : cpc[c] = "init" => Slot(c) = "new" /\ ~idle_kill[c]
  /\ mpc = "scan" => \A c \in seen : cpc[c] # "init"

\* Only live processes have signals pending, only children are marked.
Addressed == \A c \in Pids : /\ pending[c] # {} => cpc[c] \in Live
                             /\ idle_kill[c] => c \in children

\* The inductive invariant, given what the counters tell.
CoreInv ==
  /\ TypeOK /\ NoOrphans /\ Placed /\ Bounded /\ Walked /\ Young
  /\ Addressed /\ IdleKillHeard /\ ZombieNoticed

\* What the counters of the master tell it about its list of children: when nobody
\* is left, when the one at hand is the last, and that there is a slot to give away.
CountsTell ==
  /\ running_children = 0 => children = {}
  /\ \A c \in children : /\ running[child_wp[c]] > 0 /\ running_children > 0
                         /\ running_children = 1 => children = {c}
  /\ \A p \in Pools :
       running[p] < pm_max_children[p] =>
         /\ FreeSlots(p) # {}
         /\ fpm_scoreboard_proc_alloc(p) \in FreeSlots(p)
  /\ mpc = "scan" => Cardinality(seen) \in Nat

(***************************************************************************)
(* The configuration.                                                      *)
(***************************************************************************)
\* A pool is configured with a style and with positive limits.
LEMMA PoolFacts ==
  /\ AnyPool \in Pools
  /\ \A p \in Pools : /\ pm[p] \in Styles /\ pm_max_children[p] \in Nat \ {0}
                      /\ pm_start_servers[p] \in Nat
                      /\ pm_min_spare_servers[p] \in Nat
                      /\ pm_max_spare_servers[p] \in Nat
                      /\ pm[p] = "dynamic" => pm_start_servers[p] <= pm_max_children[p]
                      /\ Index(p) \subseteq Nat /\ 0 \in Index(p)
BY PoolAssumption DEF AnyPool, Index

(***************************************************************************)
(* TypeOK in four parts.                                                   *)
(***************************************************************************)
ControlTypes ==
  /\ fpm_state \in States /\ fpm_signal_sent \in {"none", "QUIT", "TERM", "KILL"}
  /\ pctl_event \in BOOLEAN
  /\ pipe \in Seq({"CHLD", "TERM", "QUIT", "USR2"})
  /\ mpc \in MasterPCs /\ ret \in {"wait", "bury", "pool", "start"}
  /\ pools \subseteq Pools /\ wp \in Pools
  /\ todo \subseteq Pids /\ seen \subseteq Pids
  /\ max \in Nat
ListTypes ==
  /\ children \subseteq Pids /\ child_wp \in [Pids -> Pools]
  /\ scoreboard_i \in [Pids -> Nat] /\ idle_kill \in [Pids -> BOOLEAN]
  /\ running \in [Pools -> Nat] /\ running_children \in Nat
  /\ idle_spawn_rate \in [Pools -> Nat \ {0}]
BoardTypes ==
  /\ DOMAIN procs = Pools /\ \A p \in Pools : procs[p] \in [Index(p) -> Slots]
  /\ free_proc \in [Pools -> Nat] /\ lock \in [Pools -> BOOLEAN]
ProcessTypes ==
  /\ cpc \in [Pids -> Live \cup {"free", "zombie"}]
  /\ in_shutdown \in [Pids -> BOOLEAN]
  /\ pending \in [Pids -> SUBSET {"QUIT", "TERM", "KILL"}]
  /\ status \in [Pids -> {"exited", "QUIT", "TERM", "KILL", "SEGV"}]
NetTypes ==
  /\ backlog \in [Pools -> Nat] /\ edge \in [Pools -> BOOLEAN]
  /\ sent \in Nat /\ conns \in Nat /\ faults \in Nat

\* They are all of it, before and after a step.
LEMMA TypeParts ==
  /\ TypeOK <=> /\ ControlTypes /\ ListTypes /\ BoardTypes /\ ProcessTypes
                /\ NetTypes
  /\ TypeOK' <=> /\ ControlTypes' /\ ListTypes' /\ BoardTypes' /\ ProcessTypes'
                 /\ NetTypes'
<1>1. TypeOK <=> /\ ControlTypes /\ ListTypes /\ BoardTypes /\ ProcessTypes
                 /\ NetTypes
  BY Zenon DEF TypeOK, ControlTypes, ListTypes, BoardTypes, ProcessTypes, NetTypes
<1>2. TypeOK' <=> /\ ControlTypes' /\ ListTypes' /\ BoardTypes' /\ ProcessTypes'
                  /\ NetTypes'
  BY Zenon DEF TypeOK, ControlTypes, ListTypes, BoardTypes, ProcessTypes, NetTypes
<1> QED  BY <1>1, <1>2

\* What is not touched keeps its type.
LEMMA TypeFrames ==
  ASSUME TypeOK
  PROVE  /\ UNCHANGED <<pctl, pipe, mpc, local, make>> => ControlTypes'
         /\ UNCHANGED <<child, idle_kill, count, idle_spawn_rate>> => ListTypes'
         /\ UNCHANGED board => BoardTypes'
         /\ UNCHANGED os => ProcessTypes'
         /\ UNCHANGED <<net, env>> => NetTypes'
<1>1. ControlTypes /\ ListTypes /\ BoardTypes /\ ProcessTypes /\ NetTypes
  BY TypeParts
<1>2. UNCHANGED <<pctl, pipe, mpc, local, make>> => ControlTypes'
  BY <1>1 DEF ControlTypes, pctl, local, make
<1>3. UNCHANGED <<child, idle_kill, count, idle_spawn_rate>> => ListTypes'
  BY <1>1 DEF ListTypes, child, count
<1>4. UNCHANGED board => BoardTypes'
  BY <1>1 DEF BoardTypes, board
<1>5. UNCHANGED os => ProcessTypes'
  BY <1>1 DEF ProcessTypes, os
<1>6. UNCHANGED <<net, env>> => NetTypes'
  BY <1>1 DEF NetTypes, net, env
<1> QED  BY <1>2, <1>3, <1>4, <1>5, <1>6

\* The list and the scoreboard untouched, every child keeps its slot.
LEMMA PlacedFrame ==
  ASSUME Placed, children' = children, child_wp' = child_wp,
         scoreboard_i' = scoreboard_i, procs' = procs
  PROVE  Placed'
BY DEF Placed, Slot

\* fpm_scoreboard_proc_free(): a child that leaves takes its slot along.
LEMMA SlotFreed ==
  ASSUME ListTypes, BoardTypes, Placed, NEW c \in children,
         children' = children \ {c}, child_wp' = [child_wp EXCEPT ![c] = AnyPool],
         scoreboard_i' = [scoreboard_i EXCEPT ![c] = 0],
         procs' = [procs EXCEPT ![child_wp[c]][scoreboard_i[c]] = "free"]
  PROVE  Placed' /\ \A d \in children' : Slot(d)' = Slot(d)
<1> DEFINE q == child_wp[c]
           k == scoreboard_i[c]
<1>a. \A d \in children' : /\ d \in children /\ d # c
                           /\ child_wp'[d] = child_wp[d]
                           /\ scoreboard_i'[d] = scoreboard_i[d]
  BY DEF ListTypes
<1>b. \A p \in Pools : \A i \in Index(p) :
        procs'[p][i] = IF p = q /\ i = k THEN "free" ELSE procs[p][i]
  <2>1. q \in Pools /\ k \in Index(q)
    BY DEF ListTypes, Placed
  <2> QED  BY Zenon, <2>1 DEF BoardTypes
<1>c. \A d \in children' : /\ child_wp[d] \in Pools
                           /\ scoreboard_i[d] \in Index(child_wp[d])
                           /\ ~(child_wp[d] = q /\ scoreboard_i[d] = k)
  BY Zenon, <1>a DEF Placed, ListTypes
<1> HIDE DEF q, k
<1>d. \A d \in children' : Slot(d)' = Slot(d)
  BY ONLY <1>a, <1>b, <1>c DEF Slot
<1>1. \A d \in children' : scoreboard_i'[d] \in Index(child_wp'[d]) /\ Slot(d)' # "free"
  BY <1>a, <1>c, <1>d DEF Placed
<1>2. ASSUME NEW p \in Pools, NEW i \in Index(p), procs'[p][i] # "free"
      PROVE  \E d \in children' : child_wp'[d] = p /\ scoreboard_i'[d] = i
  <2>1. procs[p][i] # "free" /\ ~(p = q /\ i = k)
    BY Zenon, <1>2, <1>b
  <2>2. PICK d \in children : child_wp[d] = p /\ scoreboard_i[d] = i
    BY ZenonT(60), <2>1 DEF Placed
  <2>3. d \in children'
    BY Zenon, <2>1, <2>2 DEF q, k
  <2> QED  BY Zenon, <2>2, <2>3, <1>a
<1>3. \A d, e \in children' :
        child_wp'[d] = child_wp'[e] /\ scoreboard_i'[d] = scoreboard_i'[e] => d = e
  BY <1>a DEF Placed
<1> QED  BY Zenon, <1>1, <1>2, <1>3, <1>d DEF Placed

\* fpm_scoreboard_proc_alloc(): a new child gets a slot that was nobody's.
LEMMA SlotGiven ==
  ASSUME ListTypes, BoardTypes, Placed, NEW c \in Pids, c \notin children,
         NEW q \in Pools, NEW k \in Index(q), procs[q][k] = "free",
         children' = children \cup {c}, child_wp' = [child_wp EXCEPT ![c] = q],
         scoreboard_i' = [scoreboard_i EXCEPT ![c] = k],
         procs' = [procs EXCEPT ![q][k] = "new"]
  PROVE  Placed' /\ Slot(c)' = "new" /\ \A d \in children : Slot(d)' = Slot(d)
<1>a. /\ \A d \in children : /\ d \in children' /\ d # c
                             /\ child_wp'[d] = child_wp[d]
                             /\ scoreboard_i'[d] = scoreboard_i[d]
      /\ child_wp'[c] = q /\ scoreboard_i'[c] = k
      /\ \A d \in children' : d = c \/ d \in children
  BY DEF ListTypes
<1>b. \A p \in Pools : \A i \in Index(p) :
        procs'[p][i] = IF p = q /\ i = k THEN "new" ELSE procs[p][i]
  BY DEF BoardTypes
<1>c. \A d \in children : /\ child_wp[d] \in Pools
                          /\ scoreboard_i[d] \in Index(child_wp[d])
                          /\ ~(child_wp[d] = q /\ scoreboard_i[d] = k)
  BY Zenon DEF Placed, ListTypes, Slot
<1>d. \A d \in children : Slot(d)' = Slot(d)
  BY ONLY <1>a, <1>b, <1>c DEF Slot
<1>e. Slot(c)' = "new"
  <2>1. procs'[q][k] = "new"
    BY ONLY <1>b, q \in Pools, k \in Index(q)
  <2> QED  BY ONLY <2>1, <1>a DEF Slot
<1>1. \A d \in children' : scoreboard_i'[d] \in Index(child_wp'[d]) /\ Slot(d)' # "free"
  <2>1. ASSUME NEW d \in children'
        PROVE  scoreboard_i'[d] \in Index(child_wp'[d]) /\ Slot(d)' # "free"
    <3>1. CASE d = c
      BY ONLY <3>1, <1>a, <1>e, q \in Pools, k \in Index(q)
    <3>2. CASE d \in children
      <4>1. Slot(d) # "free"
        BY Zenon, <3>2 DEF Placed
      <4> QED  BY ONLY <4>1, <3>2, <1>a, <1>c, <1>d
    <3> QED  BY <3>1, <3>2, <1>a
  <2> QED  BY <2>1
<1>2. ASSUME NEW p \in Pools, NEW i \in Index(p), procs'[p][i] # "free"
      PROVE  \E d \in children' : child_wp'[d] = p /\ scoreboard_i'[d] = i
  <2>1. CASE p = q /\ i = k
    BY Zenon, <2>1, <1>a
  <2>2. CASE ~(p = q /\ i = k)
    <3>1. procs[p][i] # "free"
      BY ONLY <1>2, <2>2, <1>b
    <3>2. PICK d \in children : child_wp[d] = p /\ scoreboard_i[d] = i
      BY ZenonT(60), <3>1 DEF Placed
    <3> QED  BY Zenon, <3>2, <1>a
  <2> QED  BY Zenon, <2>1, <2>2
<1>3. \A d, e \in children' :
        child_wp'[d] = child_wp'[e] /\ scoreboard_i'[d] = scoreboard_i'[e] => d = e
  BY <1>a, <1>c DEF Placed
<1> QED  BY Zenon, <1>1, <1>2, <1>3, <1>d, <1>e DEF Placed

\* fpm_request_*(): a worker writes its own slot only, and never frees it.
LEMMA SlotWritten ==
  ASSUME ListTypes, BoardTypes, Placed, NEW c \in children, children' = children,
         child_wp' = child_wp, scoreboard_i' = scoreboard_i,
         \/ UNCHANGED procs
         \/ \E g \in {"ACCEPTING", "BUSY", "FINISHED"} : SetStage(c, g)
  PROVE  Placed' /\ \A d \in children : d # c => Slot(d)' = Slot(d)
<1>1. CASE UNCHANGED procs
  BY Zenon, <1>1, PlacedFrame DEF Slot
<1>2. ASSUME NEW g \in {"ACCEPTING", "BUSY", "FINISHED"}, SetStage(c, g)
      PROVE  Placed' /\ \A d \in children : d # c => Slot(d)' = Slot(d)
  <2> DEFINE q == child_wp[c]
             k == scoreboard_i[c]
  <2>1. q \in Pools /\ k \in Index(q)
    BY DEF ListTypes, Placed
  <2>2. \A p \in Pools : \A i \in Index(p) :
          procs'[p][i] = IF p = q /\ i = k THEN g ELSE procs[p][i]
    BY <1>2, <2>1 DEF BoardTypes, SetStage
  <2>3. \A d \in children : /\ child_wp[d] \in Pools
                            /\ scoreboard_i[d] \in Index(child_wp[d])
                            /\ d # c => ~(child_wp[d] = q /\ scoreboard_i[d] = k)
    BY Zenon DEF Placed, ListTypes
  <2> HIDE DEF q, k
  <2>4. \A d \in children : Slot(d)' = procs'[child_wp[d]][scoreboard_i[d]]
    BY Zenon DEF Slot
  <2>5. \A d \in children : Slot(d) = procs[child_wp[d]][scoreboard_i[d]] /\ Slot(d) # "free"
    BY Zenon DEF Slot, Placed
  <2>6. \A d \in children : d # c => Slot(d)' = Slot(d)
    BY ONLY <2>2, <2>3, <2>4, <2>5
  <2>7. Slot(c)' = g /\ g # "free"
    BY ONLY <1>2, <2>1, <2>2, <2>4, c \in children DEF q, k
  <2>8. \A d \in children' : scoreboard_i'[d] \in Index(child_wp'[d]) /\ Slot(d)' # "free"
    BY <2>3, <2>5, <2>6, <2>7
  <2>9. ASSUME NEW p \in Pools, NEW i \in Index(p), procs'[p][i] # "free"
        PROVE  \E d \in children' : child_wp'[d] = p /\ scoreboard_i'[d] = i
    <3>1. CASE p = q /\ i = k
      BY Zenon, <3>1 DEF q, k
    <3>2. CASE ~(p = q /\ i = k)
      <4>1. procs[p][i] # "free"
        BY ONLY <2>9, <3>2, <2>2
      <4>2. PICK d \in children : child_wp[d] = p /\ scoreboard_i[d] = i
        BY ONLY Placed, <4>1, p \in Pools, i \in Index(p) DEF Placed
      <4> QED  BY Zenon, <4>2
    <3> QED  BY Zenon, <3>1, <3>2
  <2>10. \A d, e \in children' :
           child_wp'[d] = child_wp'[e] /\ scoreboard_i'[d] = scoreboard_i'[e] => d = e
    BY Zenon DEF Placed
  <2> QED  BY Zenon, <2>6, <2>8, <2>9, <2>10 DEF Placed
<1> QED  BY Zenon, <1>1, <1>2

(***************************************************************************)
(* fpm_pctl_action_last(): a new master, or none, and no process left.     *)
(***************************************************************************)
\* The state that the new or the gone master leaves behind satisfies CoreInv.
LEMMA Leave ==
  ASSUME NEW st \in States, fpm_pctl_action_last(st),
         ProcessTypes', NetTypes',
         \A c \in Pids : cpc'[c] = "free" /\ pending'[c] = {}
  PROVE  CoreInv'
<1>0. AnyPool \in Pools /\ \A p \in Pools : pm_max_children[p] \in Nat \ {0}
  BY PoolFacts
<1>a. /\ children' = {} /\ child_wp' = [c \in Pids |-> AnyPool]
      /\ scoreboard_i' = [c \in Pids |-> 0]
      /\ idle_kill' = [c \in Pids |-> FALSE]
      /\ running' = [p \in Pools |-> 0] /\ running_children' = 0
      /\ idle_spawn_rate' = [p \in Pools |-> 1]
      /\ procs' = FreshBoard /\ free_proc' = [p \in Pools |-> 0]
      /\ lock' = [p \in Pools |-> FALSE]
      /\ mpc' \in {"start", "gone"} /\ ret' = "wait" /\ max' = 0
      /\ wp' = AnyPool /\ todo' = {} /\ seen' = {}
  BY DEF fpm_pctl_action_last
<1>1. TypeOK'
  <2>0. /\ fpm_state' \in States /\ fpm_signal_sent' = "none" /\ pctl_event' = FALSE
        /\ pipe' = <<>> /\ pools' \subseteq Pools
    BY DEF fpm_pctl_action_last, States
  <2>a. pipe' \in Seq({"CHLD", "TERM", "QUIT", "USR2"})
    BY <2>0
  <2>b. mpc' \in MasterPCs
    BY <1>a DEF MasterPCs
  <2>c. todo' \subseteq Pids /\ seen' \subseteq Pids /\ max' \in Nat
    BY <1>a
  <2>1. ControlTypes'
    BY Zenon, <1>0, <1>a, <2>0, <2>a, <2>b, <2>c DEF ControlTypes
  <2>2. ListTypes'
    BY <1>0, <1>a DEF ListTypes
  <2>3. BoardTypes'
    BY <1>a DEF BoardTypes, FreshBoard, Slots
  <2> QED  BY <2>1, <2>2, <2>3, TypeParts
<1>3. NoOrphans'
  BY <1>a DEF NoOrphans
<1>4. Placed'
  BY <1>a DEF Placed, FreshBoard
<1>5. Bounded'
  BY <1>0, <1>a, NumberAssumption DEF Bounded
<1>6. Walked' /\ Young' /\ Addressed' /\ IdleKillHeard'
  BY <1>a DEF Walked, Young, Addressed, IdleKillHeard
<1>7. ZombieNoticed'
  BY DEF ZombieNoticed, Zombies
<1> QED
  BY <1>1, <1>3, <1>4, <1>5, <1>6, <1>7 DEF CoreInv

\* Without children there is no process; with one, it is the one at hand.
LEMMA NobodyLeft ==
  ASSUME CoreInv, CountsTell
  PROVE  /\ running_children = 0 =>
              \A c \in Pids : cpc[c] = "free" /\ pending[c] = {}
         /\ \A c \in Pids : running_children = 1 /\ cpc[c] = "zombie" =>
              /\ pending[c] = {}
              /\ \A d \in Pids : d # c => cpc[d] = "free" /\ pending[d] = {}
<1>1. ASSUME running_children = 0 PROVE children = {}
  BY <1>1 DEF CountsTell
<1>2. ASSUME NEW c \in children, running_children = 1 PROVE children = {c}
  BY <1>2 DEF CountsTell
<1>3. \A c \in Pids : cpc[c] = "free" => pending[c] = {}
  BY DEF CoreInv, Addressed, Live
<1>4. \A c \in Pids : cpc[c] = "zombie" => pending[c] = {} /\ c \in children
  BY DEF CoreInv, Addressed, Live, NoOrphans
<1>5. \A c \in Pids : c \notin children => cpc[c] = "free"
  BY DEF CoreInv, NoOrphans
<1> QED  BY <1>1, <1>2, <1>3, <1>4, <1>5

(***************************************************************************)
(* Steps of the master that move its program counter and its locals only.  *)
(***************************************************************************)
\* Such a step keeps CoreInv when its new locals fit the list of children.
LEMMA Looks ==
  ASSUME CoreInv, UNCHANGED <<child, idle_kill, count, procs, lock, os>>,
         ControlTypes', NetTypes', ZombieNoticed',
         idle_spawn_rate' \in [Pools -> Nat \ {0}],
         free_proc' \in [Pools -> Nat],
         mpc' = "make" => max' <= pm_max_children[wp'],
         mpc' = "ascan" => running[wp'] < pm_max_children[wp'],
         mpc' \in {"scan", "ascan"} => todo' \subseteq ChildrenOf(wp'),
         mpc' = "scan" => /\ seen' \subseteq ChildrenOf(wp')
                          /\ \A c \in seen' : cpc[c] # "init"
  PROVE  CoreInv'
<1>0. /\ children' = children /\ child_wp' = child_wp
      /\ scoreboard_i' = scoreboard_i /\ idle_kill' = idle_kill
      /\ running' = running /\ running_children' = running_children
      /\ procs' = procs /\ lock' = lock /\ cpc' = cpc
      /\ in_shutdown' = in_shutdown /\ pending' = pending /\ status' = status
  BY Zenon DEF child, count, os
<1>a. \A p : ChildrenOf(p)' = ChildrenOf(p)
  BY <1>0 DEF ChildrenOf
<1>b. \A c : Slot(c)' = Slot(c)
  BY <1>0 DEF Slot
<1>1. TypeOK'
  <2>1. ListTypes' /\ BoardTypes' /\ ProcessTypes'
    BY Zenon, <1>0, TypeParts DEF CoreInv, ListTypes, BoardTypes, ProcessTypes
  <2> QED  BY Zenon, <2>1, TypeParts
<1>2. NoOrphans'
  BY <1>0 DEF CoreInv, NoOrphans
<1>4. Placed'
  BY Zenon, <1>0, PlacedFrame DEF CoreInv
<1>5. Bounded'
  BY <1>0 DEF CoreInv, Bounded
<1>6. Walked'
  BY Zenon, <1>a DEF Walked, ChildrenOf
<1>7. Young'
  BY Zenon, <1>0, <1>b DEF CoreInv, Young
<1>8. Addressed' /\ IdleKillHeard'
  BY <1>0 DEF CoreInv, Addressed, IdleKillHeard
<1> QED
  BY Zenon, <1>1, <1>2, <1>4, <1>5, <1>6, <1>7, <1>8 DEF CoreInv

\* A zombie stays noticed while the pipe and the callback of the burial stay.
LEMMA StillNoticed ==
  ASSUME ZombieNoticed, UNCHANGED <<cpc, pipe>>,
         mpc # "bury" \/ mpc' = "bury",
         mpc = "make" /\ ret = "bury" =>
           mpc' = "bury" \/ (mpc' = "make" /\ ret' = "bury")
  PROVE  ZombieNoticed'
BY Zenon DEF ZombieNoticed, Zombies

\* The event loop, the signal pipe, and the end of a burial.
LEMMA LoopSteps ==
  ASSUME CoreInv, SignalsReady \/ SignalsDone \/ GotSigchld \/ BuryDone
  PROVE  CoreInv'
<1>0. TypeOK /\ ZombieNoticed  BY DEF CoreInv
<1>t. ControlTypes /\ ListTypes /\ BoardTypes  BY Zenon, <1>0, TypeParts
<1>1. /\ UNCHANGED <<pctl, local, make, child, idle_kill, count, idle_spawn_rate,
                     board, os, net, env>>
      /\ mpc' \in {"signals", "wait", "bury"}
  BY Zenon DEF SignalsReady, SignalsDone, GotSigchld, BuryDone
<1>2. pipe' \in Seq({"CHLD", "TERM", "QUIT", "USR2"})
  BY <1>t DEF ControlTypes, SignalsReady, SignalsDone, GotSigchld, BuryDone
<1>3. ControlTypes'
  BY <1>1, <1>2, <1>t DEF ControlTypes, pctl, local, make, MasterPCs
<1>4. NetTypes'
  BY <1>0, <1>1, TypeFrames
<1>5. ZombieNoticed'
  <2>1. CASE SignalsReady
    BY Zenon, <2>1, <1>0, StillNoticed DEF SignalsReady, os
  <2>2. CASE SignalsDone
    BY <2>2, <1>0, StillNoticed DEF SignalsDone, os
  <2>3. CASE GotSigchld
    BY Zenon, <2>3 DEF GotSigchld, ZombieNoticed
  <2>4. CASE BuryDone
    BY <2>4 DEF BuryDone, ZombieNoticed, Zombies, os
  <2> QED  BY <2>1, <2>2, <2>3, <2>4
<1>6. /\ idle_spawn_rate' \in [Pools -> Nat \ {0}] /\ free_proc' \in [Pools -> Nat]
      /\ UNCHANGED <<child, idle_kill, count, procs, lock, os>>
  BY Zenon, <1>1, <1>t DEF ListTypes, BoardTypes, board
<1> QED  BY <1>1, <1>3, <1>4, <1>5, <1>6, Looks

\* fpm_run() and the callers of fpm_children_make().
LEMMA StartSteps ==
  ASSUME CoreInv, NEW p \in Pools,
         \/ StartOndemand(p) \/ fpm_children_create_initial(p) \/ StartDone
         \/ MaintenanceHeartbeat \/ MaintenanceDone
  PROVE  CoreInv'
<1>0. TypeOK /\ ZombieNoticed  BY DEF CoreInv
<1>t. ControlTypes /\ ListTypes /\ BoardTypes /\ NetTypes  BY Zenon, <1>0, TypeParts
<1>1. /\ UNCHANGED <<pctl, pipe, todo, seen, child, idle_kill, count,
                     idle_spawn_rate, board, os, backlog, env>>
      /\ mpc' \in {"start", "make", "wait", "pool"}
  BY Zenon DEF StartOndemand, fpm_children_create_initial, StartDone,
         MaintenanceHeartbeat, MaintenanceDone, local, net
<1>2. /\ wp' \in Pools /\ pools' \subseteq Pools
      /\ ret' \in {"wait", "bury", "pool", "start"} /\ max' \in Nat
      /\ mpc' = "make" => max' <= pm_max_children[wp']
  BY <1>t, PoolFacts
     DEF ControlTypes, StartOndemand, fpm_children_create_initial, StartDone,
         MaintenanceHeartbeat, MaintenanceDone, local, make
<1>3. ControlTypes'
  BY <1>1, <1>2, <1>t DEF ControlTypes, pctl, MasterPCs
<1>4. NetTypes'
  <2>0. (backlog[p] > 0) \in BOOLEAN /\ edge \in [Pools -> BOOLEAN]
    BY <1>t DEF NetTypes
  <2>1. edge' \in [Pools -> BOOLEAN]
    BY <2>0, Zenon
       DEF StartOndemand, fpm_children_create_initial, StartDone,
           MaintenanceHeartbeat, MaintenanceDone, net
  <2> QED  BY <1>1, <1>t, <2>1 DEF NetTypes, env
<1>5. ZombieNoticed'
  <2>1. mpc \in {"start", "wait", "pool"} /\ UNCHANGED <<cpc, pipe>>
    BY Zenon, <1>1 DEF StartOndemand, fpm_children_create_initial, StartDone,
                MaintenanceHeartbeat, MaintenanceDone, os
  <2> QED  BY Zenon, <1>0, <2>1, StillNoticed
<1>6. /\ idle_spawn_rate' \in [Pools -> Nat \ {0}] /\ free_proc' \in [Pools -> Nat]
      /\ UNCHANGED <<child, idle_kill, count, procs, lock, os>>
  BY <1>1, <1>t DEF ListTypes, BoardTypes, board
<1> QED  BY <1>1, <1>2, <1>3, <1>4, <1>5, <1>6, Looks

\* fpm_children_make() returns to its caller.
LEMMA MakeSteps ==
  ASSUME CoreInv, CountsTell, MakeDone \/ RefillFails
  PROVE  CoreInv'
<1>0. TypeOK /\ ZombieNoticed  BY DEF CoreInv
<1>t. ControlTypes /\ ListTypes /\ BoardTypes /\ NetTypes  BY <1>0, TypeParts
<1>1. /\ UNCHANGED <<pctl, pipe, local, child, idle_kill, count, idle_spawn_rate,
                     procs, lock, os, net, sent, conns>>
      /\ mpc = "make" /\ mpc' = ret /\ max' = 0 /\ ret' = "wait"
  BY DEF MakeDone, RefillFails, MakeFails, board, env
<1>2. mpc' \in {"wait", "bury", "pool", "start"}
  BY Zenon, <1>1, <1>t DEF ControlTypes
<1>3. ControlTypes'
  BY <1>1, <1>2, <1>t DEF ControlTypes, pctl, local, MasterPCs
<1>4. NetTypes'
  <2>1. faults' \in Nat
    BY <1>t DEF NetTypes, MakeDone, RefillFails, MakeFails, env
  <2> QED  BY Zenon, <1>1, <2>1, <1>t DEF NetTypes, net
<1>5. ZombieNoticed'
  BY <1>0, <1>1, StillNoticed DEF os
<1>6. free_proc' \in [Pools -> Nat]
  <2>1. CASE MakeDone
    BY Zenon, <2>1, <1>t DEF BoardTypes, MakeDone, board
  <2>2. CASE RefillFails
    <3>1. CanFork /\ wp \in Pools /\ mpc = "make"
      BY Zenon, <2>2, <1>t DEF ControlTypes, RefillFails, MakeFails
    <3>2. running[wp] < pm_max_children[wp]
      <4>1. running[wp] \in Nat /\ max \in Nat /\ pm_max_children[wp] \in Nat
        BY Zenon, <3>1, <1>t, PoolFacts DEF ListTypes, ControlTypes
      <4> QED  BY <3>1, <4>1 DEF CoreInv, Bounded, CanFork
    <3>3. fpm_scoreboard_proc_alloc(wp) \in Nat
      BY Zenon, <3>1, <3>2, PoolFacts DEF CountsTell, FreeSlots
    <3> QED  BY Zenon, <2>2, <3>1, <3>3, <1>t DEF BoardTypes, RefillFails
  <2> QED  BY Zenon, <2>1, <2>2
<1>7. /\ idle_spawn_rate' \in [Pools -> Nat \ {0}]
      /\ UNCHANGED <<child, idle_kill, count, procs, lock, os>>
  BY <1>1, <1>t DEF ListTypes
<1> QED  BY Zenon, <1>2, <1>3, <1>4, <1>5, <1>6, <1>7, Looks

(***************************************************************************)
(* The walks over the children of a pool.                                  *)
(***************************************************************************)
\* What a walk leaves alone.
LEMMA WalkFrame ==
  ASSUME TypeOK, ZombieNoticed, UNCHANGED <<pctl, pipe, child, idle_kill, count, board, os, env>>,
         mpc \in {"wait", "pool", "scan", "ascan"}, mpc' # "start"
  PROVE  /\ ZombieNoticed' /\ free_proc' \in [Pools -> Nat]
         /\ UNCHANGED <<child, idle_kill, count, procs, lock, os>>
         /\ UNCHANGED net => NetTypes'
         /\ (/\ mpc' \in MasterPCs /\ ret' \in {"wait", "bury", "pool", "start"}
             /\ pools' \subseteq Pools /\ wp' \in Pools
             /\ todo' \subseteq Pids /\ seen' \subseteq Pids
             /\ max' \in Nat) => ControlTypes'
<1>t. ControlTypes /\ BoardTypes /\ NetTypes  BY TypeParts
<1>1. ZombieNoticed'
  BY Zenon, StillNoticed DEF os
<1>2. free_proc' \in [Pools -> Nat] /\ UNCHANGED <<child, idle_kill, count, procs, lock, os>>
  BY <1>t DEF BoardTypes, board
<1>3. UNCHANGED net => NetTypes'
  BY TypeFrames
<1>4. (/\ mpc' \in MasterPCs /\ ret' \in {"wait", "bury", "pool", "start"}
       /\ pools' \subseteq Pools /\ wp' \in Pools
       /\ todo' \subseteq Pids /\ seen' \subseteq Pids
       /\ max' \in Nat) => ControlTypes'
  BY Zenon, <1>t DEF ControlTypes, pctl
<1> QED  BY <1>1, <1>2, <1>3, <1>4

\* The idle maintenance: the next pool, and one unlocked read.
LEMMA ScanSteps ==
  ASSUME CoreInv, NEW p \in Pools, NEW c, NextPool(p) \/ ReadStage(c)
  PROVE  CoreInv'
<1>0. TypeOK /\ ZombieNoticed /\ Walked /\ Young  BY DEF CoreInv
<1>t. ControlTypes /\ ListTypes  BY Zenon, <1>0, TypeParts
<1>1. /\ UNCHANGED <<pctl, pipe, make, child, idle_kill, count, idle_spawn_rate,
                     board, os, net, env>>
      /\ mpc \in {"pool", "scan"} /\ mpc' = "scan"
  BY DEF NextPool, ReadStage
<1>2. /\ wp' \in Pools /\ pools' \subseteq Pools
      /\ todo' \subseteq ChildrenOf(wp') /\ seen' \subseteq ChildrenOf(wp')
      /\ \A d \in seen' : cpc[d] # "init"
  <2>1. CASE NextPool(p)
    BY <2>1, <1>t DEF NextPool, ControlTypes
  <2>2. CASE ReadStage(c)
    <3>1. /\ todo \subseteq ChildrenOf(wp) /\ seen \subseteq ChildrenOf(wp)
          /\ \A d \in seen : cpc[d] # "init"
      BY Zenon, <2>2, <1>0 DEF ReadStage, Walked, Young
    <3>2. c \in ChildrenOf(wp) /\ c \in children
      BY Zenon, <2>2, <3>1 DEF ReadStage, ChildrenOf
    <3>3. fpm_request_is_idle(c) => cpc[c] # "init"
      BY Zenon, <3>2, <1>0 DEF Young, Slot, fpm_request_is_idle
    <3> QED  BY Zenon, <2>2, <1>t, <3>1, <3>2, <3>3 DEF ReadStage, ControlTypes
  <2> QED  BY Zenon, <2>1, <2>2
<1>3. todo' \subseteq Pids /\ seen' \subseteq Pids
  BY <1>2, <1>t DEF ChildrenOf, ListTypes
<1>4. mpc' \in MasterPCs /\ UNCHANGED <<max, ret>> /\ UNCHANGED idle_spawn_rate
  BY Zenon, <1>1 DEF MasterPCs, make
<1>5. ControlTypes' /\ NetTypes' /\ ZombieNoticed' /\ free_proc' \in [Pools -> Nat]
  BY <1>0, <1>1, <1>2, <1>3, <1>4, <1>t, WalkFrame DEF ControlTypes
<1>6. /\ idle_spawn_rate' \in [Pools -> Nat \ {0}]
      /\ UNCHANGED <<child, idle_kill, count, procs, lock, os>>
  BY Zenon, <1>1, <1>t DEF ListTypes, board
<1> QED  BY <1>1, <1>2, <1>5, <1>6, Looks

\* How many workers the maintenance asks for: at least one, within the pool.
LEMMA SpawnTarget ==
  ASSUME CoreInv, CountsTell, SpawnSpare
  PROVE  /\ running[wp] + ChildrenToFork \in Nat
         /\ running[wp] + ChildrenToFork <= pm_max_children[wp]
<1>0. TypeOK  BY DEF CoreInv
<1>t. ControlTypes /\ ListTypes  BY <1>0, TypeParts
<1>1. mpc = "scan" /\ FewSpare /\ running[wp] < pm_max_children[wp] /\ wp \in Pools
  BY Zenon, <1>t DEF SpawnSpare, Scanned, AllRead, ControlTypes
<1>2. Cardinality(seen) \in Nat
  BY Zenon, <1>1 DEF CountsTell
<1>3. /\ running[wp] \in Nat /\ idle_spawn_rate[wp] \in Nat
      /\ pm_max_children[wp] \in Nat /\ pm_min_spare_servers[wp] \in Nat
      /\ Cardinality(seen) < pm_min_spare_servers[wp]
  BY Zenon, <1>1, <1>t, PoolFacts DEF ListTypes, FewSpare
<1> HIDE DEF FewSpare
<1> QED  BY <1>1, <1>2, <1>3 DEF ChildrenToFork, Min

\* The decision at the end of a scan, when it stops no worker, or the wait for the lock.
LEMMA ScannedSteps ==
  ASSUME CoreInv, CountsTell, SpawnSpare \/ NothingToDo \/ MaintenanceSpins
  PROVE  CoreInv'
<1>0. TypeOK /\ ZombieNoticed  BY DEF CoreInv
<1>t. ControlTypes /\ ListTypes  BY <1>0, TypeParts
<1>1. /\ UNCHANGED <<pctl, pipe, pools, wp, child, idle_kill, count,
                     board, os, net, env>>
      /\ mpc = "scan" /\ mpc' \in {"make", "pool", "spin"}
      /\ seen' = {} /\ todo' = todo
  BY Zenon DEF SpawnSpare, NothingToDo, MaintenanceSpins, Scanned, AllRead
<1>2. /\ max' \in Nat /\ ret' \in {"wait", "bury", "pool", "start"}
      /\ mpc' = "make" => max' <= pm_max_children[wp']
  BY <1>1, <1>t, SpawnTarget
     DEF SpawnSpare, NothingToDo, MaintenanceSpins, ControlTypes, make
<1>3. idle_spawn_rate' \in [Pools -> Nat \ {0}]
  <2>1. /\ idle_spawn_rate \in [Pools -> Nat \ {0}] /\ wp \in Pools
        /\ idle_spawn_rate[wp] \in Nat \ {0}
    BY <1>t DEF ListTypes, ControlTypes
  <2>2. 2 * idle_spawn_rate[wp] \in Nat \ {0} /\ 1 \in Nat \ {0}
    BY <2>1
  <2>3. CASE SpawnSpare
    BY <2>1, <2>2, <2>3, Zenon DEF SpawnSpare
  <2>4. CASE NothingToDo
    BY <2>1, <2>2, <2>4, Zenon DEF NothingToDo
  <2>5. CASE MaintenanceSpins
    BY <2>1, <2>5, Zenon DEF MaintenanceSpins
  <2> QED  BY Zenon, <2>3, <2>4, <2>5
<1>4. mpc' \in MasterPCs /\ wp' \in Pools /\ pools' \subseteq Pools
      /\ todo' \subseteq Pids /\ seen' \subseteq Pids
  BY <1>1, <1>t DEF MasterPCs, ControlTypes
<1>5. /\ ControlTypes' /\ NetTypes' /\ ZombieNoticed' /\ free_proc' \in [Pools -> Nat]
      /\ UNCHANGED <<child, idle_kill, count, procs, lock, os>>
  BY Zenon, <1>0, <1>1, <1>2, <1>4, WalkFrame
<1> QED  BY <1>1, <1>2, <1>3, <1>5, Looks

\* fpm_pctl_on_socket_accept().
LEMMA AcceptSteps ==
  ASSUME CoreInv, NEW p \in Pools, NEW c,
         SocketReady(p) \/ AcceptReadStage(c) \/ AcceptFork
  PROVE  CoreInv'
<1>0. TypeOK /\ ZombieNoticed /\ Bounded /\ Walked  BY DEF CoreInv
<1>t. ControlTypes /\ ListTypes /\ NetTypes  BY Zenon, <1>0, TypeParts
<1>1. /\ UNCHANGED <<pctl, pipe, pools, seen, child, idle_kill, count,
                     idle_spawn_rate, board, os, backlog, env>>
      /\ mpc \in {"wait", "ascan"} /\ mpc' \in {"wait", "ascan", "make", "spin"}
  BY Zenon DEF SocketReady, AcceptReadStage, AcceptFork, local, net
<1>2. /\ wp' \in Pools /\ max' \in Nat
      /\ ret' \in {"wait", "bury", "pool", "start"}
      /\ mpc' = "ascan" => /\ todo' \subseteq ChildrenOf(wp')
                           /\ running[wp'] < pm_max_children[wp']
      /\ mpc' = "make" => max' <= pm_max_children[wp']
  <2>1. CASE SocketReady(p)
    <3>1. running[p] \in Nat /\ pm_max_children[p] \in Nat
      BY Zenon, <1>t, PoolFacts DEF ListTypes
    <3>2. wp \in Pools /\ max \in Nat /\ ret \in {"wait", "bury", "pool", "start"}
      BY Zenon, <1>t DEF ControlTypes
    <3>3. /\ mpc = "wait" /\ max' = max /\ ret' = ret
          /\ IF running[p] >= pm_max_children[p]
             THEN mpc' \in {"wait", "spin"} /\ wp' = wp /\ todo' = todo
             ELSE mpc' = "ascan" /\ wp' = p /\ todo' = ChildrenOf(p)
      BY Zenon, <2>1 DEF SocketReady, make
    <3> QED  BY ONLY <3>1, <3>2, <3>3, p \in Pools
  <2>2. CASE AcceptReadStage(c)
    BY Zenon, <2>2, <1>0, <1>t DEF AcceptReadStage, make, ControlTypes, Walked, Bounded
  <2>3. CASE AcceptFork
    <3>1. running[wp] \in Nat /\ pm_max_children[wp] \in Nat /\ wp \in Pools
      BY Zenon, <1>t, PoolFacts DEF ListTypes, ControlTypes
    <3>2. running[wp] < pm_max_children[wp]
      BY Zenon, <2>3, <1>0 DEF AcceptFork, Bounded
    <3>3. mpc' = "make" /\ ret' = "wait" /\ max' = running[wp] + 1 /\ wp' = wp
      BY Zenon, <2>3 DEF AcceptFork, local
    <3> QED  BY ONLY <3>1, <3>2, <3>3
  <2> QED  BY Zenon, <2>1, <2>2, <2>3
<1>3. mpc' \in MasterPCs /\ pools' \subseteq Pools /\ seen' \subseteq Pids
  BY <1>1, <1>t DEF MasterPCs, ControlTypes
<1>4. todo' \subseteq Pids
  BY Zenon, <1>t DEF SocketReady, AcceptReadStage, AcceptFork, ControlTypes, local,
              ChildrenOf, ListTypes
<1>5. NetTypes'
  <2>0. edge \in [Pools -> BOOLEAN]
    BY <1>t DEF NetTypes
  <2>1. edge' \in [Pools -> BOOLEAN]
    BY <2>0, Zenon DEF SocketReady, AcceptReadStage, AcceptFork, net
  <2> QED  BY <1>1, <1>t, <2>1 DEF NetTypes, env
<1>6. /\ ControlTypes' /\ ZombieNoticed' /\ free_proc' \in [Pools -> Nat]
      /\ UNCHANGED <<child, idle_kill, count, procs, lock, os>>
  BY Zenon, <1>0, <1>1, <1>2, <1>3, <1>4, WalkFrame
<1>7. idle_spawn_rate' \in [Pools -> Nat \ {0}]
  BY <1>1, <1>t DEF ListTypes
<1> QED  BY Zenon, <1>1, <1>2, <1>5, <1>6, <1>7, Looks

(***************************************************************************)
(* Steps that send signals to workers.                                     *)
(***************************************************************************)
KillSignals == {"QUIT", "TERM", "KILL"}

\* Signals are added, to live processes only.
Signalled == /\ pending' \in [Pids -> SUBSET KillSignals]
             /\ \A c \in Pids : /\ pending[c] \subseteq pending'[c]
                                /\ pending'[c] # {} => cpc[c] \in Live

\* kill() to one worker, or to all of them, does that.
LEMMA KillSignalled ==
  ASSUME TypeOK, Addressed, NEW s \in KillSignals,
         \/ KillAll(s) \/ UNCHANGED pending
         \/ \E c \in Pids : pending' = [pending EXCEPT ![c] =
                                 IF cpc[c] \in Live THEN @ \cup {s} ELSE @]
  PROVE  Signalled
<1>1. pending \in [Pids -> SUBSET KillSignals]
  BY Zenon DEF TypeOK, KillSignals
<1>2. CASE KillAll(s)
  BY <1>1, <1>2 DEF KillAll, Signalled, Addressed
<1>3. CASE UNCHANGED pending
  BY Zenon, <1>1, <1>3 DEF Signalled, Addressed
<1>4. ASSUME NEW c \in Pids,
             pending' = [pending EXCEPT ![c] = IF cpc[c] \in Live
                                               THEN @ \cup {s} ELSE @]
      PROVE  Signalled
  BY Zenon, <1>1, <1>4 DEF Signalled, Addressed
<1> QED  BY Zenon, <1>2, <1>3, <1>4

\* Such a step keeps CoreInv, also when it marks a worker as stopped that has its
\* handlers and is told so.
LEMMA Kills ==
  ASSUME CoreInv, Signalled,
         UNCHANGED <<child, count, board, cpc, in_shutdown, status>>,
         ControlTypes', NetTypes', ZombieNoticed',
         idle_spawn_rate' \in [Pools -> Nat \ {0}],
         idle_kill' \in [Pids -> BOOLEAN],
         \A c \in Pids : idle_kill'[c] =>
            \/ idle_kill[c]
            \/ /\ c \in children /\ cpc[c] # "init"
               /\ "QUIT" \in pending'[c] \/ cpc[c] = "zombie",
         mpc' \notin {"make", "scan", "ascan"}
  PROVE  CoreInv'
<1>0. /\ children' = children /\ child_wp' = child_wp
      /\ scoreboard_i' = scoreboard_i
      /\ running' = running /\ running_children' = running_children
      /\ procs' = procs /\ free_proc' = free_proc /\ lock' = lock
      /\ cpc' = cpc /\ in_shutdown' = in_shutdown /\ status' = status
  BY DEF child, count, board
<1>a. \A p : ChildrenOf(p)' = ChildrenOf(p)
  BY Zenon, <1>0 DEF ChildrenOf
<1>b. \A c : Slot(c)' = Slot(c)
  BY Zenon, <1>0 DEF Slot
<1>1. TypeOK'
  <2>1. ListTypes' /\ BoardTypes'
    BY Zenon, <1>0, TypeParts DEF CoreInv, ListTypes, BoardTypes
  <2>2. ProcessTypes'
    BY Zenon, <1>0, TypeParts DEF CoreInv, ProcessTypes, Signalled, KillSignals
  <2> QED  BY Zenon, <2>1, <2>2, TypeParts
<1>2. NoOrphans'
  BY Zenon, <1>0 DEF CoreInv, NoOrphans
<1>4. Placed'
  BY Zenon, <1>0, PlacedFrame DEF CoreInv
<1>5. Bounded' /\ Walked'
  BY Zenon, <1>0 DEF CoreInv, Bounded, Walked
<1>6. Young'
  BY Zenon, <1>0, <1>b DEF CoreInv, Young, TypeOK
<1>7. Addressed'
  BY Zenon, <1>0 DEF CoreInv, Addressed, Signalled
<1>8. IdleKillHeard'
  BY ZenonT(60), <1>0 DEF CoreInv, IdleKillHeard, Signalled, TypeOK
<1> QED
  BY Zenon, <1>1, <1>2, <1>4, <1>5, <1>6, <1>7, <1>8 DEF CoreInv

\* The states and signals that fpm_pctl() deals in.
LEMMA PctlFacts ==
  /\ \A s \in {"TERM", "QUIT", "USR2"} :
        StateFor(s) \in {"TERMINATING", "FINISHING", "RELOADING"}
  /\ \A st : FirstSignal(st) \in KillSignals
  /\ \A s : NextSignal(s) \in KillSignals
  /\ {"TERMINATING", "FINISHING", "RELOADING"} \subseteq States
BY SMTT(40) DEF StateFor, FirstSignal, NextSignal, KillSignals, States

\* fpm_pctl() moves to a state and signals the children.
LEMMA PctlKills ==
  ASSUME TypeOK, Addressed, NEW new \in {"TERMINATING", "FINISHING", "RELOADING"},
         fpm_pctl(new)
  PROVE  /\ fpm_state' \in States /\ pctl_event' \in BOOLEAN
         /\ fpm_signal_sent' \in {"none", "QUIT", "TERM", "KILL"}
         /\ Signalled
<1>1. CASE Overrides(new)
  BY <1>1, PctlFacts, KillSignalled DEF fpm_pctl, KillSignals
<1>2. CASE ~Overrides(new)
  <2>1. UNCHANGED pending /\ "QUIT" \in KillSignals
    BY <1>2 DEF fpm_pctl, KillSignals
  <2>2. Signalled
    BY <2>1, KillSignalled
  <2>3. UNCHANGED <<fpm_state, fpm_signal_sent, pctl_event>>
    BY <1>2 DEF fpm_pctl, pctl
  <2> QED  BY Zenon, <2>2, <2>3 DEF TypeOK
<1> QED  BY Zenon, <1>1, <1>2

\* The timer of the escalation, and a request that takes too long.
LEMMA TimerSteps ==
  ASSUME CoreInv, CountsTell, PctlTimeout \/ \E c \in Pids : RequestTimeout(c)
  PROVE  CoreInv'
<1>0. TypeOK /\ ZombieNoticed /\ Addressed  BY DEF CoreInv
<1>t. ControlTypes /\ ListTypes /\ ProcessTypes /\ NetTypes  BY <1>0, TypeParts
<1>1. CASE PctlTimeout /\ running_children = 0
  <2>1. /\ fpm_pctl_action_last(fpm_state) /\ UNCHANGED os /\ UNCHANGED <<net, env>>
    BY <1>1 DEF PctlTimeout
  <2>2. ProcessTypes' /\ NetTypes'
    BY ZenonT(60), <1>0, <2>1, TypeFrames
  <2>3. \A d \in Pids : cpc'[d] = "free" /\ pending'[d] = {}
    BY <1>1, <2>1, NobodyLeft DEF os
  <2>4. fpm_state \in States
    BY <1>t DEF ControlTypes
  <2> QED  BY Zenon, <2>1, <2>2, <2>3, <2>4, Leave
<1>2. CASE \/ PctlTimeout /\ running_children # 0
           \/ \E c \in Pids : RequestTimeout(c)
  <2>1. /\ UNCHANGED <<fpm_state, pipe, mpc, local, make, child, idle_kill,
                       count, idle_spawn_rate, board, cpc, in_shutdown, status,
                       net, env>>
        /\ mpc = "wait"
    BY Zenon, <1>2 DEF PctlTimeout, RequestTimeout, pctl
  <2>2. fpm_signal_sent' \in {"none", "QUIT", "TERM", "KILL"} /\ pctl_event' \in BOOLEAN
    BY Zenon, <1>2, <1>t, PctlFacts DEF PctlTimeout, RequestTimeout, pctl, ControlTypes,
                                 KillSignals
  <2>3. ControlTypes'
    BY <2>1, <2>2, <1>t DEF ControlTypes, local, make
  <2>4. Signalled
    <3>1. CASE PctlTimeout /\ running_children # 0
      BY <3>1, <1>0, PctlFacts, KillSignalled DEF PctlTimeout
    <3>2. ASSUME NEW c \in Pids, RequestTimeout(c) PROVE Signalled
      <4>1. "TERM" \in KillSignals  BY Zenon DEF KillSignals
      <4> QED  BY Zenon, <3>2, <4>1, <1>0, KillSignalled DEF RequestTimeout
    <3> QED  BY Zenon, <1>2, <3>1, <3>2
  <2>5. NetTypes' /\ ZombieNoticed'
    BY Zenon, <1>0, <2>1, TypeFrames, StillNoticed
  <2>6. /\ idle_spawn_rate' \in [Pools -> Nat \ {0}]
        /\ idle_kill' \in [Pids -> BOOLEAN] /\ idle_kill' = idle_kill
    BY <2>1, <1>t DEF ListTypes
  <2> QED  BY Zenon, <2>1, <2>3, <2>4, <2>5, <2>6, Kills
<1> QED  BY <1>1, <1>2

\* A stop or reload signal.
LEMMA SignalStep ==
  ASSUME CoreInv, CountsTell, fpm_got_signal
  PROVE  CoreInv'
<1>0. TypeOK /\ ZombieNoticed /\ Addressed  BY DEF CoreInv
<1>t. ControlTypes /\ ListTypes /\ ProcessTypes /\ NetTypes  BY <1>0, TypeParts
<1> DEFINE new == StateFor(Head(pipe))
<1>n. /\ new \in {"TERMINATING", "FINISHING", "RELOADING"} /\ new \in States
      /\ mpc = "signals" /\ pipe # <<>> /\ Head(pipe) # "CHLD"
  <2>1. Head(pipe) \in {"TERM", "QUIT", "USR2"} /\ mpc = "signals" /\ pipe # <<>>
        /\ Head(pipe) # "CHLD"
    BY <1>t DEF fpm_got_signal, ControlTypes
  <2> QED  BY Zenon, <2>1, PctlFacts
<1> HIDE DEF new
<1>1. CASE Overrides(new) /\ running_children = 0
  <2>1. /\ fpm_pctl_action_last(new) /\ UNCHANGED os /\ UNCHANGED <<net, env>>
    BY <1>1 DEF fpm_got_signal, new
  <2>2. ProcessTypes' /\ NetTypes'
    BY Zenon, <1>0, <2>1, TypeFrames
  <2>3. \A d \in Pids : cpc'[d] = "free" /\ pending'[d] = {}
    BY Zenon, <1>1, <2>1, NobodyLeft DEF os
  <2> QED  BY Zenon, <2>1, <2>2, <2>3, <1>n, Leave
<1>2. CASE ~(Overrides(new) /\ running_children = 0)
  <2>1. /\ UNCHANGED <<mpc, local, make, child, idle_kill, count, idle_spawn_rate,
                       board, cpc, in_shutdown, status, net, env>>
        /\ fpm_pctl(new) /\ pipe' = Tail(pipe)
    BY Zenon, <1>2 DEF fpm_got_signal, new
  <2>2. /\ fpm_state' \in States /\ pctl_event' \in BOOLEAN
        /\ fpm_signal_sent' \in {"none", "QUIT", "TERM", "KILL"} /\ Signalled
    BY Zenon, <1>0, <1>n, <2>1, PctlKills
  <2>3. pipe' \in Seq({"CHLD", "TERM", "QUIT", "USR2"})
    BY <2>1, <1>n, <1>t DEF ControlTypes
  <2>4. ControlTypes'
    BY Zenon, <2>1, <2>2, <2>3, <1>t DEF ControlTypes, local, make
  <2>5. NetTypes'
    BY Zenon, <1>0, <2>1, TypeFrames
  <2>6. ZombieNoticed'
    <3>1. ASSUME NEW i \in 1 .. Len(pipe), pipe[i] = "CHLD"
          PROVE  \E j \in 1 .. Len(pipe') : pipe'[j] = "CHLD"
      <4>1. pipe \in Seq({"CHLD", "TERM", "QUIT", "USR2"}) /\ i # 1
        BY <3>1, <1>n, <1>t DEF ControlTypes
      <4>2. i - 1 \in 1 .. Len(pipe') /\ pipe'[i - 1] = "CHLD"
        BY <4>1, <3>1, <1>n, <2>1
      <4> QED  BY Zenon, <4>2
    <3>2. Zombies' = Zombies
      BY <2>1 DEF Zombies
    <3> QED  BY <3>1, <3>2, <1>0, <1>n DEF ZombieNoticed
  <2>7. /\ idle_spawn_rate' \in [Pools -> Nat \ {0}]
        /\ idle_kill' \in [Pids -> BOOLEAN] /\ idle_kill' = idle_kill
        /\ mpc' = "signals"
    BY <2>1, <1>n, <1>t DEF ListTypes
  <2> QED  BY Zenon, <2>1, <2>2, <2>4, <2>5, <2>6, <2>7, Kills
<1> QED  BY <1>1, <1>2

(***************************************************************************)
(* The steps that change the list of children and the scoreboard, those of *)
(* the workers and those from outside.                                     *)
(***************************************************************************)
\* A failure before the event loop stops the workers that were started.
LEMMA StartFailsStep ==
  ASSUME CoreInv, CountsTell, StartFails
  PROVE  CoreInv'
<1>0. TypeOK /\ ZombieNoticed /\ Addressed  BY DEF CoreInv
<1>t. ControlTypes /\ ListTypes /\ ProcessTypes /\ NetTypes  BY <1>0, TypeParts
<1>n. /\ mpc = "make" /\ ret = "start" /\ UNCHANGED <<net, sent, conns>>
      /\ faults' = faults + 1
  BY DEF StartFails, MakeFails
<1>p. NetTypes'
  BY <1>n, <1>t DEF NetTypes, net
<1>s. "TERMINATING" \in States /\ "TERMINATING" \in {"TERMINATING", "FINISHING", "RELOADING"}
  BY DEF States
<1>1. CASE running_children = 0
  <2>1. /\ fpm_pctl_action_last("TERMINATING") /\ UNCHANGED os
    BY <1>1 DEF StartFails
  <2>2. ProcessTypes'
    BY <1>0, <2>1, TypeFrames
  <2>3. \A d \in Pids : cpc'[d] = "free" /\ pending'[d] = {}
    BY Zenon, <1>1, <2>1, NobodyLeft DEF os
  <2> QED  BY <2>1, <2>2, <2>3, <1>s, <1>p, Leave
<1>2. CASE running_children # 0
  <2>1. /\ UNCHANGED <<pipe, wp, todo, seen, child, idle_kill, count,
                       idle_spawn_rate, board, cpc, in_shutdown, status>>
        /\ fpm_pctl("TERMINATING")
        /\ mpc' = "wait" /\ max' = 0 /\ ret' = "wait" /\ pools' = {}
    BY <1>2 DEF StartFails
  <2>2. /\ fpm_state' \in States /\ pctl_event' \in BOOLEAN
        /\ fpm_signal_sent' \in {"none", "QUIT", "TERM", "KILL"} /\ Signalled
    BY Zenon, <1>0, <1>s, <2>1, PctlKills
  <2>3. ControlTypes'
    BY <2>1, <2>2, <1>t DEF ControlTypes, MasterPCs
  <2>4. ZombieNoticed'
    BY <1>0, <1>n, <2>1, StillNoticed
  <2>5. /\ idle_spawn_rate' \in [Pools -> Nat \ {0}]
        /\ idle_kill' \in [Pids -> BOOLEAN] /\ idle_kill' = idle_kill
    BY Zenon, <2>1, <1>t DEF ListTypes
  <2> QED  BY Zenon, <1>p, <2>1, <2>2, <2>3, <2>4, <2>5, Kills
<1> QED  BY Zenon, <1>1, <1>2

\* The idle maintenance stops a worker it has seen idle.
LEMMA IdleKillStep ==
  ASSUME CoreInv, NEW c \in Pids, IdleKill(c)
  PROVE  CoreInv'
<1>0. TypeOK /\ ZombieNoticed /\ Addressed /\ Walked /\ Young /\ NoOrphans
  BY DEF CoreInv
<1>t. ControlTypes /\ ListTypes /\ ProcessTypes  BY Zenon, <1>0, TypeParts
<1>1. /\ UNCHANGED <<pctl, pipe, pools, wp, todo, make, child, count, board, cpc,
                     in_shutdown, status, net, env>>
      /\ mpc = "scan" /\ mpc' = "pool" /\ seen' = {} /\ c \in seen
      /\ idle_kill' = [idle_kill EXCEPT ![c] = TRUE]
      /\ pending' = [pending EXCEPT ![c] = IF cpc[c] \in Live
                                           THEN @ \cup {"QUIT"} ELSE @]
  BY Zenon DEF IdleKill, Scanned, AllRead
<1>2. ControlTypes'
  BY Zenon, <1>1, <1>t DEF ControlTypes, pctl, make, MasterPCs
<1>3. NetTypes' /\ ZombieNoticed'
  BY <1>0, <1>1, TypeFrames, StillNoticed
<1>4. Signalled
  <2>1. "QUIT" \in KillSignals  BY DEF KillSignals
  <2> QED  BY Zenon, <2>1, <1>0, <1>1, KillSignalled
<1>5. idle_spawn_rate' \in [Pools -> Nat \ {0}]
  <2>1. idle_spawn_rate \in [Pools -> Nat \ {0}] /\ 1 \in Nat \ {0}
    BY <1>t DEF ListTypes
  <2> QED  BY Zenon, <2>1 DEF IdleKill
<1>6. idle_kill' \in [Pids -> BOOLEAN] /\ \A d \in Pids : d # c => idle_kill'[d] = idle_kill[d]
  <2>1. idle_kill \in [Pids -> BOOLEAN]
    BY SMTT(40), <1>t DEF ListTypes
  <2> QED  BY <1>1, <2>1, Zenon
<1>7. c \in children /\ cpc[c] # "init"
  BY <1>0, <1>1 DEF Walked, Young, ChildrenOf
<1>8. "QUIT" \in pending'[c] \/ cpc[c] = "zombie"
  <2>1. /\ cpc[c] \in Live \cup {"free", "zombie"}
        /\ pending \in [Pids -> SUBSET {"QUIT", "TERM", "KILL"}]
    BY <1>t DEF ProcessTypes
  <2>2. cpc[c] # "free"
    BY <1>7, <1>0 DEF NoOrphans
  <2> QED  BY Zenon, <2>1, <2>2, <1>1
<1>9. \A d \in Pids : idle_kill'[d] =>
        \/ idle_kill[d]
        \/ /\ d \in children /\ cpc[d] # "init"
           /\ "QUIT" \in pending'[d] \/ cpc[d] = "zombie"
  BY <1>6, <1>7, <1>8, Zenon
<1> QED  BY <1>1, <1>2, <1>3, <1>4, <1>5, <1>6, <1>9, Kills

(***************************************************************************)
(* fpm_children_bury().                                                    *)
(***************************************************************************)
\* The last worker of a master that stops or restarts.
LEMMA BuryLastStep ==
  ASSUME CoreInv, CountsTell, NEW c \in Pids, BuryLast(c)
  PROVE  CoreInv'
<1>0. TypeOK  BY DEF CoreInv
<1>t. ControlTypes /\ ProcessTypes  BY <1>0, TypeParts
<1>1. /\ cpc[c] = "zombie" /\ running_children = 1 /\ Reap(c)
      /\ UNCHANGED <<pending, net, env>>
  BY DEF BuryLast
<1>2. PICK st \in States : fpm_pctl_action_last(st)
  BY <1>t DEF BuryLast, ControlTypes, States
<1>3. ProcessTypes'
  BY <1>1, <1>t DEF Reap, ProcessTypes
<1>4. NetTypes'
  BY <1>0, <1>1, TypeFrames
<1>5. \A d \in Pids : cpc'[d] = "free" /\ pending'[d] = {}
  BY <1>1, <1>t, NobodyLeft DEF Reap, ProcessTypes
<1> QED  BY Zenon, <1>2, <1>3, <1>4, <1>5, Leave

\* A worker is reaped, unlinked and its slot given back.
LEMMA BuryStep ==
  ASSUME CoreInv, CountsTell, NEW c \in Pids, fpm_children_bury(c)
  PROVE  CoreInv'
<1>0. /\ TypeOK /\ ZombieNoticed /\ Addressed /\ Placed /\ NoOrphans
      /\ Bounded /\ Young /\ IdleKillHeard
  BY DEF CoreInv
<1>t. /\ ControlTypes /\ ListTypes /\ BoardTypes /\ ProcessTypes
  BY <1>0, TypeParts
<1>1. /\ mpc = "bury" /\ cpc[c] = "zombie"
      /\ Reap(c) /\ fpm_child_unlink(c)
      /\ fpm_scoreboard_proc_free(child_wp[c], scoreboard_i[c])
      /\ UNCHANGED <<pipe, pools, todo, seen, idle_spawn_rate, net, env>>
  BY Zenon DEF fpm_children_bury
<1>2. c \in children
  BY Zenon, <1>0, <1>1 DEF NoOrphans
<1> DEFINE q == child_wp[c]
           k == scoreboard_i[c]
<1>3. /\ q \in Pools /\ k \in Index(q) /\ k \in Nat
      /\ AnyPool \in Pools /\ pm_max_children[q] \in Nat
  BY Zenon, <1>0, <1>2, <1>t, PoolFacts DEF ListTypes, Placed
<1>4. /\ running[q] > 0 /\ running_children > 0
      /\ running[q] \in Nat /\ running_children \in Nat
  BY <1>2, <1>3, <1>t DEF CountsTell, ListTypes
<1> HIDE DEF q, k
<1>5. /\ children' = children \ {c} /\ child_wp' = [child_wp EXCEPT ![c] = AnyPool]
      /\ scoreboard_i' = [scoreboard_i EXCEPT ![c] = 0]
      /\ idle_kill' = [idle_kill EXCEPT ![c] = FALSE]
      /\ running' = [running EXCEPT ![q] = @ - 1]
      /\ running_children' = running_children - 1
      /\ procs' = [procs EXCEPT ![q][k] = "free"]
      /\ free_proc' = [free_proc EXCEPT ![q] = k] /\ lock' = lock
      /\ cpc' = [cpc EXCEPT ![c] = "free"]
      /\ status' = [status EXCEPT ![c] = "exited"]
      /\ in_shutdown' = [in_shutdown EXCEPT ![c] = FALSE]
  BY Zenon, <1>1 DEF Reap, fpm_child_unlink, fpm_scoreboard_proc_free, q, k
<1>6. /\ fpm_state' \in States /\ pctl_event' \in BOOLEAN
      /\ fpm_signal_sent' \in {"none", "QUIT", "TERM", "KILL"} /\ Signalled
  <2>1. CASE UNCHANGED <<pctl, pending>>
    <3>1. "QUIT" \in KillSignals  BY DEF KillSignals
    <3>2. Signalled  BY <3>1, <2>1, <1>0, KillSignalled
    <3> QED  BY <2>1, <3>2, <1>t DEF pctl, ControlTypes
  <2>2. CASE fpm_pctl("RELOADING")
    BY Zenon, <2>2, <1>0, PctlKills
  <2> QED  BY Zenon, <2>1, <2>2 DEF fpm_children_bury
<1>7. \/ /\ mpc' = "make" /\ ret' = "bury" /\ wp' = q
         /\ max' = Refill(q, running[q] - 1)
      \/ UNCHANGED <<mpc, max, ret, wp>>
  BY Zenon DEF fpm_children_bury, make, q
<1>8. /\ wp' \in Pools /\ max' \in Nat /\ mpc' \in {"make", "bury"}
      /\ ret' \in {"wait", "bury", "pool", "start"}
      /\ mpc' = "make" => max' <= pm_max_children[wp'] /\ ret' = "bury"
  <2>1. running[q] <= pm_max_children[q]
    BY <1>0, <1>3 DEF Bounded
  <2>2. Refill(q, running[q] - 1) \in Nat /\ Refill(q, running[q] - 1) <= pm_max_children[q]
    BY ONLY <1>3, <1>4, <2>1 DEF Refill
  <2>3. /\ mpc = "bury" /\ wp \in Pools /\ max \in Nat
        /\ ret \in {"wait", "bury", "pool", "start"}
    BY Zenon, <1>1, <1>t DEF ControlTypes
  <2> QED  BY ONLY <2>2, <2>3, <1>3, <1>7
<1>10. TypeOK'
  <2>1. ControlTypes'
    BY Zenon, <1>1, <1>6, <1>8, <1>t DEF ControlTypes, MasterPCs
  <2>2. ListTypes'
    <3>1. idle_kill' \in [Pids -> BOOLEAN]
      BY <1>5, <1>t, Zenon DEF ListTypes
    <3> QED  BY <1>1, <1>3, <1>4, <1>5, <1>t, <3>1 DEF ListTypes
  <2>3. BoardTypes'
    BY <1>3, <1>5, <1>t DEF BoardTypes, Slots
  <2>4. ProcessTypes'
    <3>1. in_shutdown' \in [Pids -> BOOLEAN]
      BY <1>5, <1>t, Zenon DEF ProcessTypes
    <3> QED  BY <1>5, <1>6, <1>t, <3>1 DEF ProcessTypes, Signalled, KillSignals
  <2>5. NetTypes'
    BY Zenon, <1>0, <1>1, TypeFrames
  <2> QED  BY Zenon, <2>1, <2>2, <2>3, <2>4, <2>5, TypeParts
<1>11. NoOrphans'
  BY Zenon, <1>0, <1>5, <1>t DEF NoOrphans, ProcessTypes
<1>a. \A d \in children' : /\ d \in children /\ d \in Pids /\ d # c
                           /\ child_wp'[d] = child_wp[d] /\ cpc'[d] = cpc[d]
                           /\ scoreboard_i'[d] = scoreboard_i[d]
                           /\ in_shutdown'[d] = in_shutdown[d]
                           /\ idle_kill'[d] = idle_kill[d]
  BY Zenon, <1>5, <1>t DEF ListTypes, ProcessTypes
<1>d. Placed' /\ \A d \in children' : Slot(d)' = Slot(d)
  BY Zenon, <1>0, <1>2, <1>5, <1>t, SlotFreed DEF q, k
<1>13. Bounded'
  <2>1. \A p \in Pools : running'[p] <= running[p] /\ running[p] \in Nat /\ running'[p] \in Nat
                         /\ pm_max_children[p] \in Nat
    BY SMTT(40), <1>3, <1>4, <1>5, <1>t, PoolFacts DEF ListTypes
  <2>2. \A p \in Pools : running'[p] <= pm_max_children[p]
    BY SMTT(40), <2>1, <1>0 DEF Bounded
  <2> QED  BY SMTT(40), <2>2, <1>4, <1>5, <1>8, <1>0, NumberAssumption DEF Bounded
<1>14. Walked' /\ Young'
  BY <1>8, <1>a, <1>d, <1>0 DEF Walked, Young
<1>15. Addressed'
  BY Zenon, <1>0, <1>1, <1>5, <1>6, <1>t DEF Addressed, Signalled, Live, ListTypes, ProcessTypes
<1>16. IdleKillHeard'
  BY Zenon, <1>0, <1>6, <1>a DEF IdleKillHeard, Signalled
<1>17. ZombieNoticed'
  BY Zenon, <1>8 DEF ZombieNoticed
<1> QED
  BY <1>10, <1>11, <1>d, <1>13, <1>14, <1>15, <1>16, <1>17 DEF CoreInv

(***************************************************************************)
(* Fork().                                                                 *)
(***************************************************************************)
\* A worker is forked into a free slot and linked.
LEMMA ForkStep ==
  ASSUME CoreInv, CountsTell, NEW c \in Pids, Fork(c)
  PROVE  CoreInv'
<1>0. /\ TypeOK /\ ZombieNoticed /\ Addressed /\ Placed /\ NoOrphans
      /\ Bounded /\ Young /\ IdleKillHeard
  BY DEF CoreInv
<1>t. /\ ControlTypes /\ ListTypes /\ BoardTypes /\ ProcessTypes
  BY <1>0, TypeParts
<1> DEFINE q == wp
           k == fpm_scoreboard_proc_alloc(wp)
<1>1. /\ mpc = "make" /\ CanFork /\ cpc[c] = "free" /\ FreeSlots(q) # {}
      /\ procs' = [procs EXCEPT ![q][k] = "new"]
      /\ free_proc' = [free_proc EXCEPT ![q] = NextHint(q, k)] /\ lock' = lock
      /\ children' = children \cup {c}
      /\ child_wp' = [child_wp EXCEPT ![c] = q]
      /\ scoreboard_i' = [scoreboard_i EXCEPT ![c] = k]
      /\ running' = [running EXCEPT ![q] = @ + 1]
      /\ running_children' = running_children + 1
      /\ cpc' = [cpc EXCEPT ![c] = "init"]
      /\ UNCHANGED <<pctl, pipe, mpc, local, make, idle_kill, idle_spawn_rate,
                     in_shutdown, pending, status, net, env>>
  BY DEF Fork, fpm_child_link
<1>2. c \notin children /\ pending[c] = {} /\ ~idle_kill[c]
  BY ZenonT(60), <1>0, <1>1 DEF NoOrphans, Addressed, Live
<1>3. /\ running[q] \in Nat /\ running_children \in Nat /\ max \in Nat
      /\ q \in Pools /\ pm_max_children[q] \in Nat \ {0}
      /\ running[q] < max /\ max <= pm_max_children[q]
      /\ process_max > 0 => running_children < process_max
  BY SMTT(40), <1>0, <1>1, <1>t, PoolFacts, NumberAssumption
     DEF ListTypes, ControlTypes, CanFork, Bounded
<1>4. k \in Index(q) /\ k \in Nat /\ procs[q][k] = "free"
  <2>1. running[q] < pm_max_children[q]
    BY <1>3
  <2> QED  BY Zenon, <2>1, <1>3, PoolFacts DEF CountsTell, FreeSlots
<1> HIDE DEF k
<1>10. TypeOK'
  <2>1. ControlTypes'
    BY Zenon, <1>0, <1>1, TypeFrames
  <2>2. ListTypes'
    BY SMTT(40), <1>1, <1>3, <1>4, <1>t DEF ListTypes
  <2>3. BoardTypes'
    BY <1>1, <1>3, <1>4, <1>t DEF BoardTypes, Slots, NextHint
  <2>4. ProcessTypes'
    BY Zenon, <1>1, <1>t DEF ProcessTypes, Live
  <2>5. NetTypes'
    BY Zenon, <1>0, <1>1, TypeFrames
  <2> QED  BY <2>1, <2>2, <2>3, <2>4, <2>5, TypeParts
<1>11. NoOrphans'
  BY Zenon, <1>0, <1>1, <1>t DEF NoOrphans, ProcessTypes
<1>a. /\ \A d \in children : /\ d \in children' /\ d \in Pids /\ d # c
                             /\ child_wp'[d] = child_wp[d] /\ cpc'[d] = cpc[d]
                             /\ scoreboard_i'[d] = scoreboard_i[d]
      /\ child_wp'[c] = q /\ scoreboard_i'[c] = k /\ cpc'[c] = "init"
      /\ \A d \in children' : d = c \/ d \in children
  BY Zenon, <1>1, <1>2, <1>t DEF ListTypes, ProcessTypes
<1>d. Placed' /\ Slot(c)' = "new" /\ \A d \in children : Slot(d)' = Slot(d)
  BY Zenon, <1>0, <1>1, <1>2, <1>3, <1>4, <1>t, SlotGiven
<1>13. Bounded'
  <2>1. \A p \in Pools : running'[p] = IF p = q THEN running[q] + 1 ELSE running[p]
    BY Zenon, <1>1, <1>3, <1>4, <1>t DEF ListTypes
  <2>2. \A p \in Pools : running'[p] <= pm_max_children[p]
    <3>1. \A p \in Pools : running[p] <= pm_max_children[p]
      BY Zenon, <1>0 DEF Bounded
    <3>2. ASSUME NEW p \in Pools PROVE running'[p] <= pm_max_children[p]
      <4>1. CASE p = q
        <5>1. running'[p] = running[q] + 1 /\ pm_max_children[p] = pm_max_children[q]
          BY Zenon, <4>1, <2>1, <1>3
        <5> QED  BY ONLY SMTT(40), <5>1, <1>3
      <4>2. CASE p # q
        <5>1. running'[p] = running[p] /\ running[p] <= pm_max_children[p]
          BY Zenon, <4>2, <3>1, <2>1
        <5> QED  BY Zenon, <5>1
      <4> QED  BY Zenon, <4>1, <4>2
    <3> QED  BY Zenon, <3>2
  <2>3. process_max > 0 => running_children' <= process_max
    BY <1>1, <1>3, <1>4, NumberAssumption
  <2> QED  BY Zenon, <2>2, <2>3, <1>1, <1>0 DEF Bounded, local, make
<1>14. Walked' /\ Young'
  BY Zenon, <1>0, <1>1, <1>2, <1>a, <1>d DEF Walked, Young
<1>15. Addressed'
  BY Zenon, <1>0, <1>1, <1>2, <1>t DEF Addressed, Live, ProcessTypes
<1>16. IdleKillHeard'
  BY Zenon, <1>0, <1>1, <1>2, <1>a DEF IdleKillHeard
<1>17. ZombieNoticed'
  <2>1. Zombies' = Zombies
    BY <1>1, <1>t DEF Zombies, ProcessTypes
  <2> QED  BY Zenon, <2>1, <1>0, <1>1 DEF ZombieNoticed, make
<1> QED
  BY SMTT(40), <1>10, <1>11, <1>d, <1>13, <1>14, <1>15, <1>16, <1>17 DEF CoreInv

(***************************************************************************)
(* The worker processes.                                                   *)
(***************************************************************************)
\* The state of the master's own is not touched by a worker.
LEMMA MasterFrame ==
  ASSUME CoreInv, UNCHANGED master, pipe' \in Seq({"CHLD", "TERM", "QUIT", "USR2"})
  PROVE  ControlTypes' /\ ListTypes' /\ Bounded' /\ Walked'
<1>0. TypeOK /\ Bounded /\ Walked  BY DEF CoreInv
<1>t. ControlTypes /\ ListTypes  BY <1>0, TypeParts
<1>1. UNCHANGED <<pctl, mpc, local, make, child, idle_kill, count, idle_spawn_rate>>
  BY Zenon DEF master
<1>2. ControlTypes'
  BY Zenon, <1>1, <1>t DEF ControlTypes, pctl, local, make
<1>3. ListTypes'
  BY <1>0, <1>1, TypeFrames
<1>4. \A p : ChildrenOf(p)' = ChildrenOf(p)
  BY Zenon, <1>1 DEF ChildrenOf, child
<1>6. Bounded' /\ Walked'
  BY Zenon, <1>0, <1>1, <1>4 DEF Bounded, Walked, count, local, make
<1> QED  BY <1>2, <1>3, <1>6

\* A worker goes on, with or without a new stage in its slot.
LEMMA MovesStep ==
  ASSUME CoreInv, NEW c \in Pids, NEW from \in Live, NEW to \in Live \ {"init"},
         Moves(c, from, to), NetTypes',
         \/ UNCHANGED procs
         \/ \E g \in {"ACCEPTING", "BUSY", "FINISHED"} : SetStage(c, g)
  PROVE  CoreInv'
<1>0. /\ TypeOK /\ ZombieNoticed /\ Addressed /\ Placed /\ NoOrphans
      /\ Young /\ IdleKillHeard
  BY DEF CoreInv
<1>t. /\ ControlTypes /\ ListTypes /\ BoardTypes /\ ProcessTypes
  BY <1>0, TypeParts
<1>1. /\ cpc[c] = from /\ cpc' = [cpc EXCEPT ![c] = to]
      /\ UNCHANGED <<master, pipe, free_proc, lock, in_shutdown, pending, status>>
  BY Zenon DEF Moves
<1>2. /\ children' = children /\ child_wp' = child_wp
      /\ scoreboard_i' = scoreboard_i /\ idle_kill' = idle_kill
      /\ mpc' = mpc /\ seen' = seen /\ ret' = ret
  BY Zenon, <1>1 DEF master, child, local, make
<1>3. c \in children
  BY Zenon, <1>0, <1>1 DEF NoOrphans, Live
<1>4. \A d \in Pids : d # c => cpc'[d] = cpc[d]
  BY Zenon, <1>1, <1>t DEF ProcessTypes
<1>5. cpc'[c] \in Live \ {"init"} /\ cpc'[c] \notin {"free", "zombie"}
      /\ cpc[c] \notin {"free", "zombie"}
  BY <1>1, <1>t DEF ProcessTypes, Live
<1>6. ControlTypes' /\ ListTypes' /\ Bounded' /\ Walked'
  BY Zenon, <1>1, <1>t, MasterFrame DEF ControlTypes
<1>7. child_wp[c] \in Pools /\ scoreboard_i[c] \in Index(child_wp[c])
  BY Zenon, <1>0, <1>3, <1>t DEF ListTypes, Placed
<1>9. BoardTypes'
  BY <1>1, <1>7, <1>t DEF BoardTypes, SetStage, Slots
<1>10. ProcessTypes'
  BY Zenon, <1>1, <1>t DEF ProcessTypes
<1>11. NoOrphans'
  BY Zenon, <1>0, <1>2, <1>4, <1>5 DEF NoOrphans
<1>12. Placed' /\ \A d \in children : d # c => Slot(d)' = Slot(d)
  BY Zenon, <1>0, <1>2, <1>3, <1>t, SlotWritten
<1>13. Young'
  <2>1. \A d \in children : cpc'[d] = "init" => Slot(d)' = "new" /\ ~idle_kill[d]
    BY Zenon, <1>0, <1>4, <1>5, <1>12, <1>t DEF Young, ListTypes
  <2>2. mpc = "scan" => \A d \in seen : cpc'[d] # "init"
    BY Zenon, <1>0, <1>4, <1>5, <1>t DEF Young, ControlTypes
  <2> QED  BY Zenon, <2>1, <2>2, <1>2 DEF Young
<1>14. Addressed'
  BY Zenon, <1>0, <1>1, <1>2, <1>4, <1>5 DEF Addressed
<1>15. IdleKillHeard'
  <2>1. \A d \in children : d \in Pids /\ (cpc[d] = "zombie" => cpc'[d] = "zombie")
    BY Zenon, <1>4, <1>5, <1>t DEF ListTypes
  <2> QED  BY Zenon, <2>1, <1>0, <1>1, <1>2 DEF IdleKillHeard
<1>16. ZombieNoticed'
  <2>1. Zombies' = Zombies
    BY Zenon, <1>4, <1>5 DEF Zombies
  <2> QED  BY Zenon, <2>1, <1>0, <1>1, <1>2 DEF ZombieNoticed
<1>17. TypeOK'
  BY Zenon, <1>6, <1>9, <1>10, TypeParts
<1> QED
  BY <1>6, <1>11, <1>12, <1>13, <1>14, <1>15, <1>16, <1>17 DEF CoreInv

\* A worker dies: it is a zombie, the lock may stay behind, and the master is sent a
\* SIGCHLD.
LEMMA DiesStep ==
  ASSUME CoreInv, NEW c \in Pids, cpc[c] \in Live,
         NEW how \in {"exited", "QUIT", "TERM", "KILL", "SEGV"}, Dies(c, how),
         DropsLock(c), UNCHANGED <<master, procs, free_proc>>, NetTypes'
  PROVE  CoreInv'
<1>0. /\ TypeOK /\ ZombieNoticed /\ Addressed /\ Placed /\ NoOrphans
      /\ Young /\ IdleKillHeard
  BY DEF CoreInv
<1>t. /\ ControlTypes /\ ListTypes /\ BoardTypes /\ ProcessTypes
  BY <1>0, TypeParts
<1>1. /\ cpc' = [cpc EXCEPT ![c] = "zombie"]
      /\ status' = [status EXCEPT ![c] = how]
      /\ pending' = [pending EXCEPT ![c] = {}]
      /\ in_shutdown' = in_shutdown
  BY Zenon DEF Dies
<1>2. /\ children' = children /\ child_wp' = child_wp
      /\ scoreboard_i' = scoreboard_i /\ idle_kill' = idle_kill
      /\ mpc' = mpc /\ seen' = seen /\ procs' = procs
  BY Zenon DEF master, child, local
<1>3. /\ pipe' \in Seq({"CHLD", "TERM", "QUIT", "USR2"})
      /\ \E i \in 1 .. Len(pipe') : pipe'[i] = "CHLD"
  <2>1. pipe \in Seq({"CHLD", "TERM", "QUIT", "USR2"})
    BY Zenon, <1>t DEF ControlTypes
  <2>2. CASE \E i \in 1 .. Len(pipe) : pipe[i] = "CHLD"
    BY <2>1, <2>2 DEF Dies, Sigchld
  <2>3. CASE ~ \E i \in 1 .. Len(pipe) : pipe[i] = "CHLD"
    <3>1. pipe' = Append(pipe, "CHLD")
      BY <2>3 DEF Dies, Sigchld
    <3>2. Len(pipe) + 1 \in 1 .. Len(pipe') /\ pipe'[Len(pipe) + 1] = "CHLD"
      BY <2>1, <3>1
    <3> QED  BY <2>1, <3>1, <3>2
  <2> QED  BY Zenon, <2>2, <2>3
<1>4. ControlTypes' /\ ListTypes' /\ Bounded' /\ Walked'
  BY Zenon, <1>3, MasterFrame
<1>5. TypeOK'
  <2>1. ProcessTypes'
    BY Zenon, <1>1, <1>t DEF ProcessTypes
  <2>2. lock' \in [Pools -> BOOLEAN]
    BY <1>t, Zenon DEF BoardTypes, DropsLock
  <2>3. BoardTypes'
    BY Zenon, <1>2, <1>t, <2>2 DEF BoardTypes
  <2> QED  BY Zenon, <1>4, <2>1, <2>3, TypeParts
<1>6. /\ \A d \in Pids : d # c => cpc'[d] = cpc[d] /\ pending'[d] = pending[d]
      /\ cpc'[c] = "zombie" /\ pending'[c] = {}
  BY <1>1, <1>t DEF ProcessTypes
<1>7. NoOrphans'
  BY ZenonT(60), <1>0, <1>2, <1>6 DEF NoOrphans, Live
<1>8. Placed'
  BY <1>0, <1>2 DEF Placed, Slot
<1>9. Young'
  BY Zenon, <1>0, <1>2, <1>6, <1>t DEF Young, Slot, ListTypes, ControlTypes
<1>10. Addressed'
  BY Zenon, <1>0, <1>2, <1>6 DEF Addressed
<1>11. IdleKillHeard'
  BY Zenon, <1>0, <1>1, <1>2, <1>6, <1>t DEF IdleKillHeard, ListTypes
<1>12. ZombieNoticed'
  BY Zenon, <1>3 DEF ZombieNoticed
<1> QED
  BY <1>4, <1>5, <1>7, <1>8, <1>9, <1>10, <1>11, <1>12 DEF CoreInv

\* A signal that does not kill is heard by the handler of a worker, or dropped by
\* the one of the master.
LEMMA HeardStep ==
  ASSUME CoreInv, NEW c \in Pids, NEW s \in KillSignals, s \in pending[c],
         ~(s = "KILL" \/ (s = "TERM" /\ cpc[c] # "init")), Deliver(c, s)
  PROVE  CoreInv'
<1>0. /\ TypeOK /\ ZombieNoticed /\ Addressed /\ Placed /\ NoOrphans
      /\ Young /\ IdleKillHeard
  BY DEF CoreInv
<1>t. /\ ControlTypes /\ ListTypes /\ ProcessTypes /\ BoardTypes
  BY Zenon, <1>0, TypeParts
<1> DEFINE h == s = "QUIT" /\ cpc[c] # "init"
<1>1. /\ pending' = [pending EXCEPT ![c] = @ \ {s}]
      /\ in_shutdown' = [in_shutdown EXCEPT ![c] = @ \/ h]
      /\ UNCHANGED <<cpc, status, pipe, master, board, net, env>>
  BY Zenon DEF Deliver, board
<1>2. /\ children' = children /\ child_wp' = child_wp
      /\ scoreboard_i' = scoreboard_i /\ idle_kill' = idle_kill
      /\ mpc' = mpc /\ seen' = seen /\ ret' = ret /\ procs' = procs
      /\ cpc' = cpc /\ pipe' = pipe
  BY <1>1 DEF master, child, local, make, board
<1>3. /\ in_shutdown' \in [Pids -> BOOLEAN]
      /\ \A d \in Pids : in_shutdown[d] => in_shutdown'[d]
      /\ h => in_shutdown'[c]
  <2>1. in_shutdown \in [Pids -> BOOLEAN]
    BY <1>t DEF ProcessTypes
  <2> QED  BY <1>1, <2>1, Zenon
<1>4. /\ pending' \in [Pids -> SUBSET {"QUIT", "TERM", "KILL"}]
      /\ \A d \in Pids : d # c => pending'[d] = pending[d]
      /\ pending'[c] \subseteq pending[c]
  BY Zenon, <1>1, <1>t DEF ProcessTypes
<1>5. TypeOK'
  <2>1. ControlTypes' /\ ListTypes'
    BY Zenon, <1>1, <1>2, <1>t, MasterFrame DEF ControlTypes
  <2>2. ProcessTypes'
    BY Zenon, <1>1, <1>3, <1>4, <1>t DEF ProcessTypes
  <2>3. BoardTypes' /\ NetTypes'
    BY Zenon, <1>0, <1>1, TypeFrames
  <2> QED  BY Zenon, <2>1, <2>2, <2>3, TypeParts
<1>6. Bounded' /\ Walked'
  BY Zenon, <1>1, <1>2, <1>t, MasterFrame DEF ControlTypes
<1>7. NoOrphans' /\ Placed' /\ Young'
  <2>1. NoOrphans'
    BY Zenon, <1>0, <1>2 DEF NoOrphans
  <2>2. Placed'
    BY Zenon, <1>0, <1>2, PlacedFrame
  <2>3. Young'
    BY Zenon, <1>0, <1>2 DEF Young, Slot
  <2> QED  BY <2>1, <2>2, <2>3
<1>8. Addressed'
  BY Zenon, <1>0, <1>2, <1>4 DEF Addressed
<1>9. IdleKillHeard'
  <2>1. idle_kill[c] /\ c \in children => h
    BY Zenon, <1>0 DEF Young, KillSignals
  <2> HIDE DEF h
  <2>2. \A d \in children : d \in Pids
    BY Zenon, <1>t DEF ListTypes
  <2> QED  BY <2>1, <2>2, <1>0, <1>2, <1>3, <1>4, Zenon DEF IdleKillHeard
<1>10. ZombieNoticed'
  BY Zenon, <1>0, <1>2 DEF ZombieNoticed, Zombies
<1> QED
  BY <1>5, <1>6, <1>7, <1>8, <1>9, <1>10 DEF CoreInv

\* Every step of a worker.
LEMMA WorkerStep ==
  ASSUME CoreInv, NEW c \in Pids, Worker(c)
  PROVE  CoreInv'
<1>0. TypeOK /\ Addressed  BY DEF CoreInv
<1>t. ListTypes /\ NetTypes  BY <1>0, TypeParts
<1>p. /\ {"init", "loop", "update", "accept", "taken", "busy"} \subseteq Live
      /\ {"loop", "update", "accept", "taken", "busy"} \subseteq Live \ {"init"}
  BY DEF Live
<1>n. UNCHANGED <<net, env>> => NetTypes'
  BY <1>0, TypeFrames
<1>1. CASE fpm_child_init(c)
  BY Zenon, <1>1, <1>p, <1>n, MovesStep DEF fpm_child_init, Moves
<1>2. CASE Accepting(c)
  BY Zenon, <1>2, <1>p, <1>n, MovesStep DEF Accepting, Moves
<1>3. CASE Accept(c)
  <2>1. child_wp[c] \in Pools
    BY Zenon, <1>t DEF ListTypes
  <2>2. NetTypes'
    BY <1>3, <1>t, <2>1 DEF Accept, Moves, NetTypes, env
  <2> QED  BY <1>3, <1>p, <2>2, MovesStep DEF Accept
<1>4. CASE fpm_request_reading_headers(c)
  BY Zenon, <1>4, <1>p, <1>n, MovesStep DEF fpm_request_reading_headers, Moves
<1>5. CASE fpm_request_finished(c)
  BY Zenon, <1>5, <1>p, <1>n, MovesStep DEF fpm_request_finished, Moves
<1>6. CASE Exit(c)
  <2>1. cpc[c] \in Live
    BY Zenon, <1>6, <1>p DEF Exit
  <2>2. DropsLock(c) /\ UNCHANGED <<master, procs, free_proc>>
    BY Zenon, <1>6 DEF Exit, DropsLock, board
  <2> QED  BY Zenon, <1>6, <1>n, <2>1, <2>2, DiesStep DEF Exit
<1>7. CASE Crash(c)
  <2>1. NetTypes'
    BY <1>7, <1>t DEF Crash, NetTypes, net
  <2> QED  BY <1>7, <2>1, DiesStep DEF Crash
<1>8. ASSUME NEW s \in KillSignals, Deliver(c, s) PROVE CoreInv'
  <2>1. s \in pending[c] /\ cpc[c] \in Live
    BY Zenon, <1>8, <1>0 DEF Deliver, Addressed
  <2>2. CASE s = "KILL" \/ (s = "TERM" /\ cpc[c] # "init")
    BY Zenon, <1>8, <2>1, <2>2, <1>n, DiesStep DEF Deliver, KillSignals
  <2>3. CASE ~(s = "KILL" \/ (s = "TERM" /\ cpc[c] # "init"))
    BY ZenonT(60), <1>8, <2>1, <2>3, HeardStep
  <2> QED  BY Zenon, <2>2, <2>3
<1>9. CASE fpm_scoreboard_update(c)
  <2>1. PICK to \in {"accept", "busy"} : Moves(c, "update", to)
    BY Zenon, <1>9 DEF fpm_scoreboard_update
  <2> QED  BY Zenon, <1>9, <2>1, <1>p, <1>n, MovesStep DEF fpm_scoreboard_update, Moves
<1> QED
  BY <1>1, <1>2, <1>3, <1>4, <1>5, <1>6, <1>7, <1>8, <1>9 DEF Worker, KillSignals

(***************************************************************************)
(* The environment, and the theorem.                                       *)
(***************************************************************************)
\* The administrator, the clients, and a step that changes nothing.
LEMMA OutsideStep ==
  ASSUME CoreInv,
         \/ \E s \in Signals : SendSignal(s)
         \/ \E p \in Pools : Connect(p)
         \/ UNCHANGED vars
  PROVE  CoreInv'
<1>0. TypeOK /\ ZombieNoticed /\ Bounded /\ Walked /\ Young  BY DEF CoreInv
<1>t. ControlTypes /\ ListTypes /\ BoardTypes /\ NetTypes  BY Zenon, <1>0, TypeParts
<1>1. UNCHANGED <<pctl, mpc, local, make, child, idle_kill, count,
                  idle_spawn_rate, board, os>>
  BY Zenon DEF SendSignal, Connect, master, vars
<1>2. pipe' = pipe \/ \E s \in Signals : pipe' = Append(pipe, s)
  BY Zenon DEF SendSignal, Connect, vars
<1>3. /\ pipe' \in Seq({"CHLD", "TERM", "QUIT", "USR2"})
      /\ Len(pipe') >= Len(pipe) /\ \A i \in 1 .. Len(pipe) : pipe'[i] = pipe[i]
  BY <1>2, <1>t, NumberAssumption DEF ControlTypes
<1>4. ControlTypes'
  BY Zenon, <1>1, <1>3, <1>t DEF ControlTypes, pctl, local, make
<1>5. ZombieNoticed'
  <2>0. Len(pipe) \in Nat /\ Len(pipe') \in Nat
    <3>1. pipe \in Seq({"CHLD", "TERM", "QUIT", "USR2"})
      BY <1>t, Zenon DEF ControlTypes
    <3> QED  BY ONLY <3>1, <1>3
  <2>1. \A i \in 1 .. Len(pipe) : i \in 1 .. Len(pipe')
    BY ONLY <1>3, <2>0
  <2>2. Zombies' = Zombies /\ mpc' = mpc /\ ret' = ret
    BY <1>1 DEF Zombies, os, make
  <2> QED  BY Zenon, <1>0, <1>3, <2>1, <2>2 DEF ZombieNoticed
<1>6. NetTypes'
  <2>1. /\ backlog' \in [Pools -> Nat] /\ sent' \in Nat /\ conns' \in Nat
        /\ faults' \in Nat
    BY <1>t DEF NetTypes, SendSignal, Connect, vars, net, env
  <2>2. edge \in [Pools -> BOOLEAN] /\ \A p \in Pools : (pm[p] = "ondemand") \in BOOLEAN
    BY Zenon, <1>t DEF NetTypes
  <2>3. edge' \in [Pools -> BOOLEAN]
    BY <2>2, Zenon DEF SendSignal, Connect, vars, net
  <2> QED  BY Zenon, <2>1, <2>3 DEF NetTypes
<1>7. /\ idle_spawn_rate' \in [Pools -> Nat \ {0}] /\ free_proc' \in [Pools -> Nat]
      /\ UNCHANGED <<child, idle_kill, count, procs, lock, os>>
  BY Zenon, <1>1, <1>t DEF ListTypes, BoardTypes, board
<1>8. /\ mpc' = "make" => max' <= pm_max_children[wp']
      /\ mpc' = "ascan" => running[wp'] < pm_max_children[wp']
      /\ mpc' \in {"scan", "ascan"} => todo' \subseteq ChildrenOf(wp')
      /\ mpc' = "scan" => /\ seen' \subseteq ChildrenOf(wp')
                          /\ \A c \in seen' : cpc[c] # "init"
  BY Zenon, <1>0, <1>1 DEF Bounded, Walked, Young, local, make
<1> QED  BY Zenon, <1>4, <1>5, <1>6, <1>7, <1>8, Looks

\* The master starts without workers.
LEMMA CoreInit == Init => CoreInv
<1> SUFFICES ASSUME Init PROVE CoreInv  BY SMTT(40)
<1>0. AnyPool \in Pools /\ \A p \in Pools : pm_max_children[p] \in Nat \ {0}
  BY PoolFacts
<1>1. TypeOK
  <2>a. pipe \in Seq({"CHLD", "TERM", "QUIT", "USR2"})
    BY DEF Init
  <2>b. fpm_state \in States /\ mpc \in MasterPCs
    BY DEF Init, States, MasterPCs
  <2>1. ControlTypes
    BY Zenon, <1>0, <2>a, <2>b DEF Init, ControlTypes
  <2>2. ListTypes /\ NetTypes
    BY SMTT(40), <1>0 DEF Init, ListTypes, NetTypes
  <2>3. BoardTypes
    BY Zenon DEF Init, BoardTypes, FreshBoard, Slots
  <2>4. ProcessTypes
    BY Zenon DEF Init, ProcessTypes
  <2> QED  BY Zenon, <2>1, <2>2, <2>3, <2>4, TypeParts
<1>3. NoOrphans /\ Placed
  BY Zenon DEF NoOrphans, Placed, Init, FreshBoard
<1>4. Bounded
  BY SMTT(40), <1>0, NumberAssumption DEF Bounded, Init
<1>5. Walked /\ Young /\ Addressed /\ IdleKillHeard
  BY Zenon DEF Walked, Young, Addressed, IdleKillHeard, Init
<1>6. ZombieNoticed
  BY Zenon DEF ZombieNoticed, Zombies, Init
<1> QED  BY <1>1, <1>3, <1>4, <1>5, <1>6 DEF CoreInv

\* Every step keeps CoreInv, as long as the counters can be believed.
LEMMA CoreNext == CoreInv /\ CountsTell /\ [Next]_vars => CoreInv'
<1> SUFFICES ASSUME CoreInv, CountsTell, [Next]_vars PROVE CoreInv'  BY Zenon
<1>1. CASE Master
  <2>0. AnyPool \in Pools  BY PoolFacts
  <2>1. CASE SignalsReady \/ SignalsDone \/ GotSigchld \/ BuryDone
    BY <2>1, LoopSteps
  <2>2. CASE PctlTimeout \/ \E c \in Pids : RequestTimeout(c)
    BY <2>2, TimerSteps
  <2>3. CASE fpm_got_signal
    BY <2>3, SignalStep
  <2>4. CASE MakeDone \/ RefillFails
    BY <2>4, MakeSteps
  <2>5. CASE StartFails
    BY <2>5, StartFailsStep
  <2>6. CASE \/ StartDone \/ MaintenanceHeartbeat \/ MaintenanceDone
             \/ \E p \in Pools : StartOndemand(p) \/ fpm_children_create_initial(p)
    BY <2>0, <2>6, StartSteps
  <2>7. CASE \/ \E p \in Pools : NextPool(p)
             \/ \E c \in Pids : ReadStage(c)
    BY <2>0, <2>7, ScanSteps
  <2>8. CASE SpawnSpare \/ NothingToDo \/ MaintenanceSpins
    BY <2>8, ScannedSteps
  <2>9. CASE \/ AcceptFork \/ \E p \in Pools : SocketReady(p)
             \/ \E c \in Pids : AcceptReadStage(c)
    BY <2>0, <2>9, AcceptSteps
  <2>10. CASE \E c \in Pids : IdleKill(c)
    BY <2>10, IdleKillStep
  <2>11. CASE \E c \in Pids : BuryLast(c) \/ fpm_children_bury(c) \/ Fork(c)
    BY <2>11, BuryLastStep, BuryStep, ForkStep
  <2> QED
    BY SMTT(40), <1>1, <2>1, <2>2, <2>3, <2>4, <2>5, <2>6, <2>7, <2>8, <2>9, <2>10, <2>11
       DEF Master
<1>2. CASE \E c \in Pids : Worker(c)
  BY <1>2, WorkerStep
<1>3. CASE \/ \E s \in Signals : SendSignal(s)
           \/ \E p \in Pools : Connect(p)
           \/ Idle \/ UNCHANGED vars
  BY <1>3, OutsideStep DEF Idle
<1> QED  BY <1>1, <1>2, <1>3 DEF Next

=============================================================================
