----------------------------- MODULE FpmMaster -----------------------------
(***************************************************************************)
(* The process manager of FPM (sapi/fpm/fpm): a master process that forks  *)
(* the workers of its pools, replaces those that die, adapts their number  *)
(* to the load and stops them for a reload or a shutdown.                  *)
(*                                                                         *)
(* The master is single threaded: an event loop (mpc = "wait") that runs   *)
(* one callback at a time.  A worker talks to it through its death and     *)
(* through one byte of shared memory, the stage of its request, which the  *)
(* master reads without a lock.  The master talks to a worker by signals,  *)
(* which are delivered some time after kill() (pending).  Both count in    *)
(* the scoreboard of the pool under a spin lock, which a worker that dies  *)
(* inside never gives back (lock).                                         *)
(*                                                                         *)
(* Abstracted: time (a timer that is set may fire at any later moment),    *)
(* the age of a worker (the oldest idle one is any idle one), statistics   *)
(* and log messages.                                                       *)
(***************************************************************************)
EXTENDS Naturals, Sequences, FiniteSets

CONSTANTS Pools,            \* the worker pools
          Pids,             \* process ids
          pm,               \* pm[p]: "static", "dynamic" or "ondemand"
          pm_max_children, pm_start_servers,
          pm_min_spare_servers, pm_max_spare_servers,
          process_max,      \* 0: no limit
          FPM_MAX_SPAWN_RATE,
          TerminateTimeout, \* request_terminate_timeout is set
          EmergencyRestart, \* emergency_restart_threshold is set
          Signals,          \* what the administrator may send to the master
          MaxSignals, MaxConns, MaxFaults   \* bounds on the environment

Styles == {"static", "dynamic", "ondemand"}

\* What fpm_conf_process_all_pools() accepts: at least one pool, positive limits, and a
\* dynamic pool that does not start with more than pm.max_children.
ASSUME PoolAssumption ==
  /\ Pools # {}
  /\ pm \in [Pools -> Styles]
  /\ pm_max_children \in [Pools -> Nat \ {0}]
  /\ \A f \in {pm_start_servers, pm_min_spare_servers, pm_max_spare_servers} :
        f \in [Pools -> Nat]
  /\ \A p \in Pools :
        pm[p] = "dynamic" => pm_start_servers[p] <= pm_max_children[p]
ASSUME NumberAssumption ==
  /\ process_max \in Nat /\ FPM_MAX_SPAWN_RATE \in Nat \ {0}
  /\ TerminateTimeout \in BOOLEAN /\ EmergencyRestart \in BOOLEAN
  /\ Signals \subseteq {"TERM", "QUIT", "USR2"}
  /\ MaxSignals \in Nat /\ MaxConns \in Nat /\ MaxFaults \in Nat

VARIABLES
  fpm_state, fpm_signal_sent,
  pctl_event,            \* the escalation timer is in the queue
  pipe,                  \* bytes written by the signal handler of the master
  mpc,                   \* which callback the master is in, and where
  pools, wp, todo, seen, \* locals of a loop over pools and children
  max, ret,              \* locals of fpm_children_make(), its caller
  children,              \* struct fpm_child_s: the linked ones and ...
  child_wp, scoreboard_i, idle_kill,    \* ... their fields
  running, running_children, idle_spawn_rate,
  procs, free_proc,      \* the scoreboards, in shared memory
  lock,                  \* the spin lock of a scoreboard, held by a dead worker
  cpc, in_shutdown, pending, status,    \* the worker processes
  backlog, edge,         \* listening sockets, their edge-triggered events
  sent, conns, faults

pctl  == <<fpm_state, fpm_signal_sent, pctl_event>>
local == <<pools, wp, todo, seen>>
make  == <<max, ret>>
child == <<children, child_wp, scoreboard_i>>
count == <<running, running_children>>
board == <<procs, free_proc, lock>>
os    == <<cpc, in_shutdown, pending, status>>
net   == <<backlog, edge>>
env   == <<sent, conns, faults>>
vars  == <<pctl, pipe, mpc, local, make, child, idle_kill, count,
           idle_spawn_rate, board, os, net, env>>

States == {"NORMAL", "RELOADING", "FINISHING", "TERMINATING"}
MasterPCs == {"start", "wait", "signals", "bury", "make", "pool", "scan",
              "ascan", "spin", "gone"}
Live == {"init", "loop", "update", "accept", "taken", "busy"}

Index(p) == 0 .. pm_max_children[p] - 1
\* A slot of the scoreboard: unused, used by a worker that has not come to its
\* first accept(), or the stage of its request (BUSY: from the headers to the end).
Slots == {"free", "new", "ACCEPTING", "BUSY", "FINISHED"}

Alive == {c \in Pids : cpc[c] \in Live}
Zombies == {c \in Pids : cpc[c] = "zombie"}
ChildrenOf(p) == {c \in children : child_wp[c] = p}
Min(a, b) == IF a <= b THEN a ELSE b

AnyPool == CHOOSE p \in Pools : TRUE
FreshBoard == [p \in Pools |-> [i \in Index(p) |-> "free"]]

Init ==
  /\ fpm_state = "NORMAL" /\ fpm_signal_sent = "none" /\ pctl_event = FALSE
  /\ pipe = <<>> /\ mpc = "start"
  /\ pools = Pools /\ wp = AnyPool /\ todo = {} /\ seen = {}
  /\ max = 0 /\ ret = "wait"
  /\ children = {} /\ child_wp = [c \in Pids |-> AnyPool]
  /\ scoreboard_i = [c \in Pids |-> 0] /\ idle_kill = [c \in Pids |-> FALSE]
  /\ running = [p \in Pools |-> 0] /\ running_children = 0
  /\ idle_spawn_rate = [p \in Pools |-> 1]
  /\ procs = FreshBoard /\ free_proc = [p \in Pools |-> 0]
  /\ lock = [p \in Pools |-> FALSE]
  /\ cpc = [c \in Pids |-> "free"] /\ in_shutdown = [c \in Pids |-> FALSE]
  /\ pending = [c \in Pids |-> {}] /\ status = [c \in Pids |-> "exited"]
  /\ backlog = [p \in Pools |-> 0] /\ edge = [p \in Pools |-> FALSE]
  /\ sent = 0 /\ conns = 0 /\ faults = 0

(***************************************************************************)
(* fpm_pctl(): the state machine of reload and shutdown.                   *)
(***************************************************************************)
KillAll(s) ==
  pending' = [c \in Pids |-> IF c \in children /\ cpc[c] \in Live
                             THEN pending[c] \cup {s} ELSE pending[c]]

\* fpm_pctl_action_last(): the master execs itself (or fails to) or exits.  Its
\* memory and the signal pipe are gone; the sockets are inherited.
fpm_pctl_action_last(state) ==
  /\ \/ /\ state = "RELOADING" /\ mpc' = "start"
        /\ fpm_state' = "NORMAL" /\ pools' = Pools
     \/ mpc' = "gone" /\ fpm_state' = state /\ pools' = {}
  /\ fpm_signal_sent' = "none" /\ pctl_event' = FALSE /\ pipe' = <<>>
  /\ wp' = AnyPool /\ todo' = {} /\ seen' = {} /\ max' = 0 /\ ret' = "wait"
  /\ children' = {} /\ child_wp' = [c \in Pids |-> AnyPool]
  /\ scoreboard_i' = [c \in Pids |-> 0]
  /\ idle_kill' = [c \in Pids |-> FALSE]
  /\ running' = [p \in Pools |-> 0] /\ running_children' = 0
  /\ idle_spawn_rate' = [p \in Pools |-> 1]
  /\ procs' = FreshBoard /\ free_proc' = [p \in Pools |-> 0]
  /\ lock' = [p \in Pools |-> FALSE]

\* The states that new may override, when it is not a duplicate.
Overrides(new) ==
  \/ fpm_state = "NORMAL"
  \/ fpm_state = "RELOADING" /\ new \in {"FINISHING", "TERMINATING"}
  \/ fpm_state = "FINISHING" /\ new = "TERMINATING"

\* Faulty variant: the escalation stops at SIGTERM.
NeverKill(signal) == "TERM"

FirstSignal(state) == IF state = "TERMINATING" THEN "TERM" ELSE "QUIT"
NextSignal(signal) == IF signal = "QUIT" THEN "TERM" ELSE "KILL"

\* fpm_pctl(new, FPM_PCTL_ACTION_SET) with children left, or ignored.
fpm_pctl(new) ==
  IF Overrides(new)
  THEN /\ fpm_state' = new /\ fpm_signal_sent' = FirstSignal(new)
       /\ pctl_event' = TRUE
       /\ KillAll(FirstSignal(new))
  ELSE UNCHANGED <<pctl, pending>>

\* The timer fires at the end of an iteration of the event loop.  Its callback
\* re-arms pctl_event, which fpm_event_queue_add() ignores because the event is
\* still in the queue; then fpm_event_loop() deletes it from the queue.
PctlTimeout ==
  /\ mpc = "wait" /\ pctl_event
  /\ IF running_children = 0
     THEN fpm_pctl_action_last(fpm_state) /\ UNCHANGED os
     ELSE /\ fpm_signal_sent' = NextSignal(fpm_signal_sent)
          /\ KillAll(NextSignal(fpm_signal_sent))
          /\ pctl_event' = FALSE
          /\ UNCHANGED <<fpm_state, pipe, mpc, local, make, child, idle_kill,
                         count, idle_spawn_rate, board, cpc, in_shutdown,
                         status>>
  /\ UNCHANGED <<net, env>>

(***************************************************************************)
(* fpm_got_signal(): the signal pipe, first in first out.                  *)
(***************************************************************************)
StateFor(signal) == [TERM |-> "TERMINATING", QUIT |-> "FINISHING",
                     USR2 |-> "RELOADING"][signal]

SignalsReady ==
  /\ mpc = "wait" /\ pipe # <<>>
  /\ mpc' = "signals"
  /\ UNCHANGED <<pctl, pipe, local, make, child, idle_kill, count,
                 idle_spawn_rate, board, os, net, env>>

SignalsDone ==
  /\ mpc = "signals" /\ pipe = <<>>
  /\ mpc' = "wait"
  /\ UNCHANGED <<pctl, pipe, local, make, child, idle_kill, count,
                 idle_spawn_rate, board, os, net, env>>

\* A stop or reload signal; without children the master leaves at once.
fpm_got_signal ==
  /\ mpc = "signals" /\ pipe # <<>> /\ Head(pipe) # "CHLD"
  /\ LET new == StateFor(Head(pipe)) IN
     IF Overrides(new) /\ running_children = 0
     THEN fpm_pctl_action_last(new) /\ UNCHANGED os
     ELSE /\ fpm_pctl(new)
          /\ pipe' = Tail(pipe)
          /\ UNCHANGED <<mpc, local, make, child, idle_kill, count,
                         idle_spawn_rate, board, cpc, in_shutdown, status>>
  /\ UNCHANGED <<net, env>>

GotSigchld ==
  /\ mpc = "signals" /\ pipe # <<>> /\ Head(pipe) = "CHLD"
  /\ pipe' = Tail(pipe) /\ mpc' = "bury"
  /\ UNCHANGED <<pctl, local, make, child, idle_kill, count,
                 idle_spawn_rate, board, os, net, env>>

(***************************************************************************)
(* fpm_children_bury(): one iteration per waitpid().                       *)
(***************************************************************************)
\* A worker that the idle maintenance has stopped is not replaced.
RestartChild(c) == ~(idle_kill[c] /\ status[c] \in {"exited", "QUIT"})

\* The process is reaped.
Reap(c) == /\ cpc' = [cpc EXCEPT ![c] = "free"]
           /\ status' = [status EXCEPT ![c] = "exited"]
           /\ in_shutdown' = [in_shutdown EXCEPT ![c] = FALSE]

\* Faulty variant: the slot is not cleared.
HintOnly(p, i) ==
  /\ free_proc' = [free_proc EXCEPT ![p] = i]
  /\ UNCHANGED <<procs, lock>>

fpm_scoreboard_proc_free(p, i) ==
  /\ procs' = [procs EXCEPT ![p][i] = "free"]
  /\ free_proc' = [free_proc EXCEPT ![p] = i]
  /\ UNCHANGED lock

fpm_child_unlink(c) ==
  /\ children' = children \ {c}
  /\ child_wp' = [child_wp EXCEPT ![c] = AnyPool]
  /\ scoreboard_i' = [scoreboard_i EXCEPT ![c] = 0]
  /\ idle_kill' = [idle_kill EXCEPT ![c] = FALSE]
  /\ running' = [running EXCEPT ![child_wp[c]] = @ - 1]
  /\ running_children' = running_children - 1

\* More than the threshold of faults in the interval: see FpmFaults.
MayReload(c) == EmergencyRestart /\ status[c] = "SEGV"

\* Faulty variant: the last worker of its pool, not of all pools.
BuryLastOfPool(c) ==
  /\ mpc = "bury" /\ cpc[c] = "zombie" /\ running[child_wp[c]] = 1
  /\ fpm_state # "NORMAL" /\ fpm_pctl_action_last(fpm_state)
  /\ Reap(c)
  /\ UNCHANGED <<pending, net, env>>

BuryLast(c) ==
  /\ mpc = "bury" /\ cpc[c] = "zombie" /\ running_children = 1
  /\ \/ fpm_state # "NORMAL" /\ fpm_pctl_action_last(fpm_state)
     \/ /\ fpm_state = "NORMAL" /\ MayReload(c)
        /\ fpm_pctl_action_last("RELOADING")
  /\ Reap(c)
  /\ UNCHANGED <<pending, net, env>>

\* Faulty variant: the count is taken before the worker is unlinked.
RefillStale(p, n) == IF pm[p] = "static" THEN pm_max_children[p] ELSE n + 2

\* How many workers the pool of c is to have: fpm_children_make(wp, 1, 1, 0).
Refill(p, n) == IF pm[p] = "static" THEN pm_max_children[p] ELSE n + 1

fpm_children_bury(c) ==
  /\ mpc = "bury" /\ cpc[c] = "zombie"
  /\ fpm_state = "NORMAL" \/ running_children > 1
  /\ Reap(c)
  /\ fpm_child_unlink(c)
  /\ fpm_scoreboard_proc_free(child_wp[c], scoreboard_i[c])
  /\ \/ UNCHANGED <<pctl, pending>>
     \/ MayReload(c) /\ running_children > 1 /\ fpm_pctl("RELOADING")
  /\ IF RestartChild(c)
     THEN /\ mpc' = "make" /\ ret' = "bury" /\ wp' = child_wp[c]
          /\ max' = Refill(child_wp[c], running[child_wp[c]] - 1)
     ELSE UNCHANGED <<mpc, make, wp>>
  /\ UNCHANGED <<pipe, pools, todo, seen, idle_spawn_rate, net, env>>

\* Faulty variant: one waitpid() for each SIGCHLD.
BuryOnce ==
  /\ mpc = "bury"
  /\ mpc' = "signals"
  /\ UNCHANGED <<pctl, pipe, local, make, child, idle_kill, count,
                 idle_spawn_rate, board, os, net, env>>

BuryDone ==
  /\ mpc = "bury" /\ Zombies = {}
  /\ mpc' = "signals"
  /\ UNCHANGED <<pctl, pipe, local, make, child, idle_kill, count,
                 idle_spawn_rate, board, os, net, env>>

(***************************************************************************)
(* fpm_children_make(): forks until the pool has max workers.              *)
(***************************************************************************)
\* Faulty variant: only the limit of the pool.
CanForkInPool == fpm_state = "NORMAL" /\ running[wp] < max

\* Faulty variant: also while the master is stopping.
CanForkStopping ==
  running[wp] < max /\ (process_max < 1 \/ running_children < process_max)

CanFork ==
  /\ fpm_state = "NORMAL"
  /\ running[wp] < max
  /\ process_max < 1 \/ running_children < process_max

\* fpm_scoreboard_proc_alloc(): the slot supposed to be free, or else the first.
FreeSlots(p) == {i \in Index(p) : procs[p][i] = "free"}
fpm_scoreboard_proc_alloc(p) ==
  IF free_proc[p] \in FreeSlots(p) THEN free_proc[p]
  ELSE CHOOSE i \in FreeSlots(p) : \A j \in FreeSlots(p) : i <= j
NextHint(p, i) == IF i + 1 >= pm_max_children[p] THEN 0 ELSE i + 1

fpm_child_link(c, i) ==
  /\ children' = children \cup {c}
  /\ child_wp' = [child_wp EXCEPT ![c] = wp]
  /\ scoreboard_i' = [scoreboard_i EXCEPT ![c] = i]
  /\ running' = [running EXCEPT ![wp] = @ + 1]
  /\ running_children' = running_children + 1

\* Faulty variant: the slot still has the stage of its last user.
ForkStale(c) ==
  /\ mpc = "make" /\ CanFork /\ FreeSlots(wp) # {} /\ cpc[c] = "free"
  /\ LET i == fpm_scoreboard_proc_alloc(wp) IN
     /\ procs' = [procs EXCEPT ![wp][i] = "ACCEPTING"]
     /\ free_proc' = [free_proc EXCEPT ![wp] = NextHint(wp, i)]
     /\ fpm_child_link(c, i)
  /\ cpc' = [cpc EXCEPT ![c] = "init"]
  /\ UNCHANGED <<pctl, pipe, mpc, local, make, idle_kill, idle_spawn_rate,
                 lock, in_shutdown, pending, status, net, env>>

\* The new process has the signal handlers of the master.
Fork(c) ==
  /\ mpc = "make" /\ CanFork /\ FreeSlots(wp) # {} /\ cpc[c] = "free"
  /\ LET i == fpm_scoreboard_proc_alloc(wp) IN
     /\ procs' = [procs EXCEPT ![wp][i] = "new"]
     /\ free_proc' = [free_proc EXCEPT ![wp] = NextHint(wp, i)]
     /\ fpm_child_link(c, i)
  /\ cpc' = [cpc EXCEPT ![c] = "init"]
  /\ UNCHANGED <<pctl, pipe, mpc, local, make, idle_kill, idle_spawn_rate,
                 lock, in_shutdown, pending, status, net, env>>

MakeDone ==
  /\ mpc = "make" /\ ~CanFork
  /\ mpc' = ret /\ max' = 0 /\ ret' = "wait"
  /\ UNCHANGED <<pctl, pipe, local, child, idle_kill, count, idle_spawn_rate,
                 board, os, net, env>>

\* The pipes fail, or fork() does and the slot is given back.  (That no slot is
\* free is the third reason of the code: by SlotsExact it cannot happen.)
MakeFails ==
  /\ mpc = "make" /\ CanFork /\ faults < MaxFaults
  /\ faults' = faults + 1

\* In the event loop the result is ignored.
RefillFails ==
  /\ MakeFails /\ ret # "start"
  /\ mpc' = ret /\ max' = 0 /\ ret' = "wait"
  /\ free_proc' \in {free_proc, [free_proc EXCEPT ![wp] =
                                      fpm_scoreboard_proc_alloc(wp)]}
  /\ UNCHANGED <<pctl, pipe, local, child, idle_kill, count, idle_spawn_rate,
                 procs, lock, os, net, sent, conns>>

(***************************************************************************)
(* fpm_run(): the initial workers of each pool, then the event loop.       *)
(***************************************************************************)
\* With an idle socket the edge comes with the first connection; with one that
\* has a backlog, epoll reports it when the event is added.
StartOndemand(p) ==
  /\ mpc = "start" /\ p \in pools /\ pm[p] = "ondemand"
  /\ pools' = pools \ {p}
  /\ edge' = [edge EXCEPT ![p] = backlog[p] > 0]
  /\ UNCHANGED <<pctl, pipe, mpc, wp, todo, seen, make, child, idle_kill, count,
                 idle_spawn_rate, board, os, backlog, env>>

fpm_children_create_initial(p) ==
  /\ mpc = "start" /\ p \in pools /\ pm[p] # "ondemand"
  /\ pools' = pools \ {p} /\ wp' = p
  /\ mpc' = "make" /\ ret' = "start"
  /\ max' = IF pm[p] = "dynamic" THEN pm_start_servers[p]
            ELSE pm_max_children[p]
  /\ UNCHANGED <<pctl, pipe, todo, seen, child, idle_kill, count,
                 idle_spawn_rate, board, os, net, env>>

StartDone ==
  /\ mpc = "start" /\ pools = {}
  /\ mpc' = "wait"
  /\ UNCHANGED <<pctl, pipe, local, make, child, idle_kill, count,
                 idle_spawn_rate, board, os, net, env>>

\* A failure before the event loop: stop the workers that were started.
StartFails ==
  /\ MakeFails /\ ret = "start"
  /\ IF running_children = 0
     THEN fpm_pctl_action_last("TERMINATING") /\ UNCHANGED os
     ELSE /\ fpm_pctl("TERMINATING")
          /\ mpc' = "wait" /\ max' = 0 /\ ret' = "wait" /\ pools' = {}
          /\ UNCHANGED <<pipe, wp, todo, seen, child, idle_kill, count,
                         idle_spawn_rate, board, cpc, in_shutdown, status>>
  /\ UNCHANGED <<net, sent, conns>>

(***************************************************************************)
(* fpm_pctl_perform_idle_server_maintenance(), a periodic timer: counts    *)
(* the idle workers of each pool, one unlocked read after the other.       *)
(***************************************************************************)
fpm_request_is_idle(c) == procs[child_wp[c]][scoreboard_i[c]] = "ACCEPTING"

MaintenanceHeartbeat ==
  /\ mpc = "wait" /\ fpm_state = "NORMAL"
  /\ mpc' = "pool" /\ pools' = Pools
  /\ UNCHANGED <<pctl, pipe, wp, todo, seen, make, child, idle_kill, count,
                 idle_spawn_rate, board, os, net, env>>

NextPool(p) ==
  /\ mpc = "pool" /\ p \in pools
  /\ pools' = pools \ {p} /\ wp' = p
  /\ mpc' = "scan" /\ todo' = ChildrenOf(p) /\ seen' = {}
  /\ UNCHANGED <<pctl, pipe, make, child, idle_kill, count, idle_spawn_rate,
                 board, os, net, env>>

MaintenanceDone ==
  /\ mpc = "pool" /\ pools = {}
  /\ mpc' = "wait"
  /\ UNCHANGED <<pctl, pipe, local, make, child, idle_kill, count,
                 idle_spawn_rate, board, os, net, env>>

ReadStage(c) ==
  /\ mpc = "scan" /\ c \in todo
  /\ todo' = todo \ {c}
  /\ seen' = IF fpm_request_is_idle(c) THEN seen \cup {c} ELSE seen
  /\ UNCHANGED <<pctl, pipe, mpc, pools, wp, make, child, idle_kill, count,
                 idle_spawn_rate, board, os, net, env>>

\* The pool has been counted and fpm_scoreboard_update() has written the numbers, once
\* it had the lock.
AllRead == mpc = "scan" /\ todo = {} /\ seen' = {} /\ UNCHANGED todo
Scanned == AllRead /\ ~lock[wp]

\* fpm_spinlock() waits without an end for a lock whose holder is dead, and nothing
\* but a new master clears it.
MaintenanceSpins ==
  /\ AllRead /\ lock[wp]
  /\ mpc' = "spin"
  /\ UNCHANGED <<pctl, pipe, pools, wp, make, child, idle_kill, count,
                 idle_spawn_rate, board, os, net, env>>

\* last_idle_child: idle longer than pm.process_idle_timeout, or one too many.
IdleKill(c) ==
  /\ Scanned /\ c \in seen
  /\ \/ pm[wp] = "ondemand" /\ UNCHANGED idle_spawn_rate
     \/ /\ pm[wp] = "dynamic" /\ Cardinality(seen) > pm_max_spare_servers[wp]
        /\ idle_spawn_rate' = [idle_spawn_rate EXCEPT ![wp] = 1]
  /\ idle_kill' = [idle_kill EXCEPT ![c] = TRUE]
  /\ pending' = [pending EXCEPT ![c] = IF cpc[c] \in Live
                                       THEN @ \cup {"QUIT"} ELSE @]
  /\ mpc' = "pool"
  /\ UNCHANGED <<pctl, pipe, pools, wp, make, child, count, board, cpc,
                 in_shutdown, status, net, env>>

\* Faulty variant: the pool never grows again.
NeverFew == FALSE

FewSpare == /\ pm[wp] = "dynamic"
            /\ Cardinality(seen) < pm_min_spare_servers[wp]
            /\ Cardinality(seen) <= pm_max_spare_servers[wp]

ChildrenToFork ==
  Min(Min(idle_spawn_rate[wp], pm_min_spare_servers[wp] - Cardinality(seen)),
      pm_max_children[wp] - running[wp])

SpawnSpare ==
  /\ Scanned /\ FewSpare /\ running[wp] < pm_max_children[wp]
  /\ mpc' = "make" /\ ret' = "pool" /\ max' = running[wp] + ChildrenToFork
  /\ idle_spawn_rate' =
       [idle_spawn_rate EXCEPT ![wp] = IF @ < FPM_MAX_SPAWN_RATE THEN 2 * @
                                       ELSE @]
  /\ UNCHANGED <<pctl, pipe, pools, wp, child, idle_kill, count, board, os, net,
                 env>>

NothingToDo ==
  /\ Scanned
  /\ \/ pm[wp] \in {"static", "ondemand"} /\ UNCHANGED idle_spawn_rate
     \/ /\ pm[wp] = "dynamic"
        /\ Cardinality(seen) <= pm_max_spare_servers[wp]
        /\ ~(FewSpare /\ running[wp] < pm_max_children[wp])
        /\ idle_spawn_rate' = [idle_spawn_rate EXCEPT ![wp] = 1]
  /\ mpc' = "pool"
  /\ UNCHANGED <<pctl, pipe, pools, wp, make, child, idle_kill, count, board, os,
                 net, env>>

\* fpm_pctl_heartbeat(), in every state: a request that takes too long.
RequestTimeout(c) ==
  /\ mpc = "wait" /\ TerminateTimeout /\ c \in children
  /\ procs[child_wp[c]][scoreboard_i[c]] = "BUSY"
  /\ pending' = [pending EXCEPT ![c] = IF cpc[c] \in Live
                                       THEN @ \cup {"TERM"} ELSE @]
  /\ UNCHANGED <<pctl, pipe, mpc, local, make, child, idle_kill, count,
                 idle_spawn_rate, board, cpc, in_shutdown, status, net, env>>

(***************************************************************************)
(* fpm_pctl_on_socket_accept(), pm = ondemand: an edge of the socket.      *)
(***************************************************************************)
\* That pm.max_children is reached is counted once, under the lock.
SocketReady(p) ==
  /\ mpc = "wait" /\ edge[p]
  /\ edge' = [edge EXCEPT ![p] = FALSE]
  /\ IF running[p] >= pm_max_children[p]
     THEN /\ mpc' = mpc \/ (lock[p] /\ mpc' = "spin")
          /\ UNCHANGED <<wp, todo>>
     ELSE mpc' = "ascan" /\ wp' = p /\ todo' = ChildrenOf(p)
  /\ UNCHANGED <<pctl, pipe, pools, seen, make, child, idle_kill, count,
                 idle_spawn_rate, board, os, backlog, env>>

\* Stops at the first idle worker: it will handle the connection.
AcceptReadStage(c) ==
  /\ mpc = "ascan" /\ c \in todo
  /\ IF fpm_request_is_idle(c)
     THEN mpc' = "wait" /\ todo' = {}
     ELSE mpc' = mpc /\ todo' = todo \ {c}
  /\ UNCHANGED <<pctl, pipe, pools, wp, seen, make, child, idle_kill, count,
                 idle_spawn_rate, board, os, net, env>>

AcceptFork ==
  /\ mpc = "ascan" /\ todo = {}
  /\ mpc' = "make" /\ ret' = "wait" /\ max' = running[wp] + 1
  /\ UNCHANGED <<pctl, pipe, local, child, idle_kill, count, idle_spawn_rate,
                 board, os, net, env>>

(***************************************************************************)
(* A worker: fpm_child_init(), then the loop around fcgi_accept_request(). *)
(***************************************************************************)
master == <<pctl, mpc, local, make, child, idle_kill, count, idle_spawn_rate>>

\* Several children may die before the master reads the pipe: one byte will do,
\* because fpm_children_bury() reaps them all.
Sigchld == pipe' = IF \E i \in 1 .. Len(pipe) : pipe[i] = "CHLD" THEN pipe
                   ELSE Append(pipe, "CHLD")

Dies(c, how) ==
  /\ cpc' = [cpc EXCEPT ![c] = "zombie"]
  /\ status' = [status EXCEPT ![c] = how]
  /\ pending' = [pending EXCEPT ![c] = {}]
  /\ Sigchld
  /\ UNCHANGED in_shutdown

\* fpm_scoreboard_update() is left with the lock set.
DropsLock(c) ==
  \/ UNCHANGED lock
  \/ cpc[c] = "update" /\ lock' = [lock EXCEPT ![child_wp[c]] = TRUE]

SetStage(c, stage) ==
  procs' = [procs EXCEPT ![child_wp[c]][scoreboard_i[c]] = stage]

Moves(c, from, to) ==
  /\ cpc[c] = from /\ cpc' = [cpc EXCEPT ![c] = to]
  /\ UNCHANGED <<master, pipe, free_proc, lock, in_shutdown, pending, status, env>>

\* fpm_signals_init_child() has installed the handlers of a worker.
fpm_child_init(c) == Moves(c, "init", "loop") /\ UNCHANGED <<procs, net>>

\* fpm_request_accepting() up to fpm_scoreboard_update(); the test of in_shutdown
\* comes before it.
Accepting(c) ==
  /\ ~in_shutdown[c] /\ Moves(c, "loop", "update")
  /\ SetStage(c, "ACCEPTING") /\ UNCHANGED net

\* Both stages end with fpm_scoreboard_update(): the lock is taken, which takes a
\* while when others have it and forever when a dead worker has it, and given back.
fpm_scoreboard_update(c) ==
  /\ ~lock[child_wp[c]]
  /\ Moves(c, "update", IF fpm_request_is_idle(c) THEN "accept" ELSE "busy")
  /\ UNCHANGED <<procs, net>>

\* sig_soft_quit() has closed the socket that accept() waits on.
Accept(c) ==
  /\ ~in_shutdown[c] /\ Moves(c, "accept", "taken")
  /\ backlog[child_wp[c]] > 0
  /\ backlog' = [backlog EXCEPT ![child_wp[c]] = @ - 1]
  /\ UNCHANGED <<procs, edge>>

\* From here to the end of the request the worker does not look at in_shutdown.
fpm_request_reading_headers(c) ==
  /\ Moves(c, "taken", "update") /\ SetStage(c, "BUSY") /\ UNCHANGED net

fpm_request_finished(c) ==
  /\ Moves(c, "busy", "loop") /\ SetStage(c, "FINISHED") /\ UNCHANGED net

\* Told to stop and out of work; or max_requests is reached.
Exit(c) ==
  /\ \/ cpc[c] \in {"loop", "accept"} /\ in_shutdown[c]
     \/ /\ cpc[c] = "loop"
        /\ procs[child_wp[c]][scoreboard_i[c]] = "FINISHED"
  /\ Dies(c, "exited")
  /\ UNCHANGED <<master, board, net, env>>

\* Until it has its own handlers, the handler of the master drops the signal.
Deliver(c, s) ==
  /\ s \in pending[c]
  /\ IF s = "KILL" \/ (s = "TERM" /\ cpc[c] # "init")
     THEN Dies(c, s) /\ DropsLock(c)
     ELSE /\ pending' = [pending EXCEPT ![c] = @ \ {s}]
          /\ in_shutdown' = [in_shutdown EXCEPT ![c] =
                                 @ \/ (s = "QUIT" /\ cpc[c] # "init")]
          /\ UNCHANGED <<cpc, status, pipe, lock>>
  /\ UNCHANGED <<master, procs, free_proc, net, env>>

\* A crash, or a failed initialisation.
Crash(c) ==
  /\ cpc[c] \in Live /\ faults < MaxFaults /\ faults' = faults + 1
  /\ \E how \in {"SEGV", "exited"} : Dies(c, how)
  /\ DropsLock(c)
  /\ UNCHANGED <<master, procs, free_proc, net, sent, conns>>

(***************************************************************************)
(* The administrator and the clients.                                      *)
(***************************************************************************)
SendSignal(s) ==
  /\ mpc # "gone" /\ sent < MaxSignals /\ sent' = sent + 1
  /\ pipe' = Append(pipe, s)
  /\ UNCHANGED <<master, board, os, net, conns, faults>>

Connect(p) ==
  /\ mpc # "gone" /\ conns < MaxConns /\ conns' = conns + 1
  /\ backlog' = [backlog EXCEPT ![p] = @ + 1]
  /\ edge' = [edge EXCEPT ![p] = pm[p] = "ondemand"]
  /\ UNCHANGED <<master, pipe, board, os, sent, faults>>

\* The event loop waits, or the master has exited, or it waits for a lock.  Anywhere
\* else there is always a step to take.
Idle == mpc \in {"wait", "spin", "gone"} /\ UNCHANGED vars

Master ==
  \/ PctlTimeout \/ SignalsReady \/ SignalsDone \/ fpm_got_signal \/ GotSigchld
  \/ BuryDone \/ MakeDone \/ RefillFails \/ StartDone \/ StartFails
  \/ MaintenanceHeartbeat \/ MaintenanceDone \/ SpawnSpare \/ NothingToDo
  \/ MaintenanceSpins \/ AcceptFork
  \/ \E p \in Pools : \/ StartOndemand(p) \/ fpm_children_create_initial(p)
                      \/ NextPool(p) \/ SocketReady(p)
  \/ \E c \in Pids : \/ BuryLast(c) \/ fpm_children_bury(c) \/ Fork(c)
                     \/ ReadStage(c) \/ IdleKill(c) \/ RequestTimeout(c)
                     \/ AcceptReadStage(c)

Worker(c) ==
  \/ fpm_child_init(c) \/ Accepting(c) \/ fpm_scoreboard_update(c) \/ Accept(c)
  \/ fpm_request_reading_headers(c) \/ fpm_request_finished(c) \/ Exit(c)
  \/ Crash(c) \/ \E s \in {"QUIT", "TERM", "KILL"} : Deliver(c, s)

Next ==
  \/ Master
  \/ \E c \in Pids : Worker(c)
  \/ \E s \in Signals : SendSignal(s)
  \/ \E p \in Pools : Connect(p)
  \/ Idle

Spec == Init /\ [][Next]_vars

(***************************************************************************)
(* Fairness: the event loop serves every event that stays ready, also when *)
(* other events keep it busy (SF); a callback runs to its end or into a    *)
(* lock that a dead worker holds; a worker goes on, unless it waits for    *)
(* such a lock (a live holder gives it back), its requests end and signals *)
(* reach it.                                                               *)
(***************************************************************************)
Callback ==
  \/ SignalsDone \/ fpm_got_signal \/ GotSigchld \/ BuryDone \/ MakeDone
  \/ StartDone \/ MaintenanceDone \/ SpawnSpare \/ NothingToDo \/ MaintenanceSpins
  \/ AcceptFork
  \/ \E p \in Pools : \/ StartOndemand(p) \/ fpm_children_create_initial(p)
                      \/ NextPool(p)
  \/ \E c \in Pids : \/ BuryLast(c) \/ fpm_children_bury(c) \/ Fork(c)
                     \/ ReadStage(c) \/ IdleKill(c) \/ AcceptReadStage(c)

Works(c) ==
  \/ fpm_child_init(c) \/ Accepting(c) \/ fpm_scoreboard_update(c)
  \/ fpm_request_reading_headers(c) \/ fpm_request_finished(c) \/ Exit(c)

Fairness ==
  /\ WF_vars(Callback)
  /\ SF_vars(SignalsReady) /\ SF_vars(PctlTimeout)
  /\ SF_vars(MaintenanceHeartbeat)
  /\ \A p \in Pools : SF_vars(SocketReady(p))
  /\ \A p \in Pools : SF_vars(\E c \in Pids : child_wp[c] = p /\ Accept(c))
  /\ \A c \in Pids : /\ WF_vars(Works(c))
                     /\ \A s \in {"QUIT", "TERM", "KILL"} : WF_vars(Deliver(c, s))

FairSpec == Spec /\ Fairness

(***************************************************************************)
(* Properties.                                                             *)
(***************************************************************************)
\* Every variable has its type.
TypeOK ==
  /\ fpm_state \in States /\ fpm_signal_sent \in {"none", "QUIT", "TERM", "KILL"}
  /\ pctl_event \in BOOLEAN
  /\ pipe \in Seq({"CHLD", "TERM", "QUIT", "USR2"})
  /\ mpc \in MasterPCs /\ ret \in {"wait", "bury", "pool", "start"}
  /\ pools \subseteq Pools /\ wp \in Pools
  /\ todo \subseteq Pids /\ seen \subseteq Pids
  /\ max \in Nat
  /\ children \subseteq Pids /\ child_wp \in [Pids -> Pools]
  /\ scoreboard_i \in [Pids -> Nat] /\ idle_kill \in [Pids -> BOOLEAN]
  /\ running \in [Pools -> Nat] /\ running_children \in Nat
  /\ idle_spawn_rate \in [Pools -> Nat \ {0}]
  /\ DOMAIN procs = Pools /\ \A p \in Pools : procs[p] \in [Index(p) -> Slots]
  /\ free_proc \in [Pools -> Nat] /\ lock \in [Pools -> BOOLEAN]
  /\ cpc \in [Pids -> Live \cup {"free", "zombie"}]
  /\ in_shutdown \in [Pids -> BOOLEAN]
  /\ pending \in [Pids -> SUBSET {"QUIT", "TERM", "KILL"}]
  /\ status \in [Pids -> {"exited", "QUIT", "TERM", "KILL", "SEGV"}]
  /\ backlog \in [Pools -> Nat] /\ edge \in [Pools -> BOOLEAN]
  /\ sent \in Nat /\ conns \in Nat /\ faults \in Nat

\* The master knows every process it has forked and not reaped: waitpid() never
\* returns an unknown child ("oops"), and when the master has exited, or started
\* anew by exec, no worker and no zombie of the old one is left.
NoOrphans == \A c \in Pids : cpc[c] # "free" <=> c \in children

\* The slots in use are those of the children, one each: two workers never write
\* to the same slot and none leaks, over crashes, failed forks and recycling of
\* the free_proc hint.
SlotsExact ==
  \A p \in Pools :
    /\ {i \in Index(p) : procs[p][i] # "free"} =
         {scoreboard_i[c] : c \in ChildrenOf(p)}
    /\ \A c, d \in ChildrenOf(p) : scoreboard_i[c] = scoreboard_i[d] => c = d

\* pm.max_children and process.max hold at every moment, although the workers
\* that replace dead ones are forked without a look at the limit of the pool.
WithinLimits ==
  /\ \A p \in Pools : Cardinality(ChildrenOf(p)) <= pm_max_children[p]
  /\ process_max > 0 => Cardinality(children) <= process_max

\* fpm_children_make() never runs into "no free scoreboard slot": its target, in
\* each of its four callers, stays within the slots that are not in use.
SlotForEveryFork == (mpc = "make" /\ CanFork) => FreeSlots(wp) # {}

\* A worker marked idle_kill, which will not be replaced, has heard its SIGQUIT
\* or will: the signal never falls into the time before it has its handler.
IdleKillHeard ==
  \A c \in children : idle_kill[c] => \/ "QUIT" \in pending[c] \/ in_shutdown[c]
                                       \/ cpc[c] = "zombie"

\* No death goes unnoticed: while there is a zombie, a SIGCHLD byte is in the pipe
\* or fpm_children_bury() will look again before it returns.
ZombieNoticed ==
  Zombies # {} => \/ \E i \in 1 .. Len(pipe) : pipe[i] = "CHLD"
                  \/ mpc = "bury" \/ (mpc = "make" /\ ret = "bury")

Rank(state) == [NORMAL |-> 0, RELOADING |-> 1, FINISHING |-> 2,
                TERMINATING |-> 3][state]

\* A stop is final: until the master is replaced by exec the state only moves to a
\* stronger one, and no worker is added once it has left NORMAL.
StopIsFinal ==
  [][(mpc' # "start" \/ mpc = "start") =>
       /\ Rank(fpm_state') >= Rank(fpm_state)
       /\ fpm_state # "NORMAL" => children' \subseteq children]_vars

\* The supervisor that the master is: its order and the workers on its list.
Mode == IF mpc = "gone" THEN "GONE" ELSE fpm_state
Team == [p \in Pools |-> ChildrenOf(p)]
Manager == INSTANCE Supervisor WITH
  Limit <- pm_max_children, TotalLimit <- process_max,
  mode <- Mode, team <- Team, alive <- Alive

\* The lists, counters, scoreboards and signals of the master implement Supervisor: no
\* callback forks beyond a limit or after an order to stop, buries a running process,
\* weakens an order, or leaves while a worker runs.
SupervisorSpec == Manager!Spec

\* A master that has taken SIGTERM exits, however busy or young its workers are, and
\* also when they wait for a lock that nobody will give back.  (The callback of an
\* ondemand socket may still wait for that lock itself.)
TerminateCompletes ==
  (\A p \in Pools : pm[p] # "ondemand") =>
    ((fpm_state = "TERMINATING") ~> (mpc = "gone"))

\* php-fpm.conf: process_control_timeout limits the time that workers may take to
\* react; so a graceful stop ends.
FinishCompletes ==
  (fpm_state = "FINISHING") ~> (mpc = "gone" \/ fpm_state = "TERMINATING")

\* Every connection is accepted by some worker, over crashes, requests that are killed
\* and workers that exit, unless the master stops or a worker dies inside
\* fpm_scoreboard_update(): then its pool, and the master, wait for the lock.
Served == \A p \in Pools :
            (backlog[p] > 0) ~> (\/ backlog[p] = 0 \/ fpm_state # "NORMAL"
                                 \/ \E q \in Pools : lock[q])
============================================================================
