# A TLA+ verification of PHP 5.6.17

This directory holds TLA+ models of parts of PHP that are hard to test: code in
which several processes, signals or re-entrant calls meet.  Each module is
translated from the C source; `PROJECT.json` maps every definition to its lines.

## The system

PHP is an interpreter (`Zend/`) with a runtime around it (`main/`), extensions
(`ext/`) and front ends (`sapi/`).  Most of it is sequential.  State that
outlives one call and is touched by more than one actor lives in few places:

| part | source | shared between |
|---|---|---|
| opcode cache | `ext/opcache` | all workers, through a shared segment and fcntl locks |
| FPM manager and scoreboard | `sapi/fpm/fpm` | the master and its children, through signals and shared memory |
| deferred signals | `Zend/zend_signal.c` | the interpreter and its signal handlers |
| cycle collector | `Zend/zend_gc.c` | the collector and the destructors it runs |
| sessions | `ext/session` | workers, through flock |
| output layer, object store, generators, INI entries, hash tables | `main/output.c`, `Zend/` | callbacks that re-enter them |

The list of all components, modelled or not, is in `PROJECT.json`.

## Modules

### OpcacheRestart and SharedCache: the restart of the opcode cache

PHP workers share a segment with the compiled scripts.  When it is full of
wasted memory a worker *schedules* a restart (`zend_accel_schedule_restart`);
a later request, at its start (`accel_activate`), finds that no worker uses the
segment and wipes it.  Three bytes of a lock file coordinate this: byte 0
(exclusive, for updates), byte 1 (shared, held by readers), byte 2 (exclusive,
held during the wipe).

One action of the module is one access to the shared words or to the lock
file, so workers interleave between any two of them.  The state is the
shared words (`restart_pending`, `restart_in_progress`, `accelerator_enabled`,
`cache_status_before_restart`, `force_restart_time`), the three bytes, and for
each worker its location `pc`, a return location `ret`, `counted`, `enabled`
and the pointer `script` it holds into the segment.  What is stored in the
segment is abstracted: an update may find it full, a lookup may succeed.
`clean` and `early` are history variables that record how byte 1 was taken and
how a script was found.

Faults: `Crash` kills a worker at any step (the kernel drops its locks and a new
worker replaces it), `Bailout` unwinds a request to its shutdown.  `MaxFaults`
bounds both.  `kill_all_lockers()` kills the holders of byte 1 after the force
timeout.

`SharedCache` is what the protocol promises: a wipe is carried out by one worker at a
time, once for each time it was asked for, and starts when no other worker is a
reader; what a reader finds is good until it lets go of it.  `OpcacheRestart` is shown
to implement it (`CacheSpec`).  The abstract readers are the workers whose byte 1 was
taken before a restart had tested it (`Readers`); the worker that is going to wipe
is the one between its test of byte 1 and the end of the wipe (`Wiping`, `Answering`);
what a worker holds is guarded, exposed or dangling by how it was found (`Held`).  What
the protocol does not promise is visible there too: a worker that enters after the
wiper was chosen is no reader, and what it finds may be wiped.

| run | shows |
|---|---|
| restart_safety | all invariants but one, 2 workers, 1 fault, unlocked `opcache_reset()` calls |
| restart_live | without `opcache_reset()` and faults: the accelerator is never left off (`AcceleratorNotLost`), `RestartHappens` under fairness, and the refinement of SharedCache |
| restart_twice | a comment of the code that does not hold, below |

Bounds: two workers are enough for a reader and a restarter, or two
restarters; a third only repeats one of the roles, and the safety theorems below
do not depend on the number.  One fault at any step covers a crash in a restart
followed by a complete restart by the other worker.

Fairness (`restart_live`): a worker that has begun an operation goes on (WF);
the kernel serves the waiters for byte 0 (SF); a request ends (SF, PHP's time
limit); some worker keeps getting requests (WF on the disjunction, so single
workers may stay idle for ever).  That the deadline of a forced restart passes is not
assumed: `RestartHappens` holds whether or not readers are killed.

### AccelStore: the scripts in the opcode cache

What OpcacheRestart leaves open, which script a lookup comes to and how the segment
fills, is the subject of this module.  Workers store under byte 0; they look up
without it, while another worker stores, and while the administrator edits the files.

| state | code |
|---|---|
| `link`, `ino`, `ver` | the file system: what each name is, the inode of each file, the contents of each inode and with them its `st_mtime` |
| `entries` | `hash_entries`: key, `indirect`, `data`; an entry is linked into the table by one store |
| `scripts` | the persistent scripts: path, timestamp, the contents compiled, `corrupted`, `memory_consumption` |
| `shared_free`, `wasted`, `memory_exhausted` | the counters of the allocator |
| `restart_pending`, `accelerator_enabled` | whether a restart is scheduled, and whether the cache is on |
| `lock`, `counted` | the holder of byte 0; who holds byte 1 until its request ends |
| `op` | for each worker where it is in `persistent_compile_file()`, `compile_and_cache_file()`, `cache_script_in_shared_memory()` or `zend_accel_invalidate()`, and its locals |
| `op.floor`, `op.reach`, `mixed` | history: the contents of the files when the call began, the files that its name led to since, whether a name has changed between file and link |
| `uncounted`, `undecided` | history: the scripts whose waste, and whether the decision to restart, was lost with the worker that was about to see to it |

One action is one access to something that another worker or the administrator may
change, or that the death of a worker may separate from the next.  The sections under the
lock are one action per store: marking a script (`Corrupt`, `Untime`, `Waste`, `Due`),
finding the cache full (`Full`, `Schedule`), storing a script (`Publish`, `Walk`, `Alias`,
`Convert`, `Account`), the wipe (`zend_accel_hash_clean`,
`zend_shared_alloc_restore_state`).  Stores become visible in program order.  `Crash` kills
a worker between any two of them; the kernel drops its lock and its work stays as it is.
Merged are an entry and `num_entries`, the position in a segment and `shared_free`, the
stores of `zend_accel_schedule_restart()`, which OpcacheRestart takes apart, and those that
restore the cache after a wipe: a death before the last of these leaves the cache off for
good, and no property is about a cache that is off.  Configuration: timestamps are validated on every lookup
(`validate_timestamps` on, `revalidate_freq` 0), `revalidate_path` and the
consistency checks are off, links are resolved without the realpath cache.
Each change of a file gets a new `st_mtime`.  `include_once` and the main script
are looked up as in OpcacheRestart, and the wipe waits for readers as shown there.

| run | instance | shows |
|---|---|---|
| store_safety | two workers, two files (one mapped and edited in place, one replaced by `rename()`) and a link that can be moved; a table of two entries, a segment of two scripts | lookups come to the right script; no script older than its file runs; the waste is exact but for what dies with a worker; a full cache is restarted unless the worker that was to decide it died |
| store_rename | one file, mapped and replaced by `rename()` | a disagreement, below |

Bounds: with two entries and two scripts the table and the segment fill, each before the
other, and one bad script is enough waste.  `MaxEvents` is 1: one edit, move or death
in each behaviour, at any of its steps; the theorems below hold for any number.

`WastedExact` and `RestartNotMissed` say what a death costs.  `corrupted` is set before the
waste is counted, and nobody counts a script that is already marked: a worker that dies
between the two loses its waste until the next wipe (`uncounted`).  One that dies
between the last store that makes a restart due and `zend_accel_schedule_restart()` loses the
decision until another worker comes to it (`undecided`).

`FindRight` and `WastedExact` are stated as long as no name changes between file and
link (`mixed`).  The model goes on after such a change, and there they do not hold:
`zend_accel_hash_update()` turns the entry of a file that has become a link into an
indirect one by two stores (`Alias`, `Convert`), and a lookup between them takes a hash
entry for a script (location "wild").  The hazards at `zend_accelerator_hash.c:107` and
`:83` note this.

### FpmMaster and Supervisor: the process manager of FPM

A single-threaded master forks the workers of its pools, replaces those that
die, adapts their number to the load and stops them for a reload or a shutdown.
Four things make it hard to test: a worker dies or is signalled at any moment,
the master reads the request stages in shared memory without a lock, signals
arrive through a pipe in any order, and the numbers of a pool are written under a spin
lock in shared memory that nobody takes back from a dead worker.

| state | code |
|---|---|
| `fpm_state`, `fpm_signal_sent`, `pctl_event` | the statics of `fpm_process_ctl.c`; whether the escalation timer is queued |
| `pipe` | the bytes `sig_handler()` writes to the master |
| `mpc`, `pools`, `wp`, `todo`, `seen`, `max`, `ret` | the callback the event loop is in, and its locals |
| `children`, `child_wp`, `scoreboard_i`, `idle_kill` | `struct fpm_child_s` |
| `running`, `running_children`, `idle_spawn_rate` | counters of the pools and of the master |
| `procs`, `free_proc` | the scoreboard slots and the hint |
| `lock` | the spin lock of a scoreboard, when its holder is dead |
| `cpc`, `in_shutdown`, `pending`, `status` | the worker processes, signals sent and not yet delivered, how one died |
| `backlog`, `edge` | the listening sockets and their edge-triggered events |

The loop over children in the maintenance and in `fpm_pctl_on_socket_accept()`
is one step per stage that is read, `fpm_children_make()` is one step per
`fork()`, `fpm_children_bury()` one per `waitpid()`; workers, clients and the
administrator move between any two steps.  A worker calls `fpm_scoreboard_update()` when it
starts to accept and when it reads a request (location "update"); the lock is taken and
given back in one step, and a worker that dies at "update" may leave it set
(`DropsLock`).  Nothing but a new master clears it.  Until then the workers of the pool
stop there, and the master stops in the maintenance of that pool (`MaintenanceSpins`, location
"spin"), or in the callback of an ondemand socket when `pm.max_children` is reached for the
first time.  Abstracted: time (a timer that is
set may fire at any later moment), which idle worker is the oldest, statistics,
logging.  `Idle` lets the event loop and a master that spins wait, so a deadlock is any other
callback that cannot go on.

`Supervisor` is what a process manager promises, in three variables: an order
(`mode`), the workers of each pool (`team`), and the processes that run (`alive`).  A
worker is hired within the limits and under no order, dies by itself, and is known until
it is buried; orders only get stronger; the manager leaves, or begins anew, when nobody
is alive.  `FpmMaster` is shown to implement it (`SupervisorSpec`): the mode is
`fpm_state` until the master has exited, the team of a pool is the part of the list of
children that belongs to it, and the living are the forked processes without the zombies.
Reading stages, idle kills, signals on their way and the scoreboard are invisible there.

| run | instance | shows |
|---|---|---|
| fpm_safety | a dynamic pool of 1 and an ondemand pool of 2, `process.max` 2, 3 pids | no orphans over stop, reload and emergency reload; exact slots and a slot for every fork; both limits; SIGQUIT of the idle maintenance is heard; no death is missed; a stop is never weakened and adds no worker; the refinement of Supervisor |
| fpm_live | a dynamic pool of 1, two signals in any order, two connections, one fault, `request_terminate_timeout` set | a master that has taken SIGTERM exits; until then every connection is accepted, after a crash, a killed request or a failed fork too, unless the dead worker has left the lock set |
| fpm_finish | a worker that is slow to start | a disagreement, below |

Bounds: two workers in a pool are enough for one to die, be idle or be replaced
while the other works; two pools for a counter of one to be mistaken for that of
all.  For the liveness properties one worker is the harder case: nobody else can serve.  `MaxFaults` counts crashes and failed forks, `MaxSignals` the
administrator's signals, `MaxConns` connections.  One fault comes on top of the
workers that are killed by `request_terminate_timeout`, of which there may be any number.
fpm_safety has SIGTERM only: a reload is reached there by the emergency restart, before or
after SIGTERM; SIGQUIT and SIGUSR2 are in fpm_live.  fpm_live uses no symmetry.  `request_terminate_timeout` is set
in fpm_live only, to keep fpm_safety small (a worker killed by it is like one that
crashes); the theorems below hold with it.

Fairness (`FairSpec`): a callback runs to its end (WF); the event loop serves each
event that keeps becoming ready (SF: `poll` reports all ready events and the loop
goes through them, timers included); the kernel gives a waiting connection to
some worker in `accept()` (SF per pool, not per worker); a worker goes on, its
request ends, and signals are delivered (WF).  A spin lock with a live holder is given
back: the sections under it are short and wait for nothing.  One with a dead holder is not,
and neither `fpm_scoreboard_update()` nor the end of the maintenance is enabled then.  Crashes, clients and signals of
the administrator are not fair.

### FpmFaults: the emergency restart

`fpm_children_bury()` keeps the times of the last faults (SIGSEGV, SIGBUS) in a
ring and reloads the server when all of them are recent; FpmMaster leaves
this decision open.  `history` records all faults.  `ReloadExact` compares the
decision with the documented condition on the history.  fpm_faults_ring goes twice
round a ring of three.

### ZendSignal and SignalDelivery: deferred signals

In a build with `--enable-zend-signals` every handled signal goes through
`zend_signal_handler_defer()`: inside a critical section it is put in a queue of
preallocated nodes and handled when the outermost section ends
(`zend_signal_handler_unblock()`), else it is handled at once.  A handler may
return, end the process, or leave by `longjmp` (the timeout of a script, a
fatal error), which abandons whatever it interrupted.

| state | code |
|---|---|
| `active`, `depth`, `blocked`, `running`, `handlers` | the fields of `SIGG` |
| `queue`, `avail` | the list from `phead`, and the number of free nodes in `pavail` |
| `mask`, `pending` | the signal mask of the process and the signals the kernel holds for it |
| `pc` | the three steps of `HANDLE_UNBLOCK_INTERRUPTIONS`, and how the process ended |
| `serving`, `listed`, `todo`, `oldmask` | the frame of `zend_signal_handler_defer()` |

The kernel may deliver an unmasked signal between any two steps of the program.
`zend_timeout()` and what follows its `longjmp` are one step: the frame of
`handler_defer` and the list it had detached are gone, and all signals but the
timer stay masked.  A bailout inside a critical section reaches
`zend_signal_deactivate()` with `depth` above zero.

`SignalDelivery` is what the mechanism promises: no handler runs in a critical
section, each signal is served once and in order, none is forgotten before the
queue is full, and none is lost but by a timeout.  `ZendSignal` is shown to
implement it (`DeliverySpec`), by TLC and by proof.

| run | shows |
|---|---|
| signal_safety | `blocked` is set only while there is something to unblock for; the time limit is always heard; only a timeout or the end of the request leaves signals in the queue unattended; the refinement |

Bounds: two signals, the timer and one more; a queue of three nodes, so that it
fills; two levels of critical sections.  Deadlock is not checked: the
process may end.  Not modelled: `SA_RESETHAND` and the debug check of the
installed handlers.

### ZendGc, ZendGcPhases and ZendGcSteps: the cycle collector

`gc_collect_cycles()` looks for garbage cycles from a buffer of possible roots by
subtracting internal references (grey), finding what is held from outside (black)
and collecting the rest (white); the algorithm runs user destructors between two
of its phases, and they change the graph.

| state | code |
|---|---|
| `m.used`, `m.rc` | allocated zvals and objects, and their counts |
| `m.color`, `m.addr` | the two halves of the one word `u.buffered`, kept as two fields: the colour in its low bits, and the address of the root or list link in the others |
| `m.slot` | elements of arrays and properties of objects |
| `m.roots`, `m.tofree`, `m.freeing` | the possible roots, `zval_to_free`, and whether `free_list` is being freed |
| `m.called` | `destructor_called` |
| `m.calls`, `m.undone`, `m.wild` | history: destructor calls, objects freed without one, accesses to freed memory |
| `var` | the variables of the program |

The program creates arrays, references and objects, assigns and unsets variables
and elements, and collects; each is one step, as PHP is sequential, and
includes every release, buffering and collection it sets off.  Nodes in `Clears`
have a destructor that unsets the properties of `$this`, those in `Collects`
one that runs the collector again.

`ZendGcPhases` has the three phases that decide what is garbage once more, for any heap
(any number of zvals, objects and references) and without recursion, so that they can be
proved about.  A step is a root that a loop comes to, or a reference that the recursion
follows: `work` holds the references that it has still to follow, `restore` those whose
count `zval_scan_black()` has still to give back, and the next one is any of them.  The
real order, depth first, is one of these.  `ZendGcSteps` puts the two together: when the
program of ZendGc has possible roots, a collection may be carried out in steps beside it.
`Agrees` says that it begins in an initial state of ZendGcPhases and ends with the counts,
colours and list that the operators of ZendGc compute.

| run | instance | shows |
|---|---|---|
| gc_safety | an array, three references, two objects (one of each kind of destructor), two variables | counts are exact, nothing dangles, the buffer is tidy, no destructor runs twice, and a collection leaves no garbage that it could have found; the phases as steps agree with the recursion, find exactly the garbage, restore the counts, and leave 0 for garbage objects only |
| gc_full | a buffer of two entries | a disagreement, below |

`CollectsGarbage` compares the result of the colouring with reachability from the
variables.  Bounds: three references and two objects make cycles through an object,
through an array, and two cycles that share a node, the shapes in which a
count subtracted twice or restored once would show.  In gc_safety the buffer never
fills; a full buffer is the subject of gc_full.  Collections are taken in steps for heaps of at
most `MaxRefs` = 4 references, which two cycles that share a node need; the
references that lead to the same object are symmetric.  The theorems have no such bound.  Left out: switching the collector
off, the global symbol table as an element, destructors that store `$this`.

## Disagreements between the code and its comments or documentation

Each is a run that ends with a counterexample; `PROJECT.json` quotes the lines.

- **restart_twice**: two unlocked `opcache_reset()` calls can both schedule; the
  second saves "disabled" as the state to restore, and the cache stays off.  (Hence `AcceleratorNotLost` without `opcache_reset()`.)
- **fpm_finish**: the escalation timer is re-armed from its own callback, which
  the event queue ignores; a graceful stop never gets to SIGKILL.
- **store_rename**: `compile_and_cache_file()` obtains the timestamp "*before* actually
  compiling" to avoid a race, but for a mapped file from the path and not from what is
  open: a file replaced by `rename()` in between is cached with its old contents and
  the new timestamp, until it changes again.
- **gc_full**: when the buffer is full, `gc_zval_possible_root()` collects and
  then buffers the zval, which the collection may have buffered already: the zval
  is in the buffer twice, and one entry outlives it.

More limits are noted with the hazards.  A *counted* request is not always
safe from restarts: `persistent_compile_file()` tests the flags before it takes
the usage lock and not after.  The zeros the ring of FpmFaults starts with
count as faults while the monotonic clock is below the interval.  The end of a critical
section of ZendSignal compares the depth and then calls `zend_signal_handler_unblock()`; a
signal between the two empties the queue, and the function takes the head of an empty
queue (location "crashed" of the model).

A worker that dies inside `fpm_scoreboard_update()`, be it by SIGKILL, by the SIGTERM of
`request_terminate_timeout` or by a fault, stops its pool and then the master: the
maintenance runs once a second and spins on the same lock.  From there on SIGTERM to the
master is a byte in a pipe that is not read.  Hence the exception in `Served`, and
`TerminateCompletes` begins when the master has taken the signal: in that state the
maintenance does not count any more, and only the callback of an ondemand socket
could still spin.

`Served` is stated for dynamic pools only.  An ondemand pool reacts to the edge of
a connection once, and decides from the stages it reads that an idle worker will
take it; that worker may be about to exit.  A static pool does not try again after
a failed `fork()`: `fpm_children_bury()` ignores the result.

## Proofs

`OpcacheRestart_proof` proves every safety invariant of OpcacheRestart for any
set of workers and any number of faults (`AcceleratorNotLost` only without
`opcache_reset()` calls).  None of them is inductive alone; the
strengthening is layered:

1. `LocalInv`: types, and what the locals of a worker are at each location;
2. `LockInv`: the locations between lock and unlock hold byte 0, and only a
   restart holds byte 2;
3. `PendingInv`, `ReaderInv`, `RestartFlagNotStuck`, `EnableInv`: each uses the
   exclusion of byte 0.

`ReaderInv` is the interesting one.  A worker that leaked byte 1 (the early
return of `zend_accel_invalidate`) can drop it again in a later
`accelerator_shm_read_lock` while it holds a script.  The invariant shows that
this happens only when the script was not found under that byte.

`RestartRefines` proves from these invariants (`CacheInv`) that OpcacheRestart
implements SharedCache, with any number of workers and faults and with `opcache_reset()`.  Most steps leave the abstract cache as it is; `Lookups`,
`Enters`, `Leaves`, `Deaths` and `Restarts` treat the others.  That only one worker is
ever going to wipe is the exclusion of byte 0 (`OneWiper`), and that the one chosen
meets no reader is `ReaderInv`.

Two modules prove the invariants of AccelStore for any set of workers and of names, any
sizes and any number of changes and deaths.  `AccelStore_inv` has the inductive invariant
`StoreInv`, the frame lemmas and one lemma for each action, `AccelStore_proof` the
theorems and the second invariant, of the waste.

- `StoreInv` holds until a name changes between file and link (`StoreAlways` is
  `[](mixed \/ StoreInv)`), so `FindRight` holds as stated, `TypeOK` and `RunsCurrent`
  under `~mixed`.  The key of the argument is that a file's entry is always direct and
  any other name's indirect, and that a key is added only for a name that is not a
  file: so no entry ever changes its kind, `Convert` and "wild" are not reached, and a
  lookup needs no lock.  Entries and scripts only grow while anyone uses the segment, so
  what a worker has found stays what it was; the wipe finds nobody in a call.
- `RunsCurrent` further needs that the timestamp stored is never newer than the contents.
  The handle of a file that is edited in place is the file's inode, so a timestamp taken
  from the path is that of the handle; of one replaced by `rename()` it is, unless the
  file is mapped.  Hence the assumption `NoneMappedRenamed`; store_rename shows what
  happens without it.
- `WastedExact` needs `WasteInv`: a script that counts and is not corrupted is the one its
  path leads to (`KeptOK`); what is not counted yet, or never, is corrupted, and never both
  (`MarksOK`); a script that is being stored takes the place of none, or of a corrupted one
  (`PlaceOK`).  The holder of byte 0 is the only one that stores or marks (`Alone`,
  `OnlyMark`), so a step counts one script that nobody else will count.  `WasteInv` holds
  while the cache is on or waits for a restart: a wipe that is cut short leaves scripts
  without entries, and a cache that is off, in which no call begins (`RestartInv`).
- `RestartNotMissed` is proved without `mixed`, from the shape of the locals alone (`Shape`):
  every step leaves the two counters and the flags as they are, or leads to where the restart
  is decided, or decides it, or leaves the cache not full (`Decides`).

`FpmMaster_inv` and `FpmMaster_proof` prove every safety property of FpmMaster, and the
action property `StopIsFinal`, for any set of pools of any style, any limits and spawn
rates, any set of process ids (finite or not) and any number of signals, connections,
crashes and failed forks.  `PoolAssumption` and `NumberAssumption` are what
`fpm_conf_process_all_pools()` accepts.  The inductive invariant is
`MasterInv == CoreInv /\ Counted`; TLC has checked it on the instance of fpm_safety.

- `Placed` is `SlotsExact` without functions between sets: a child has a used slot, a used
  slot has a child, no two children share one.  A fork and a burial each change one child
  and one slot, so three lemmas (`SlotGiven`, `SlotFreed`, `SlotWritten`) are all that is
  said about the scoreboard.
- `Bounded` adds to the limits what the callers of `fpm_children_make()` promise it:
  its target is at most `pm.max_children`, and the ondemand callback scans only a pool
  below it.  `SlotForEveryFork` follows: fewer children than slots leaves a slot, and
  `fpm_scoreboard_proc_alloc()` finds it whatever the hint says.
- `Walked`, `Young` and `Addressed` carry `IdleKillHeard`.  A worker without handlers would
  drop SIGQUIT.  It still has the slot as the master wrote it at the fork, so the
  maintenance never sees it idle; and what a scan has seen remains a child of that pool
  until the scan ends, as no burial interrupts a callback.
- `Counted` says that `running_children` and `running[p]` are the numbers of children.
  `CoreInv` is kept by every step as long as the counters tell the truth about an empty
  list, a last child and a free slot (`CountsTell`: the only facts a step takes from
  them), so that cardinalities stay out of the proof of `CoreNext` and are confined to
  `FpmMaster_proof`.  `NoOrphans` needs this: `fpm_pctl_action_last()` forgets all
  children when the counter says there are none.
- The spin lock is in no conjunct but the types: the master reads nothing else under it, so
  no safety property depends on who holds it, and a step that waits for it changes nothing
  of the list or the slots.
- `StopIsFinal` then needs `TypeOK` only: each of the steps that set `fpm_state` is
  shown to go to a state of the same or a higher `Rank`, and `Fork` to need NORMAL.
- `MasterRefines` proves that FpmMaster implements Supervisor.  Every step that is not a
  fork (`ForkHires`), a burial (`BuryBuries`), a death (`WorkerDies`), an order
  (`PctlOrders`) or the end of the master (`LastFinishes`) leaves mode, teams and the
  living as they are (`SupervisorFrames`).  The last one needs `NoOrphans` and `Counted`:
  the counter that is compared with zero is the number of children, and the living are
  among them.

`FpmFaults_proof` proves `TypeOK` and, assuming that the clock has passed the
interval at the start (`Boot > Interval`), `ReloadExact` for every threshold and
interval and any number of faults.  The inductive invariant `RingInv` says which
fault each entry of the ring belongs to: the entries before the index come from this
round, the others from the last one, and entries not yet written are zero.  Without
the assumption it is false.

`ZendSignal_proof` proves the invariants and `LeftBehind`, and that ZendSignal
implements SignalDelivery (`SignalRefines`), for any set of signals, any queue
size and any depth.  `IInv` strengthens the invariants with what the frame of
`handler_defer` says of the mask and of `running` (while a handler serves in a request,
every signal is masked and `running` is set, so there is one frame), and with the
count of nodes, which a timeout may only lower.

`ZendGcPhases_proof` proves of the phases of a collection, for any set of nodes, any finite
set of references between them, any number of references from outside and any possible
roots, that they find exactly the garbage that the roots reach (`CollectsExactly`), give
back what they have subtracted (`CountsRestored`), and that the test "refcount <= 0", by
which objects are then destructed and freed, is right (`ZeroIsGarbage`).  What is assumed of
the heap is in `Init`: counts are exact and the possible roots are what is purple.
gc_safety checks that the program gets there (`Agrees`).  `Live` and `Suspected` are
defined by sets that are closed under references, not by paths, so no induction is needed.
The inductive invariant is `PhaseInv`:

- `Counted`: at every step a count is the number of references from outside, plus those
  from inside that are not taken, plus one for an element of the list.  Whether a reference
  is taken (`Taken`) follows from the colour of its source and from `work` and `restore`,
  so each step takes or gives back at most one (`NoneTaken`, `OneTaken`, `OneGiven`).
- `MarkInv`: a grey node has its references followed or in `work`.  At the end the grey
  nodes are what was suspected, and a count is what comes from elsewhere.
- `ScanInv`: a suspected node that is black is live, a white one has the count 0, and what
  is still grey can be reached from the roots to come and from what is not grey.  The last
  is why dropping roots in the marking loses nothing.  At the end white is exactly what is
  not live (`ScanDoneStep`): the nodes that are not white are closed, and hold all that is
  held from outside.
- `CollectInv`: the same for white nodes that are not in the list yet.

The type invariants of OpcacheRestart, FpmMaster and ZendGcPhases are proved and not
repeated in a run.  Only model-checked are liveness (`RestartHappens`, `TerminateCompletes`, `Served`: the
prover does not handle fairness) and what surrounds the phases in ZendGc, releases,
buffering and destructors, whose mutual recursion is out of the prover's reach.

## Plan

1. Opcode cache: `KillLockers` (the bounded retries of `kill_all_lockers()`), the
   realpath cache and `revalidate_freq` in AccelStore, liveness of the store.
2. Engine: the object store's free list, destructors that resurrect, generators,
   the output layer's handler stack.
3. Extensions: session locking over `flock`, the System V semaphore of `sysvsem`,
   deferred dispatch in `pcntl`.
4. Proofs: the release of references and the destruction of the list, as steps over a
   work list like the phases.

## Not modelled

The language itself (scanner, parser, compiler, the opcodes) is sequential and
needs a semantics rather than a state machine.  Most extensions wrap libraries
(images, XML, databases) or are pure functions.  Bundled libraries (`sqlite3`,
`pcre`, `oniguruma`, `libmagic`, `gd`) are separate projects.  The thread-safe
build (`TSRM`) and Windows back ends are left out: the models are of the POSIX
build without threads.  `PROJECT.json` gives the reason part by part.
