--------------------------- MODULE OpcacheRestart ---------------------------
(***************************************************************************)
(* The cache restart of the opcode cache (ext/opcache/ZendAccelerator.c).  *)
(*                                                                         *)
(* PHP workers share a segment of memory that holds the compiled scripts.  *)
(* Three bytes of one lock file, taken with fcntl(), coordinate them:      *)
(*   byte 0  mem_write_lock  exclusive, for every update of the segment;   *)
(*   byte 1  mem_usage       shared, held by the requests that read it;    *)
(*   byte 2  restart_lock    exclusive, held while the segment is wiped.   *)
(* A restart is only requested by the worker that finds the cache full (or *)
(* by opcache_reset()).  It is performed by a later request, at its start, *)
(* when no worker holds byte 1.                                            *)
(*                                                                         *)
(* One action is one access to the shared memory or to the lock file, so   *)
(* that workers interleave between any two of them.  The build is the      *)
(* POSIX one without threads.                                              *)
(***************************************************************************)
EXTENDS Naturals, FiniteSets

CONSTANTS Procs,        \* the worker processes
          NoProc,       \* "no process holds this lock"
          ForceTimeout, \* opcache.force_restart_timeout is not 0
          ResetApi,     \* scripts may call opcache_reset()
          MayDisable,   \* scripts may switch opcache.enable off
          MaxFaults     \* bound on the faults and aborts of a behaviour

ASSUME NoProcAssumption == NoProc \notin Procs
ASSUME ConfigAssumption == /\ ForceTimeout \in BOOLEAN
                           /\ ResetApi \in BOOLEAN
                           /\ MayDisable \in BOOLEAN
                           /\ MaxFaults \in Nat

VARIABLES
  restart_pending, restart_in_progress, accelerator_enabled,
  cache_status_before_restart,
  force_restart_time,   \* "off" (0), "set" (in the future) or "due"
  mem_write_lock, mem_usage, restart_lock,
  pc, ret,              \* where a worker is, and where a subroutine returns
  counted, enabled,     \* ZCG(counted), ZCG(enabled)
  script,               \* the script pointer a worker holds into the segment
  clean,                \* history: byte 1 was taken with no restart under way
  early,                \* history: script was found without a clean byte 1
  faults

shm   == <<restart_pending, restart_in_progress, accelerator_enabled,
           cache_status_before_restart, force_restart_time>>
locks == <<mem_write_lock, mem_usage, restart_lock>>
ghost == <<clean, early>>
vars  == <<shm, locks, pc, ret, counted, enabled, script, ghost, faults>>

(***************************************************************************)
(* Program locations.                                                      *)
(***************************************************************************)
RestartPCs == {"rs_pending", "rs_lock", "rs_flag", "rs_reset", "rs_clean",
               "rs_enable", "rs_unflag", "rs_unlock"}
SchedulePCs == {"sc_check", "sc_pending", "sc_save", "sc_disable", "sc_force"}
BodyPCs == {"cf_flag", "cf_getlk", "cf_heal", "cf_count", "cf_find",
            "cf_pending", "rp_flag", "rp_find", "rl_lock", "rl_flag",
            "rl_drop", "rl_read", "rl_unlock", "up_lock", "up_body",
            "up_unlock"} \cup SchedulePCs
PCs == {"idle", "act_check", "act_lock", "act_recheck", "act_inactive",
        "kill_clear", "kill_loop", "act_unlock", "run"}
         \cup RestartPCs \cup BodyPCs

\* From the test of byte 1 to the wipe: a restart that is still to wipe.
WipePCs == {"rs_pending", "rs_lock", "rs_flag", "rs_reset", "rs_clean"}

\* restart_in_progress was set and not yet cleared.
FlaggedPCs == {"rs_reset", "rs_clean", "rs_enable", "rs_unflag"}

Goto(p, from, to) == pc[p] = from /\ pc' = [pc EXCEPT ![p] = to]

Others(p) == Procs \ {p}

Init ==
  /\ restart_pending = FALSE /\ restart_in_progress = FALSE
  /\ accelerator_enabled = TRUE /\ cache_status_before_restart = FALSE
  /\ force_restart_time = "off"
  /\ mem_write_lock = NoProc /\ mem_usage = {} /\ restart_lock = NoProc
  /\ pc = [p \in Procs |-> "idle"] /\ ret = [p \in Procs |-> "run"]
  /\ counted = [p \in Procs |-> FALSE] /\ enabled = [p \in Procs |-> TRUE]
  /\ script = [p \in Procs |-> "none"]
  /\ clean = [p \in Procs |-> FALSE] /\ early = [p \in Procs |-> FALSE]
  /\ faults = 0

(***************************************************************************)
(* The fcntl() requests on the three bytes.  F_GETLK never reports a lock  *)
(* of the calling process; F_UNLCK on a byte that is not held is a no-op.  *)
(***************************************************************************)
UsageIsFree(p) == mem_usage \subseteq {p}
RestartLockIsFree(p) == restart_lock \in {NoProc, p}
Released(lock, p) == IF lock = p THEN NoProc ELSE lock

\* Faulty variant: F_SETLK, and a lock that is refused goes unnoticed.
LockWithoutWaiting(p) ==
  /\ mem_write_lock' = IF mem_write_lock = NoProc THEN p ELSE mem_write_lock
  /\ UNCHANGED <<mem_usage, restart_lock>>

\* F_SETLKW on byte 0: waits until no other process has it.
zend_shared_alloc_lock(p) ==
  /\ mem_write_lock \in {NoProc, p}
  /\ mem_write_lock' = p
  /\ UNCHANGED <<mem_usage, restart_lock>>

zend_shared_alloc_unlock(p) ==
  /\ mem_write_lock' = Released(mem_write_lock, p)
  /\ UNCHANGED <<mem_usage, restart_lock>>

\* No process ever asks for byte 1 exclusively: F_SETLK of a read lock succeeds.
accel_activate_add(p) ==
  /\ mem_usage' = mem_usage \cup {p}
  /\ clean' = [clean EXCEPT ![p] = \A q \in Others(p) : pc[q] \notin WipePCs]
  /\ UNCHANGED <<mem_write_lock, restart_lock>>

accel_deactivate_sub(p) ==
  /\ mem_usage' = mem_usage \ {p}
  /\ clean' = [clean EXCEPT ![p] = FALSE]
  /\ UNCHANGED <<mem_write_lock, restart_lock>>

\* F_UNLCK of the whole file.
accel_unlock_all(p) ==
  /\ mem_write_lock' = Released(mem_write_lock, p)
  /\ mem_usage' = mem_usage \ {p}
  /\ restart_lock' = Released(restart_lock, p)
  /\ clean' = [clean EXCEPT ![p] = FALSE]

(***************************************************************************)
(* A worker gets hold of a script in the segment, or lets go of it.        *)
(***************************************************************************)
Found(p) ==
  /\ script' = [script EXCEPT ![p] = "fresh"]
  /\ early' = [early EXCEPT ![p] = ~(p \in mem_usage /\ clean[p])]

Forget(p) ==
  /\ script' = [script EXCEPT ![p] = "none"]
  /\ early' = [early EXCEPT ![p] = FALSE]

(***************************************************************************)
(* accel_activate(): the start of a request.                               *)
(***************************************************************************)
\* A count left by the previous request is dropped; the pointer is forgotten.
Activate(p) ==
  /\ Goto(p, "idle", "act_check")
  /\ IF counted[p] THEN accel_unlock_all(p) ELSE UNCHANGED <<locks, clean>>
  /\ counted' = [counted EXCEPT ![p] = FALSE]
  /\ Forget(p)
  /\ UNCHANGED <<shm, ret, enabled, faults>>

ActivateCheck(p) ==
  /\ Goto(p, "act_check", IF restart_pending THEN "act_lock" ELSE "run")
  /\ UNCHANGED <<shm, locks, ret, counted, enabled, script, ghost, faults>>

ActivateLock(p) ==
  /\ Goto(p, "act_lock", "act_recheck")
  /\ zend_shared_alloc_lock(p)
  /\ UNCHANGED <<shm, ret, counted, enabled, script, ghost, faults>>

\* Faulty variant: restart_pending is not read again under byte 0.
ActivateNoRecheck(p) ==
  /\ Goto(p, "act_recheck", "act_inactive")
  /\ UNCHANGED <<shm, locks, ret, counted, enabled, script, ghost, faults>>

ActivateRecheck(p) ==
  /\ Goto(p, "act_recheck",
          IF restart_pending THEN "act_inactive" ELSE "act_unlock")
  /\ UNCHANGED <<shm, locks, ret, counted, enabled, script, ghost, faults>>

\* Faulty variant: once the deadline has passed, byte 1 is not waited for.
InactiveWhenDue(p) ==
  /\ Goto(p, "act_inactive",
          IF UsageIsFree(p) \/ force_restart_time = "due"
            THEN "rs_pending" ELSE "act_unlock")
  /\ UNCHANGED <<shm, locks, ret, counted, enabled, script, ghost, faults>>

\* accel_is_inactive(): tests byte 1 with F_GETLK, which reserves nothing.
accel_is_inactive(p) ==
  /\ Goto(p, "act_inactive",
          CASE UsageIsFree(p) -> "rs_pending"
            [] ~UsageIsFree(p) /\ ForceTimeout /\ force_restart_time = "due"
                 -> "kill_clear"
            [] OTHER -> "act_unlock")
  /\ UNCHANGED <<shm, locks, ret, counted, enabled, script, ghost, faults>>

ActivateUnlock(p) ==
  /\ Goto(p, "act_unlock", "run")
  /\ zend_shared_alloc_unlock(p)
  /\ UNCHANGED <<shm, ret, counted, enabled, script, ghost, faults>>

(***************************************************************************)
(* The restart itself, under byte 0.                                       *)
(***************************************************************************)
RestartClearPending(p) ==
  /\ Goto(p, "rs_pending", "rs_lock")
  /\ restart_pending' = FALSE
  /\ UNCHANGED <<restart_in_progress, accelerator_enabled,
                 cache_status_before_restart, force_restart_time, locks, ret,
                 counted, enabled, script, ghost, faults>>

\* accel_restart_enter(): a failure of F_SETLK would only be logged.
RestartLock(p) ==
  /\ Goto(p, "rs_lock", "rs_flag")
  /\ restart_lock' = IF RestartLockIsFree(p) THEN p ELSE restart_lock
  /\ UNCHANGED <<shm, mem_write_lock, mem_usage, ret, counted, enabled,
                 script, ghost, faults>>

RestartFlag(p) ==
  /\ Goto(p, "rs_flag", "rs_reset")
  /\ restart_in_progress' = TRUE
  /\ UNCHANGED <<restart_pending, accelerator_enabled,
                 cache_status_before_restart, force_restart_time, locks, ret,
                 counted, enabled, script, ghost, faults>>

zend_reset_cache_vars(p) ==
  /\ Goto(p, "rs_reset", "rs_clean")
  /\ restart_pending' = FALSE
  /\ force_restart_time' = "off"
  /\ UNCHANGED <<restart_in_progress, accelerator_enabled,
                 cache_status_before_restart, locks, ret, counted, enabled,
                 script, ghost, faults>>

\* The hash table, the include paths, the interned strings and the allocator
\* go back to their initial state: every pointer into the segment dangles.
RestartClean(p) ==
  /\ Goto(p, "rs_clean", "rs_enable")
  /\ script' = [q \in Procs |-> IF script[q] = "none" THEN "none" ELSE "stale"]
  /\ UNCHANGED <<shm, locks, ret, counted, enabled, ghost, faults>>

RestartEnable(p) ==
  /\ Goto(p, "rs_enable", "rs_unflag")
  /\ accelerator_enabled' = cache_status_before_restart
  /\ UNCHANGED <<restart_pending, restart_in_progress,
                 cache_status_before_restart, force_restart_time, locks, ret,
                 counted, enabled, script, ghost, faults>>

\* Faulty variant: accel_restart_leave() leaves the flag to the next reader.
RestartKeepFlag(p) ==
  /\ Goto(p, "rs_unflag", "rs_unlock")
  /\ UNCHANGED <<shm, locks, ret, counted, enabled, script, ghost, faults>>

RestartUnflag(p) ==
  /\ Goto(p, "rs_unflag", "rs_unlock")
  /\ restart_in_progress' = FALSE
  /\ UNCHANGED <<restart_pending, accelerator_enabled,
                 cache_status_before_restart, force_restart_time, locks, ret,
                 counted, enabled, script, ghost, faults>>

RestartUnlock(p) ==
  /\ Goto(p, "rs_unlock", "act_unlock")
  /\ restart_lock' = Released(restart_lock, p)
  /\ UNCHANGED <<shm, mem_write_lock, mem_usage, ret, counted, enabled,
                 script, ghost, faults>>

(***************************************************************************)
(* kill_all_lockers(): once the deadline of a restart has passed, the      *)
(* holders of byte 1 are killed.  The request that does so leaves the      *)
(* restart to a later one.                                                 *)
(***************************************************************************)
\* The kernel releases the locks of a dead process; a new worker replaces it.
Dies(q) ==
  /\ accel_unlock_all(q)
  /\ pc' = [pc EXCEPT ![q] = "idle"]
  /\ ret' = [ret EXCEPT ![q] = "run"]
  /\ counted' = [counted EXCEPT ![q] = FALSE]
  /\ enabled' = [enabled EXCEPT ![q] = TRUE]
  /\ Forget(q)

KillClear(p) ==
  /\ Goto(p, "kill_clear", "kill_loop")
  /\ force_restart_time' = "off"
  /\ UNCHANGED <<restart_pending, restart_in_progress, accelerator_enabled,
                 cache_status_before_restart, locks, ret, counted, enabled,
                 script, ghost, faults>>

\* The deadline is put back when the locker dies at the last of the tries.
KillLocker(p) ==
  /\ pc[p] = "kill_loop"
  /\ \E q \in mem_usage \ {p} : Dies(q)
  /\ force_restart_time' \in {force_restart_time, "due"}
  /\ UNCHANGED <<restart_pending, restart_in_progress, accelerator_enabled,
                 cache_status_before_restart, faults>>

KillDone(p) ==
  /\ Goto(p, "kill_loop", "act_unlock")
  /\ UsageIsFree(p)
  /\ UNCHANGED <<shm, locks, ret, counted, enabled, script, ghost, faults>>

(***************************************************************************)
(* zend_accel_schedule_restart(): called under byte 0 when the cache is    *)
(* full (ret is where the update returns), and without any lock by         *)
(* opcache_reset() (ret is "reset").                                       *)
(***************************************************************************)
ScheduleReturn(p, from) ==
  \/ ret[p] # "reset" /\ Goto(p, from, "up_unlock") /\ UNCHANGED ret
  \/ ret[p] = "reset" /\ Goto(p, from, "run") /\ ret' = [ret EXCEPT ![p] = "run"]

\* Faulty variant: a pending restart is scheduled again.
ScheduleNoCheck(p) ==
  /\ Goto(p, "sc_check", "sc_pending")
  /\ UNCHANGED <<shm, locks, ret, counted, enabled, script, ghost, faults>>

ScheduleCheck(p) ==
  /\ \/ restart_pending /\ ScheduleReturn(p, "sc_check")
     \/ ~restart_pending /\ Goto(p, "sc_check", "sc_pending") /\ UNCHANGED ret
  /\ UNCHANGED <<shm, locks, counted, enabled, script, ghost, faults>>

SchedulePending(p) ==
  /\ Goto(p, "sc_pending", "sc_save")
  /\ restart_pending' = TRUE
  /\ UNCHANGED <<restart_in_progress, accelerator_enabled,
                 cache_status_before_restart, force_restart_time, locks, ret,
                 counted, enabled, script, ghost, faults>>

ScheduleSave(p) ==
  /\ Goto(p, "sc_save", "sc_disable")
  /\ cache_status_before_restart' = accelerator_enabled
  /\ UNCHANGED <<restart_pending, restart_in_progress, accelerator_enabled,
                 force_restart_time, locks, ret, counted, enabled, script,
                 ghost, faults>>

ScheduleDisable(p) ==
  /\ Goto(p, "sc_disable", "sc_force")
  /\ accelerator_enabled' = FALSE
  /\ UNCHANGED <<restart_pending, restart_in_progress,
                 cache_status_before_restart, force_restart_time, locks, ret,
                 counted, enabled, script, ghost, faults>>

ScheduleForce(p) ==
  /\ ScheduleReturn(p, "sc_force")
  /\ force_restart_time' = IF ForceTimeout THEN "set" ELSE "off"
  /\ UNCHANGED <<restart_pending, restart_in_progress, accelerator_enabled,
                 cache_status_before_restart, locks, counted, enabled, script,
                 ghost, faults>>

\* opcache_reset(): its test of accelerator_enabled and its call are unlocked.
opcache_reset(p) ==
  /\ ResetApi /\ enabled[p] /\ accelerator_enabled
  /\ Goto(p, "run", "sc_check")
  /\ ret' = [ret EXCEPT ![p] = "reset"]
  /\ UNCHANGED <<shm, locks, counted, enabled, script, ghost, faults>>

(***************************************************************************)
(* An update of the segment under byte 0: cache_script_in_shared_memory,   *)
(* zend_accel_add_key, an include path, or the invalidation of a script.   *)
(* The update may find the segment full and enough of it wasted.           *)
(***************************************************************************)
UpdateLock(p) ==
  /\ Goto(p, "up_lock", "up_body")
  /\ zend_shared_alloc_lock(p)
  /\ UNCHANGED <<shm, ret, counted, enabled, script, ghost, faults>>

\* A compiled script that is stored (ret is "store") is then run from there.
UpdateBody(p) ==
  /\ \/ Goto(p, "up_body", "up_unlock")
     \/ Goto(p, "up_body", "sc_check")  \* zend_accel_schedule_restart_if_necessary
  /\ \/ ret[p] = "store" /\ Found(p)
     \/ UNCHANGED <<script, early>>
  /\ UNCHANGED <<shm, locks, ret, counted, enabled, clean, faults>>

UpdateUnlock(p) ==
  /\ Goto(p, "up_unlock", IF ret[p] = "store" THEN "run" ELSE ret[p])
  /\ ret' = [ret EXCEPT ![p] = "run"]
  /\ zend_shared_alloc_unlock(p)
  /\ UNCHANGED <<shm, counted, enabled, script, ghost, faults>>

\* accel_include_path_on_modify(): an update by a worker that holds no byte 1.
SetIncludePath(p) ==
  /\ enabled[p] /\ (counted[p] \/ accelerator_enabled)
  /\ Goto(p, "run", "up_lock")
  /\ ret' = [ret EXCEPT ![p] = "run"]
  /\ UNCHANGED <<shm, locks, counted, enabled, script, ghost, faults>>

(***************************************************************************)
(* persistent_zend_resolve_path(): the main script and the include_once    *)
(* files are looked up, without byte 1, before they are compiled.          *)
(***************************************************************************)
ResolvePath(p) ==
  /\ enabled[p] /\ (counted[p] \/ accelerator_enabled)
  /\ Goto(p, "run", "rp_flag")
  /\ UNCHANGED <<shm, locks, ret, counted, enabled, script, ghost, faults>>

ResolveFlag(p) ==
  /\ Goto(p, "rp_flag", IF restart_in_progress THEN "run" ELSE "rp_find")
  /\ UNCHANGED <<shm, locks, ret, counted, enabled, script, ghost, faults>>

\* Not in the cache; found by name or key; or found by the real path, in which
\* case the key is added to its bucket.
ResolveFind(p) ==
  /\ \/ /\ Goto(p, "rp_find", "run")
        /\ UNCHANGED <<ret, script, early>>
     \/ /\ Goto(p, "rp_find", "run")
        /\ Found(p)
        /\ UNCHANGED ret
     \/ /\ Goto(p, "rp_find", "up_lock")
        /\ Found(p)
        /\ ret' = [ret EXCEPT ![p] = "run"]
  /\ UNCHANGED <<shm, locks, counted, enabled, clean, faults>>

(***************************************************************************)
(* persistent_compile_file().                                              *)
(***************************************************************************)
CompileFile(p) ==
  /\ enabled[p] /\ (counted[p] \/ accelerator_enabled)
  /\ Goto(p, "run", "cf_flag")
  /\ UNCHANGED <<shm, locks, ret, counted, enabled, script, ghost, faults>>

CompileFlag(p) ==
  /\ Goto(p, "cf_flag", IF restart_in_progress THEN "cf_getlk" ELSE "cf_count")
  /\ UNCHANGED <<shm, locks, ret, counted, enabled, script, ghost, faults>>

\* accel_restart_is_active(): the flag of a restarter that died is cleared.
CompileGetlk(p) ==
  /\ Goto(p, "cf_getlk", IF RestartLockIsFree(p) THEN "cf_heal" ELSE "run")
  /\ UNCHANGED <<shm, locks, ret, counted, enabled, script, ghost, faults>>

CompileHeal(p) ==
  /\ Goto(p, "cf_heal", "cf_count")
  /\ restart_in_progress' = FALSE
  /\ UNCHANGED <<restart_pending, accelerator_enabled,
                 cache_status_before_restart, force_restart_time, locks, ret,
                 counted, enabled, script, ghost, faults>>

CompileCount(p) ==
  /\ Goto(p, "cf_count", "cf_find")
  /\ IF counted[p] THEN UNCHANGED <<locks, clean>> ELSE accel_activate_add(p)
  /\ counted' = [counted EXCEPT ![p] = TRUE]
  /\ UNCHANGED <<shm, ret, enabled, script, early, faults>>

\* The script is the one ResolvePath found, or it is looked up now; it is run
\* as it is, or its key is added first.
CompileHit(p) ==
  /\ \/ script[p] # "none" /\ UNCHANGED <<script, early>>
     \/ Found(p)
  /\ \/ Goto(p, "cf_find", "run") /\ UNCHANGED ret
     \/ Goto(p, "cf_find", "up_lock") /\ ret' = [ret EXCEPT ![p] = "run"]
  /\ UNCHANGED <<shm, locks, counted, enabled, clean, faults>>

\* The script is not cached; or it is out of date and marked corrupted first.
CompileMiss(p) ==
  /\ \/ Goto(p, "cf_find", "cf_pending") /\ UNCHANGED ret
     \/ /\ Goto(p, "cf_find", "up_lock")
        /\ ret' = [ret EXCEPT ![p] = "cf_pending"]
  /\ UNCHANGED <<shm, locks, counted, enabled, script, ghost, faults>>

\* The file is compiled; it is stored unless a restart is pending, the memory
\* is exhausted or the script cannot be cached.
CompilePending(p) ==
  /\ \/ Goto(p, "cf_pending", "run") /\ UNCHANGED ret
     \/ /\ ~restart_pending
        /\ Goto(p, "cf_pending", "up_lock")
        /\ ret' = [ret EXCEPT ![p] = "store"]
  /\ UNCHANGED <<shm, locks, counted, enabled, script, ghost, faults>>

(***************************************************************************)
(* accelerator_shm_read_lock() and its callers: opcache_get_status() and   *)
(* opcache_invalidate().                                                   *)
(***************************************************************************)
ReadLock(p) ==
  /\ enabled[p] /\ accelerator_enabled
  /\ Goto(p, "run", IF counted[p] THEN "rl_read" ELSE "rl_lock")
  /\ UNCHANGED <<shm, locks, ret, counted, enabled, script, ghost, faults>>

ReadLockAdd(p) ==
  /\ Goto(p, "rl_lock", "rl_flag")
  /\ accel_activate_add(p)
  /\ UNCHANGED <<shm, ret, counted, enabled, script, early, faults>>

ReadLockFlag(p) ==
  /\ Goto(p, "rl_flag", IF restart_in_progress THEN "rl_drop" ELSE "rl_read")
  /\ UNCHANGED <<shm, locks, ret, counted, enabled, script, ghost, faults>>

ReadLockDrop(p) ==
  /\ Goto(p, "rl_drop", "run")
  /\ accel_deactivate_sub(p)
  /\ UNCHANGED <<shm, ret, counted, enabled, script, early, faults>>

\* The segment is read; a script is found and invalidated; or
\* zend_accel_invalidate() cannot resolve the path and returns at once.
ReadShm(p) ==
  /\ \/ Goto(p, "rl_read", "rl_unlock") /\ UNCHANGED <<ret, script, early>>
     \/ /\ Goto(p, "rl_read", "up_lock")
        /\ ret' = [ret EXCEPT ![p] = "rl_unlock"]
        /\ Found(p)
     \/ Goto(p, "rl_read", "run") /\ UNCHANGED <<ret, script, early>>
  /\ UNCHANGED <<shm, locks, counted, enabled, clean, faults>>

\* Faulty variant: byte 1 is dropped although the request is counted.
ReadUnlockAlways(p) ==
  /\ Goto(p, "rl_unlock", "run")
  /\ accel_deactivate_sub(p)
  /\ UNCHANGED <<shm, ret, counted, enabled, script, early, faults>>

accelerator_shm_read_unlock(p) ==
  /\ Goto(p, "rl_unlock", "run")
  /\ IF counted[p]
       THEN UNCHANGED <<locks, script, ghost>>
       ELSE accel_deactivate_sub(p) /\ Forget(p)
  /\ UNCHANGED <<shm, ret, counted, enabled, faults>>

(***************************************************************************)
(* The end of a request, and what interrupts one.                          *)
(***************************************************************************)
\* ini_set("opcache.enable", 0): the cache is off for the rest of the request.
OnEnable(p) ==
  /\ MayDisable
  /\ pc[p] = "run" /\ enabled[p]
  /\ enabled' = [enabled EXCEPT ![p] = FALSE]
  /\ UNCHANGED <<shm, locks, pc, ret, counted, script, ghost, faults>>

\* Faulty variant: only the count is cleared at the end of a request.
DeactivateKeepLocks(p) ==
  /\ Goto(p, "run", "idle")
  /\ counted' = [counted EXCEPT ![p] = FALSE]
  /\ enabled' = [enabled EXCEPT ![p] = TRUE]
  /\ Forget(p)
  /\ UNCHANGED <<shm, locks, clean, ret, faults>>

\* accel_deactivate() returns at once in a request that has disabled the
\* cache: its locks and its count stay.
accel_deactivate(p) ==
  /\ Goto(p, "run", "idle")
  /\ IF enabled[p]
       THEN accel_unlock_all(p) /\ counted' = [counted EXCEPT ![p] = FALSE]
       ELSE UNCHANGED <<locks, clean, counted>>
  /\ enabled' = [enabled EXCEPT ![p] = TRUE]
  /\ Forget(p)
  /\ UNCHANGED <<shm, ret, faults>>

\* A fatal error or the time limit unwinds the request to its shutdown, with
\* the locks it holds.
Bailout(p) ==
  /\ faults < MaxFaults /\ faults' = faults + 1
  /\ pc[p] \in BodyPCs
  /\ pc' = [pc EXCEPT ![p] = "run"]
  /\ ret' = [ret EXCEPT ![p] = "run"]
  /\ Forget(p)
  /\ UNCHANGED <<shm, locks, counted, enabled, clean>>

Crash(p) ==
  /\ faults < MaxFaults /\ faults' = faults + 1
  /\ Dies(p)
  /\ UNCHANGED shm

\* time(NULL) reaches force_restart_time.
DeadlinePasses ==
  /\ force_restart_time = "set"
  /\ force_restart_time' = "due"
  /\ UNCHANGED <<restart_pending, restart_in_progress, accelerator_enabled,
                 cache_status_before_restart, locks, pc, ret, counted, enabled,
                 script, ghost, faults>>

(***************************************************************************)
(* The specification.                                                      *)
(***************************************************************************)
TakeWriteLock(p) == ActivateLock(p) \/ UpdateLock(p)

\* The steps a worker takes once it has begun an operation.
Proceed(p) ==
  \/ ActivateCheck(p) \/ ActivateRecheck(p) \/ accel_is_inactive(p)
  \/ ActivateUnlock(p)
  \/ RestartClearPending(p) \/ RestartLock(p) \/ RestartFlag(p)
  \/ zend_reset_cache_vars(p) \/ RestartClean(p) \/ RestartEnable(p)
  \/ RestartUnflag(p) \/ RestartUnlock(p)
  \/ KillClear(p) \/ KillLocker(p) \/ KillDone(p)
  \/ ScheduleCheck(p) \/ SchedulePending(p) \/ ScheduleSave(p)
  \/ ScheduleDisable(p) \/ ScheduleForce(p)
  \/ UpdateBody(p) \/ UpdateUnlock(p)
  \/ ResolveFlag(p) \/ ResolveFind(p)
  \/ CompileFlag(p) \/ CompileGetlk(p) \/ CompileHeal(p) \/ CompileCount(p)
  \/ CompileHit(p) \/ CompileMiss(p) \/ CompilePending(p)
  \/ ReadLockAdd(p) \/ ReadLockFlag(p) \/ ReadLockDrop(p) \/ ReadShm(p)
  \/ accelerator_shm_read_unlock(p)

\* What the script of a request may do next.
Begin(p) ==
  \/ ResolvePath(p) \/ CompileFile(p) \/ ReadLock(p) \/ opcache_reset(p)
  \/ SetIncludePath(p) \/ OnEnable(p)

Next ==
  \/ \E p \in Procs : \/ Activate(p) \/ TakeWriteLock(p) \/ Proceed(p)
                      \/ Begin(p) \/ accel_deactivate(p)
                      \/ Bailout(p) \/ Crash(p)
  \/ DeadlinePasses

Spec == Init /\ [][Next]_vars

\* Requests keep arriving, but not at every worker; a worker runs; the kernel
\* serves the waiters of byte 0; a request ends (the time limit).  The deadline
\* of a forced restart need not come.
Fairness ==
  /\ WF_vars(\E p \in Procs : Activate(p))
  /\ \A p \in Procs : /\ WF_vars(Proceed(p))
                       /\ SF_vars(TakeWriteLock(p))
                       /\ SF_vars(accel_deactivate(p))

FairSpec == Spec /\ Fairness

(***************************************************************************)
(* Properties.                                                             *)
(***************************************************************************)
\* The shared words, the lock table and the workers' locals have their types.
TypeOK ==
  /\ restart_pending \in BOOLEAN /\ restart_in_progress \in BOOLEAN
  /\ accelerator_enabled \in BOOLEAN
  /\ cache_status_before_restart \in BOOLEAN
  /\ force_restart_time \in {"off", "set", "due"}
  /\ mem_write_lock \in Procs \cup {NoProc}
  /\ mem_usage \in SUBSET Procs
  /\ restart_lock \in Procs \cup {NoProc}
  /\ pc \in [Procs -> PCs]
  /\ ret \in [Procs -> {"run", "cf_pending", "store", "rl_unlock", "reset"}]
  /\ counted \in [Procs -> BOOLEAN] /\ enabled \in [Procs -> BOOLEAN]
  /\ script \in [Procs -> {"none", "fresh", "stale"}]
  /\ clean \in [Procs -> BOOLEAN] /\ early \in [Procs -> BOOLEAN]
  /\ faults \in 0 .. MaxFaults

\* accel_is_inactive() makes a restart wait: while a worker holds byte 1, and
\* took it when no restart had passed that test, no other worker gets from
\* the test to the wipe.
RestartWaitsForReaders ==
  \A p \in mem_usage : clean[p] => \A q \in Others(p) : pc[q] \notin WipePCs

\* A pointer into the segment dangles only if it was found without byte 1, or
\* with a byte 1 taken while a restart was under way: accel_activate_add()
\* before the lookup protects every other one until it is dropped.
LockedPointerValid ==
  \A p \in Procs : script[p] = "stale" => early[p]

\* The second test of restart_pending under byte 0, in accel_activate(), keeps
\* two workers that saw the same request from both wiping the segment.
OneRestartPerSchedule ==
  \A p \in Procs : pc[p] = "rs_pending" => restart_pending

\* accel_restart_enter() ignores a failing F_SETLK; it can never fail, whoever
\* died before: byte 2 is only taken under byte 0.
RestartLockAvailable ==
  \A p \in Procs : pc[p] = "rs_lock" => RestartLockIsFree(p)

\* The abstract cache: its readers are the workers whose byte 1 was taken before any
\* restart had tested it; a worker is going to wipe from its test of byte 1 on.
Readers == {p \in mem_usage : clean[p]}
Wiping == {p \in Procs : pc[p] \in WipePCs}
Answering == {p \in Procs : pc[p] \in WipePCs \ {"rs_pending"}}
Holding(p) ==
  CASE script[p] = "none" -> "none"
    [] script[p] = "stale" -> "dangling"
    [] script[p] = "fresh" -> IF early[p] THEN "exposed" ELSE "guarded"
Held == [p \in Procs |-> Holding(p)]
Cache == INSTANCE SharedCache WITH
  wanted <- restart_pending, chosen <- Wiping, answered <- Answering,
  readers <- Readers, held <- Held

\* The three bytes and the two flags implement SharedCache, with faults, forced restarts
\* and opcache_reset() in any order: accel_activate() wipes once for each request, one
\* worker at a time, and takes no script from a worker that looked it up with byte 1.
CacheSpec == Cache!Spec

\* Without faults restart_in_progress is never left set: some worker is
\* between accel_restart_enter() and accel_restart_leave().  (The converse
\* does not hold: accel_restart_is_active() may clear the flag of a restart
\* that began after it looked at byte 2.)
RestartFlagNotStuck ==
  faults = 0 /\ restart_in_progress => \E p \in Procs : pc[p] \in FlaggedPCs

\* Without faults and without opcache_reset() the accelerator is off only
\* while a restart is pending or under way: every restart turns it on again.
AcceleratorNotLost ==
  faults = 0 /\ ~accelerator_enabled =>
    restart_pending \/ \E p \in Procs : pc[p] \in RestartPCs

\* A restart that was scheduled is eventually carried out, however many
\* requests keep arriving: while it is pending no new worker is counted, and
\* accel_deactivate() drops the locks of those that were.
RestartHappens == restart_pending ~> ~restart_pending

\* The comment in zend_accel_schedule_restart(): "don't schedule twice".
ScheduledOnce ==
  \A p, q \in Procs :
    p # q => ~(pc[p] \in SchedulePCs \ {"sc_check"}
                /\ pc[q] \in SchedulePCs \ {"sc_check"})
=============================================================================
