------------------------ MODULE OpcacheRestart_proof ------------------------
(***************************************************************************)
(* Proofs about the cache restart, for any number of workers and faults.   *)
(*                                                                         *)
(* The argument is layered.  LocalInv ties the locals of a worker to where *)
(* it is; LockInv says which locations hold bytes 0 and 2; PendingInv,     *)
(* ReaderInv and EnableInv use the exclusion that LockInv gives.  The      *)
(* refinement of SharedCache uses all but the last.                        *)
(***************************************************************************)
EXTENDS OpcacheRestart, TLAPS

UpdatePCs == {"up_lock", "up_body", "up_unlock"}
ActivatePCs == {"act_check", "act_lock", "act_recheck", "act_inactive",
                "kill_clear", "kill_loop", "act_unlock"} \cup RestartPCs

\* A return location is set only inside a subroutine; a worker that looks for
\* a script, compiles or stores one is counted; one that takes the read lock
\* is not; one that starts a request has no script.
LocalInv ==
  /\ TypeOK
  /\ \A p \in Procs :
       /\ ret[p] # "run" => pc[p] \in UpdatePCs \cup SchedulePCs
       /\ ret[p] = "reset" => pc[p] \in SchedulePCs
       /\ ret[p] \in {"store", "cf_pending"} => counted[p]
       /\ pc[p] \in {"cf_find", "cf_pending"} => counted[p]
       /\ pc[p] \in {"rl_lock", "rl_flag", "rl_drop"} => ~counted[p]
       /\ pc[p] \in ActivatePCs => script[p] = "none"

\* The locations between zend_shared_alloc_lock and zend_shared_alloc_unlock.
HoldsWriteLock(p) ==
  \/ pc[p] \in ActivatePCs \ {"act_check", "act_lock"}
  \/ pc[p] \in {"up_body", "up_unlock"}
  \/ pc[p] \in SchedulePCs /\ ret[p] # "reset"

LockInv ==
  /\ \A p \in Procs : HoldsWriteLock(p) => mem_write_lock = p
  /\ \A p \in Procs : restart_lock = p =>
       pc[p] \in RestartPCs \ {"rs_pending", "rs_lock"}

\* From the second test on, the restart that is performed was requested.
PendingInv ==
  \A p \in Procs : pc[p] \in {"act_inactive", "rs_pending"} => restart_pending

\* A worker that holds a script found under a clean byte 1 still has that byte,
\* and if it is not counted no restart has set its flag since.
ReaderInv ==
  /\ RestartWaitsForReaders
  /\ LockedPointerValid
  /\ \A p \in Procs :
       LET safe == script[p] = "fresh" /\ ~early[p]
           held == p \in mem_usage /\ clean[p]
       IN  /\ safe => held
           /\ held /\ ~counted[p] /\ (safe \/ pc[p] \in {"rp_find", "rl_read"})
                => ~restart_in_progress
           /\ pc[p] = "rl_drop" => ~safe

\* Without faults and without opcache_reset(): what cache_status_before_restart
\* holds while a restart is scheduled and performed.
EnableInv ==
  faults = 0 =>
    /\ AcceleratorNotLost
    /\ \A p \in Procs :
         /\ ret[p] # "reset"
         /\ pc[p] \in {"sc_pending", "sc_save", "rs_unflag", "rs_unlock"}
              => accelerator_enabled
         /\ pc[p] \in {"sc_save", "sc_disable", "sc_force"} => restart_pending
         /\ pc[p] \in {"sc_disable", "sc_force"} \cup RestartPCs
              => cache_status_before_restart
    /\ restart_pending =>
         \/ cache_status_before_restart
         \/ \E p \in Procs : pc[p] = "sc_save"

\* What Found records in early, for one worker and for the others.
LEMMA FoundEarly ==
  ASSUME TypeOK, NEW p \in Procs, Found(p)
  PROVE  /\ early' \in [Procs -> BOOLEAN]
         /\ early'[p] <=> ~(p \in mem_usage /\ clean[p])
         /\ \A q \in Procs : q # p => (early'[q] <=> early[q])
<1> DEFINE b == ~(p \in mem_usage /\ clean[p])
<1>1. b \in BOOLEAN /\ early \in [Procs -> BOOLEAN]
  BY DEF TypeOK
<1>2. early' = [early EXCEPT ![p] = b]
  BY DEF Found
<1> HIDE DEF b
<1>3. QED BY <1>1, <1>2, Zenon DEF b

\* What accel_activate_add() records in clean, for one worker and the others.
LEMMA AddClean ==
  ASSUME TypeOK, NEW p \in Procs, accel_activate_add(p)
  PROVE  /\ clean' \in [Procs -> BOOLEAN]
         /\ clean'[p] <=> \A q \in Others(p) : pc[q] \notin WipePCs
         /\ \A q \in Procs : q # p => (clean'[q] <=> clean[q])
<1> DEFINE b == \A q \in Others(p) : pc[q] \notin WipePCs
<1>1. b \in BOOLEAN /\ clean \in [Procs -> BOOLEAN]
  BY DEF TypeOK
<1>2. clean' = [clean EXCEPT ![p] = b]
  BY DEF accel_activate_add
<1> HIDE DEF b
<1>3. QED BY <1>1, <1>2, Zenon DEF b

\* Every step keeps the locals of a worker and its location in agreement.
LEMMA LocalStep == LocalInv /\ [Next]_vars => LocalInv'
<1> SUFFICES ASSUME LocalInv, Next PROVE LocalInv'
  BY DEF LocalInv, TypeOK, vars, shm, locks, ghost
<1> USE ConfigAssumption, NoProcAssumption
    DEF LocalInv, TypeOK, shm, locks, ghost, Goto, PCs, BodyPCs, SchedulePCs,
        RestartPCs, ActivatePCs, UpdatePCs
<1>1. ASSUME NEW p \in Procs, Activate(p) PROVE LocalInv'
  BY ZenonT(60), <1>1 DEF Activate, accel_unlock_all, Released, Forget
<1>2. ASSUME NEW p \in Procs, ActivateCheck(p) \/ ActivateRecheck(p) \/
                    accel_is_inactive(p)
      PROVE LocalInv'
  BY <1>2 DEF ActivateCheck, ActivateRecheck, accel_is_inactive, UsageIsFree
<1>3. ASSUME NEW p \in Procs, ActivateLock(p) PROVE LocalInv'
  BY <1>3 DEF ActivateLock, zend_shared_alloc_lock
<1>4. ASSUME NEW p \in Procs, ActivateUnlock(p) PROVE LocalInv'
  BY <1>4 DEF ActivateUnlock, zend_shared_alloc_unlock, Released
<1>5. ASSUME NEW p \in Procs, RestartClearPending(p) PROVE LocalInv'
  BY ZenonT(60), <1>5 DEF RestartClearPending
<1>6. ASSUME NEW p \in Procs, zend_reset_cache_vars(p) PROVE LocalInv'
  BY ZenonT(60), <1>6 DEF zend_reset_cache_vars
<1>7. ASSUME NEW p \in Procs, RestartLock(p) \/ RestartUnlock(p)
      PROVE LocalInv'
  BY <1>7 DEF RestartLock, RestartLockIsFree, RestartUnlock, Released
<1>8. ASSUME NEW p \in Procs, RestartFlag(p) PROVE LocalInv'
  BY <1>8 DEF RestartFlag
<1>9. ASSUME NEW p \in Procs, RestartUnflag(p) PROVE LocalInv'
  BY ZenonT(60), <1>9 DEF RestartUnflag
<1>10. ASSUME NEW p \in Procs, RestartEnable(p) PROVE LocalInv'
  BY <1>10 DEF RestartEnable
<1>11. ASSUME NEW p \in Procs, RestartClean(p) PROVE LocalInv'
  BY <1>11 DEF RestartClean
<1>12. ASSUME NEW p \in Procs, KillClear(p) \/ KillDone(p) PROVE LocalInv'
  BY <1>12 DEF KillClear, KillDone, UsageIsFree
<1>13. ASSUME NEW p \in Procs, KillLocker(p) PROVE LocalInv'
  BY <1>13 DEF KillLocker, Dies, accel_unlock_all, Released, Forget
<1>14. ASSUME NEW p \in Procs, ScheduleCheck(p) \/ ScheduleForce(p)
      PROVE LocalInv'
  BY <1>14 DEF ScheduleCheck, ScheduleReturn, ScheduleForce
<1>15. ASSUME NEW p \in Procs, SchedulePending(p) PROVE LocalInv'
  BY <1>15 DEF SchedulePending
<1>16. ASSUME NEW p \in Procs, ScheduleSave(p) PROVE LocalInv'
  BY <1>16 DEF ScheduleSave
<1>17. ASSUME NEW p \in Procs, ScheduleDisable(p) PROVE LocalInv'
  BY ZenonT(60), <1>17 DEF ScheduleDisable
<1>18. ASSUME NEW p \in Procs, UpdateLock(p) PROVE LocalInv'
  BY <1>18 DEF UpdateLock, zend_shared_alloc_lock
<1>19. ASSUME NEW p \in Procs, UpdateBody(p) PROVE LocalInv'
  BY <1>19, FoundEarly DEF UpdateBody, Found
<1>20. ASSUME NEW p \in Procs, UpdateUnlock(p) PROVE LocalInv'
  BY <1>20 DEF UpdateUnlock, zend_shared_alloc_unlock, Released
<1>21. ASSUME NEW p \in Procs, SetIncludePath(p) \/ opcache_reset(p)
      PROVE LocalInv'
  BY <1>21 DEF SetIncludePath, opcache_reset
<1>22. ASSUME NEW p \in Procs, ResolvePath(p) \/ CompileFile(p) \/
                    ReadLock(p)
      PROVE LocalInv'
  BY <1>22 DEF ResolvePath, CompileFile, ReadLock
<1>23. ASSUME NEW p \in Procs, OnEnable(p) PROVE LocalInv'
  BY <1>23 DEF OnEnable
<1>24. ASSUME NEW p \in Procs, ResolveFlag(p) \/ CompileFlag(p) \/
                    CompileGetlk(p)
      PROVE LocalInv'
  BY <1>24 DEF ResolveFlag, CompileFlag, CompileGetlk, RestartLockIsFree
<1>25. ASSUME NEW p \in Procs, CompileHeal(p) PROVE LocalInv'
  BY ZenonT(60), <1>25 DEF CompileHeal
<1>26. ASSUME NEW p \in Procs, ResolveFind(p) PROVE LocalInv'
  BY <1>26, FoundEarly DEF ResolveFind, Found
<1>27. ASSUME NEW p \in Procs, CompileCount(p) PROVE LocalInv'
  BY <1>27, AddClean DEF CompileCount, accel_activate_add, Others
<1>28. ASSUME NEW p \in Procs, CompileHit(p) PROVE LocalInv'
  BY <1>28, FoundEarly DEF CompileHit, Found
<1>29. ASSUME NEW p \in Procs, CompileMiss(p) \/ CompilePending(p)
      PROVE LocalInv'
  BY <1>29 DEF CompileMiss, CompilePending
<1>30. ASSUME NEW p \in Procs, ReadLockAdd(p) PROVE LocalInv'
  BY <1>30, AddClean DEF ReadLockAdd, accel_activate_add, Others
<1>31. ASSUME NEW p \in Procs, ReadLockFlag(p) PROVE LocalInv'
  BY <1>31 DEF ReadLockFlag
<1>32. ASSUME NEW p \in Procs, ReadLockDrop(p) PROVE LocalInv'
  BY <1>32 DEF ReadLockDrop, accel_deactivate_sub
<1>33. ASSUME NEW p \in Procs, ReadShm(p) PROVE LocalInv'
  BY <1>33, FoundEarly DEF ReadShm, Found
<1>34. ASSUME NEW p \in Procs, accelerator_shm_read_unlock(p) PROVE LocalInv'
  <2> USE <1>34 DEF accelerator_shm_read_unlock, accel_deactivate_sub, Forget
  <2>1. early' \in [Procs -> BOOLEAN] /\ clean' \in [Procs -> BOOLEAN]
    BY Zenon
  <2>2. TypeOK'
    BY ZenonT(60), <2>1
  <2>3. QED BY <2>2
<1>35. ASSUME NEW p \in Procs, accel_deactivate(p) PROVE LocalInv'
  <2> USE <1>35 DEF accel_deactivate, accel_unlock_all, Released, Forget
  <2>1. early' \in [Procs -> BOOLEAN] /\ clean' \in [Procs -> BOOLEAN]
    BY Zenon
  <2>2. TypeOK'
    BY ZenonT(60), <2>1
  <2>3. QED BY <2>2
<1>36. ASSUME NEW p \in Procs, Bailout(p) PROVE LocalInv'
  BY <1>36 DEF Bailout, Forget
<1>37. ASSUME NEW p \in Procs, Crash(p) PROVE LocalInv'
  BY <1>37 DEF Crash, Dies, accel_unlock_all, Released, Forget
<1>38. CASE DeadlinePasses
  BY <1>38 DEF DeadlinePasses
<1>q. QED
  BY ZenonT(60), <1>1, <1>2, <1>3, <1>4, <1>5, <1>6, <1>7, <1>8, <1>9, <1>10, <1>11, <1>12, <1>13,
     <1>14, <1>15, <1>16, <1>17, <1>18, <1>19, <1>20, <1>21, <1>22, <1>23, <1>24,
     <1>25, <1>26, <1>27, <1>28, <1>29, <1>30, <1>31, <1>32, <1>33, <1>34, <1>35,
     <1>36, <1>37, <1>38
  DEF Next, TakeWriteLock, Proceed, Begin

\* Every step keeps bytes 0 and 2 with the locations that need them.
LEMMA LockStep == LocalInv /\ LockInv /\ [Next]_vars => LockInv'
<1> SUFFICES ASSUME LocalInv, LockInv, Next PROVE LockInv'
  BY DEF LockInv, HoldsWriteLock, vars, locks
<1> USE NoProcAssumption
    DEF LocalInv, TypeOK, LockInv, HoldsWriteLock, locks, Goto, BodyPCs,
        SchedulePCs, RestartPCs, ActivatePCs, UpdatePCs
<1>1. ASSUME NEW p \in Procs, Activate(p) PROVE LockInv'
  BY <1>1 DEF Activate, accel_unlock_all, Released, Forget
<1>2. ASSUME NEW p \in Procs, ActivateCheck(p) \/ ActivateRecheck(p) \/
                    accel_is_inactive(p)
      PROVE LockInv'
  BY <1>2 DEF ActivateCheck, ActivateRecheck, accel_is_inactive, UsageIsFree
<1>3. ASSUME NEW p \in Procs, ActivateLock(p) PROVE LockInv'
  BY <1>3 DEF ActivateLock, zend_shared_alloc_lock
<1>4. ASSUME NEW p \in Procs, ActivateUnlock(p) PROVE LockInv'
  BY <1>4 DEF ActivateUnlock, zend_shared_alloc_unlock, Released
<1>5. ASSUME NEW p \in Procs, RestartClearPending(p) PROVE LockInv'
  BY <1>5 DEF RestartClearPending
<1>6. ASSUME NEW p \in Procs, zend_reset_cache_vars(p) PROVE LockInv'
  BY <1>6 DEF zend_reset_cache_vars
<1>7. ASSUME NEW p \in Procs, RestartLock(p) \/ RestartUnlock(p)
      PROVE LockInv'
  BY <1>7 DEF RestartLock, RestartLockIsFree, RestartUnlock, Released
<1>8. ASSUME NEW p \in Procs, RestartFlag(p) PROVE LockInv'
  BY <1>8 DEF RestartFlag
<1>9. ASSUME NEW p \in Procs, RestartUnflag(p) PROVE LockInv'
  BY <1>9 DEF RestartUnflag
<1>10. ASSUME NEW p \in Procs, RestartEnable(p) PROVE LockInv'
  BY <1>10 DEF RestartEnable
<1>11. ASSUME NEW p \in Procs, RestartClean(p) PROVE LockInv'
  BY <1>11 DEF RestartClean
<1>12. ASSUME NEW p \in Procs, KillClear(p) \/ KillDone(p) PROVE LockInv'
  BY <1>12 DEF KillClear, KillDone, UsageIsFree
<1>13. ASSUME NEW p \in Procs, KillLocker(p) PROVE LockInv'
  BY <1>13 DEF KillLocker, Dies, accel_unlock_all, Released, Forget
<1>14. ASSUME NEW p \in Procs, ScheduleCheck(p) \/ ScheduleForce(p)
      PROVE LockInv'
  BY <1>14 DEF ScheduleCheck, ScheduleReturn, ScheduleForce
<1>15. ASSUME NEW p \in Procs, SchedulePending(p) PROVE LockInv'
  BY <1>15 DEF SchedulePending
<1>16. ASSUME NEW p \in Procs, ScheduleSave(p) PROVE LockInv'
  BY <1>16 DEF ScheduleSave
<1>17. ASSUME NEW p \in Procs, ScheduleDisable(p) PROVE LockInv'
  BY <1>17 DEF ScheduleDisable
<1>18. ASSUME NEW p \in Procs, UpdateLock(p) PROVE LockInv'
  BY <1>18 DEF UpdateLock, zend_shared_alloc_lock
<1>19. ASSUME NEW p \in Procs, UpdateBody(p) PROVE LockInv'
  BY <1>19 DEF UpdateBody, Found
<1>20. ASSUME NEW p \in Procs, UpdateUnlock(p) PROVE LockInv'
  BY <1>20 DEF UpdateUnlock, zend_shared_alloc_unlock, Released
<1>21. ASSUME NEW p \in Procs, SetIncludePath(p) \/ opcache_reset(p)
      PROVE LockInv'
  BY <1>21 DEF SetIncludePath, opcache_reset
<1>22. ASSUME NEW p \in Procs, ResolvePath(p) \/ CompileFile(p) \/
                    ReadLock(p)
      PROVE LockInv'
  BY <1>22 DEF ResolvePath, CompileFile, ReadLock
<1>23. ASSUME NEW p \in Procs, OnEnable(p) PROVE LockInv'
  BY <1>23 DEF OnEnable
<1>24. ASSUME NEW p \in Procs, ResolveFlag(p) \/ CompileFlag(p) \/
                    CompileGetlk(p)
      PROVE LockInv'
  BY <1>24 DEF ResolveFlag, CompileFlag, CompileGetlk, RestartLockIsFree
<1>25. ASSUME NEW p \in Procs, CompileHeal(p) PROVE LockInv'
  BY <1>25 DEF CompileHeal
<1>26. ASSUME NEW p \in Procs, ResolveFind(p) PROVE LockInv'
  BY <1>26 DEF ResolveFind, Found
<1>27. ASSUME NEW p \in Procs, CompileCount(p) PROVE LockInv'
  BY <1>27 DEF CompileCount, accel_activate_add, Others
<1>28. ASSUME NEW p \in Procs, CompileHit(p) PROVE LockInv'
  BY <1>28 DEF CompileHit, Found
<1>29. ASSUME NEW p \in Procs, CompileMiss(p) \/ CompilePending(p)
      PROVE LockInv'
  BY <1>29 DEF CompileMiss, CompilePending
<1>30. ASSUME NEW p \in Procs, ReadLockAdd(p) PROVE LockInv'
  BY <1>30 DEF ReadLockAdd, accel_activate_add, Others
<1>31. ASSUME NEW p \in Procs, ReadLockFlag(p) PROVE LockInv'
  BY <1>31 DEF ReadLockFlag
<1>32. ASSUME NEW p \in Procs, ReadLockDrop(p) PROVE LockInv'
  BY <1>32 DEF ReadLockDrop, accel_deactivate_sub
<1>33. ASSUME NEW p \in Procs, ReadShm(p) PROVE LockInv'
  BY <1>33 DEF ReadShm, Found
<1>34. ASSUME NEW p \in Procs, accelerator_shm_read_unlock(p) PROVE LockInv'
  BY <1>34 DEF accelerator_shm_read_unlock, accel_deactivate_sub, Forget
<1>35. ASSUME NEW p \in Procs, accel_deactivate(p) PROVE LockInv'
  BY <1>35 DEF accel_deactivate, accel_unlock_all, Released, Forget
<1>36. ASSUME NEW p \in Procs, Bailout(p) PROVE LockInv'
  BY <1>36 DEF Bailout, Forget
<1>37. ASSUME NEW p \in Procs, Crash(p) PROVE LockInv'
  BY <1>37 DEF Crash, Dies, accel_unlock_all, Released, Forget
<1>38. CASE DeadlinePasses
  BY <1>38 DEF DeadlinePasses
<1>q. QED
  BY ZenonT(60), <1>1, <1>2, <1>3, <1>4, <1>5, <1>6, <1>7, <1>8, <1>9, <1>10, <1>11,
       <1>12, <1>13, <1>14, <1>15, <1>16, <1>17, <1>18, <1>19, <1>20, <1>21,
       <1>22, <1>23, <1>24, <1>25, <1>26, <1>27, <1>28, <1>29, <1>30, <1>31,
       <1>32, <1>33, <1>34, <1>35, <1>36, <1>37, <1>38
  DEF Next, TakeWriteLock, Proceed, Begin

\* Only the worker that holds byte 0 takes back the request for a restart.
LEMMA PendingStep == LocalInv /\ LockInv /\ PendingInv /\ [Next]_vars => PendingInv'
<1> SUFFICES ASSUME LocalInv, LockInv, PendingInv, Next PROVE PendingInv'
  BY DEF PendingInv, vars, shm
<1> USE NoProcAssumption
    DEF LocalInv, TypeOK, LockInv, HoldsWriteLock, PendingInv, shm, Goto,
        BodyPCs, SchedulePCs, RestartPCs, ActivatePCs, UpdatePCs
<1>1. ASSUME NEW p \in Procs, Activate(p) PROVE PendingInv'
  BY <1>1 DEF Activate, accel_unlock_all, Released, Forget
<1>2. ASSUME NEW p \in Procs, ActivateCheck(p) \/ ActivateRecheck(p) \/
                    accel_is_inactive(p)
      PROVE PendingInv'
  BY <1>2 DEF ActivateCheck, ActivateRecheck, accel_is_inactive, UsageIsFree
<1>3. ASSUME NEW p \in Procs, ActivateLock(p) PROVE PendingInv'
  BY <1>3 DEF ActivateLock, zend_shared_alloc_lock
<1>4. ASSUME NEW p \in Procs, ActivateUnlock(p) PROVE PendingInv'
  BY <1>4 DEF ActivateUnlock, zend_shared_alloc_unlock, Released
<1>5. ASSUME NEW p \in Procs, RestartClearPending(p) PROVE PendingInv'
  BY <1>5 DEF RestartClearPending
<1>6. ASSUME NEW p \in Procs, zend_reset_cache_vars(p) PROVE PendingInv'
  BY <1>6 DEF zend_reset_cache_vars
<1>7. ASSUME NEW p \in Procs, RestartLock(p) \/ RestartUnlock(p)
      PROVE PendingInv'
  BY <1>7 DEF RestartLock, RestartLockIsFree, RestartUnlock, Released
<1>8. ASSUME NEW p \in Procs, RestartFlag(p) PROVE PendingInv'
  BY <1>8 DEF RestartFlag
<1>9. ASSUME NEW p \in Procs, RestartUnflag(p) PROVE PendingInv'
  BY <1>9 DEF RestartUnflag
<1>10. ASSUME NEW p \in Procs, RestartEnable(p) PROVE PendingInv'
  BY <1>10 DEF RestartEnable
<1>11. ASSUME NEW p \in Procs, RestartClean(p) PROVE PendingInv'
  BY <1>11 DEF RestartClean
<1>12. ASSUME NEW p \in Procs, KillClear(p) \/ KillDone(p) PROVE PendingInv'
  BY <1>12 DEF KillClear, KillDone, UsageIsFree
<1>13. ASSUME NEW p \in Procs, KillLocker(p) PROVE PendingInv'
  BY <1>13 DEF KillLocker, Dies, accel_unlock_all, Released, Forget
<1>14. ASSUME NEW p \in Procs, ScheduleCheck(p) \/ ScheduleForce(p)
      PROVE PendingInv'
  BY <1>14 DEF ScheduleCheck, ScheduleReturn, ScheduleForce
<1>15. ASSUME NEW p \in Procs, SchedulePending(p) PROVE PendingInv'
  BY <1>15 DEF SchedulePending
<1>16. ASSUME NEW p \in Procs, ScheduleSave(p) PROVE PendingInv'
  BY <1>16 DEF ScheduleSave
<1>17. ASSUME NEW p \in Procs, ScheduleDisable(p) PROVE PendingInv'
  BY <1>17 DEF ScheduleDisable
<1>18. ASSUME NEW p \in Procs, UpdateLock(p) PROVE PendingInv'
  BY <1>18 DEF UpdateLock, zend_shared_alloc_lock
<1>19. ASSUME NEW p \in Procs, UpdateBody(p) PROVE PendingInv'
  BY <1>19 DEF UpdateBody, Found
<1>20. ASSUME NEW p \in Procs, UpdateUnlock(p) PROVE PendingInv'
  BY <1>20 DEF UpdateUnlock, zend_shared_alloc_unlock, Released
<1>21. ASSUME NEW p \in Procs, SetIncludePath(p) \/ opcache_reset(p)
      PROVE PendingInv'
  BY <1>21 DEF SetIncludePath, opcache_reset
<1>22. ASSUME NEW p \in Procs, ResolvePath(p) \/ CompileFile(p) \/
                    ReadLock(p)
      PROVE PendingInv'
  BY <1>22 DEF ResolvePath, CompileFile, ReadLock
<1>23. ASSUME NEW p \in Procs, OnEnable(p) PROVE PendingInv'
  BY <1>23 DEF OnEnable
<1>24. ASSUME NEW p \in Procs, ResolveFlag(p) \/ CompileFlag(p) \/
                    CompileGetlk(p)
      PROVE PendingInv'
  BY <1>24 DEF ResolveFlag, CompileFlag, CompileGetlk, RestartLockIsFree
<1>25. ASSUME NEW p \in Procs, CompileHeal(p) PROVE PendingInv'
  BY <1>25 DEF CompileHeal
<1>26. ASSUME NEW p \in Procs, ResolveFind(p) PROVE PendingInv'
  BY <1>26 DEF ResolveFind, Found
<1>27. ASSUME NEW p \in Procs, CompileCount(p) PROVE PendingInv'
  BY <1>27 DEF CompileCount, accel_activate_add, Others
<1>28. ASSUME NEW p \in Procs, CompileHit(p) PROVE PendingInv'
  BY <1>28 DEF CompileHit, Found
<1>29. ASSUME NEW p \in Procs, CompileMiss(p) \/ CompilePending(p)
      PROVE PendingInv'
  BY <1>29 DEF CompileMiss, CompilePending
<1>30. ASSUME NEW p \in Procs, ReadLockAdd(p) PROVE PendingInv'
  BY <1>30 DEF ReadLockAdd, accel_activate_add, Others
<1>31. ASSUME NEW p \in Procs, ReadLockFlag(p) PROVE PendingInv'
  BY <1>31 DEF ReadLockFlag
<1>32. ASSUME NEW p \in Procs, ReadLockDrop(p) PROVE PendingInv'
  BY <1>32 DEF ReadLockDrop, accel_deactivate_sub
<1>33. ASSUME NEW p \in Procs, ReadShm(p) PROVE PendingInv'
  BY <1>33 DEF ReadShm, Found
<1>34. ASSUME NEW p \in Procs, accelerator_shm_read_unlock(p)
      PROVE PendingInv'
  BY <1>34 DEF accelerator_shm_read_unlock, accel_deactivate_sub, Forget
<1>35. ASSUME NEW p \in Procs, accel_deactivate(p) PROVE PendingInv'
  BY <1>35 DEF accel_deactivate, accel_unlock_all, Released, Forget
<1>36. ASSUME NEW p \in Procs, Bailout(p) PROVE PendingInv'
  BY <1>36 DEF Bailout, Forget
<1>37. ASSUME NEW p \in Procs, Crash(p) PROVE PendingInv'
  BY <1>37 DEF Crash, Dies, accel_unlock_all, Released, Forget
<1>38. CASE DeadlinePasses
  BY <1>38 DEF DeadlinePasses
<1>q. QED
  BY ZenonT(60), <1>1, <1>2, <1>3, <1>4, <1>5, <1>6, <1>7, <1>8, <1>9, <1>10, <1>11,
       <1>12, <1>13, <1>14, <1>15, <1>16, <1>17, <1>18, <1>19, <1>20, <1>21,
       <1>22, <1>23, <1>24, <1>25, <1>26, <1>27, <1>28, <1>29, <1>30, <1>31,
       <1>32, <1>33, <1>34, <1>35, <1>36, <1>37, <1>38
  DEF Next, TakeWriteLock, Proceed, Begin

\* Every step keeps the readers and the wipe apart.
LEMMA ReaderStep == LocalInv /\ ReaderInv /\ [Next]_vars => ReaderInv'
<1> SUFFICES ASSUME LocalInv, ReaderInv, Next PROVE ReaderInv'
  BY DEF ReaderInv, RestartWaitsForReaders, LockedPointerValid, Others, vars, shm, locks,
         ghost
<1> USE NoProcAssumption
    DEF LocalInv, TypeOK, ReaderInv, RestartWaitsForReaders,
        LockedPointerValid, Others, WipePCs, shm, locks, ghost, Goto, BodyPCs,
        SchedulePCs, RestartPCs, ActivatePCs, UpdatePCs
<1>1. ASSUME NEW p \in Procs, Activate(p) PROVE ReaderInv'
  BY <1>1 DEF Activate, accel_unlock_all, Released, Forget
<1>2. ASSUME NEW p \in Procs, ActivateCheck(p) \/ ActivateRecheck(p) \/
                    accel_is_inactive(p)
      PROVE ReaderInv'
  BY <1>2 DEF ActivateCheck, ActivateRecheck, accel_is_inactive, UsageIsFree
<1>3. ASSUME NEW p \in Procs, ActivateLock(p) PROVE ReaderInv'
  BY <1>3 DEF ActivateLock, zend_shared_alloc_lock
<1>4. ASSUME NEW p \in Procs, ActivateUnlock(p) PROVE ReaderInv'
  BY <1>4 DEF ActivateUnlock, zend_shared_alloc_unlock, Released
<1>5. ASSUME NEW p \in Procs, RestartClearPending(p) PROVE ReaderInv'
  BY <1>5 DEF RestartClearPending
<1>6. ASSUME NEW p \in Procs, zend_reset_cache_vars(p) PROVE ReaderInv'
  BY <1>6 DEF zend_reset_cache_vars
<1>7. ASSUME NEW p \in Procs, RestartLock(p) \/ RestartUnlock(p)
      PROVE ReaderInv'
  BY <1>7 DEF RestartLock, RestartLockIsFree, RestartUnlock, Released
<1>8. ASSUME NEW p \in Procs, RestartFlag(p) PROVE ReaderInv'
  BY <1>8 DEF RestartFlag
<1>9. ASSUME NEW p \in Procs, RestartUnflag(p) PROVE ReaderInv'
  BY <1>9 DEF RestartUnflag
<1>10. ASSUME NEW p \in Procs, RestartEnable(p) PROVE ReaderInv'
  BY <1>10 DEF RestartEnable
<1>11. ASSUME NEW p \in Procs, RestartClean(p) PROVE ReaderInv'
  BY <1>11 DEF RestartClean
<1>12. ASSUME NEW p \in Procs, KillClear(p) \/ KillDone(p) PROVE ReaderInv'
  BY <1>12 DEF KillClear, KillDone, UsageIsFree
<1>13. ASSUME NEW p \in Procs, KillLocker(p) PROVE ReaderInv'
  BY <1>13 DEF KillLocker, Dies, accel_unlock_all, Released, Forget
<1>14. ASSUME NEW p \in Procs, ScheduleCheck(p) \/ ScheduleForce(p)
      PROVE ReaderInv'
  BY <1>14 DEF ScheduleCheck, ScheduleReturn, ScheduleForce
<1>15. ASSUME NEW p \in Procs, SchedulePending(p) PROVE ReaderInv'
  BY <1>15 DEF SchedulePending
<1>16. ASSUME NEW p \in Procs, ScheduleSave(p) PROVE ReaderInv'
  BY <1>16 DEF ScheduleSave
<1>17. ASSUME NEW p \in Procs, ScheduleDisable(p) PROVE ReaderInv'
  BY <1>17 DEF ScheduleDisable
<1>18. ASSUME NEW p \in Procs, UpdateLock(p) PROVE ReaderInv'
  BY <1>18 DEF UpdateLock, zend_shared_alloc_lock
<1>19. ASSUME NEW p \in Procs, UpdateBody(p) PROVE ReaderInv'
  BY <1>19, FoundEarly DEF UpdateBody, Found
<1>20. ASSUME NEW p \in Procs, UpdateUnlock(p) PROVE ReaderInv'
  BY <1>20 DEF UpdateUnlock, zend_shared_alloc_unlock, Released
<1>21. ASSUME NEW p \in Procs, SetIncludePath(p) \/ opcache_reset(p)
      PROVE ReaderInv'
  BY <1>21 DEF SetIncludePath, opcache_reset
<1>22. ASSUME NEW p \in Procs, ResolvePath(p) \/ CompileFile(p) \/
                    ReadLock(p)
      PROVE ReaderInv'
  BY <1>22 DEF ResolvePath, CompileFile, ReadLock
<1>23. ASSUME NEW p \in Procs, OnEnable(p) PROVE ReaderInv'
  BY <1>23 DEF OnEnable
<1>24. ASSUME NEW p \in Procs, ResolveFlag(p) \/ CompileFlag(p) \/
                    CompileGetlk(p)
      PROVE ReaderInv'
  BY <1>24 DEF ResolveFlag, CompileFlag, CompileGetlk, RestartLockIsFree
<1>25. ASSUME NEW p \in Procs, CompileHeal(p) PROVE ReaderInv'
  BY SMTT(40), <1>25 DEF CompileHeal
<1>26. ASSUME NEW p \in Procs, ResolveFind(p) PROVE ReaderInv'
  BY <1>26, FoundEarly DEF ResolveFind, Found
<1>27. ASSUME NEW p \in Procs, CompileCount(p) PROVE ReaderInv'
  BY SMTT(40), <1>27, AddClean DEF CompileCount, accel_activate_add, Others
<1>28. ASSUME NEW p \in Procs, CompileHit(p) PROVE ReaderInv'
  BY <1>28, FoundEarly DEF CompileHit, Found
<1>29. ASSUME NEW p \in Procs, CompileMiss(p) \/ CompilePending(p)
      PROVE ReaderInv'
  BY SMTT(40), <1>29 DEF CompileMiss, CompilePending
<1>30. ASSUME NEW p \in Procs, ReadLockAdd(p) PROVE ReaderInv'
  BY <1>30, AddClean DEF ReadLockAdd, accel_activate_add, Others
<1>31. ASSUME NEW p \in Procs, ReadLockFlag(p) PROVE ReaderInv'
  BY <1>31 DEF ReadLockFlag
<1>32. ASSUME NEW p \in Procs, ReadLockDrop(p) PROVE ReaderInv'
  BY SMTT(40), <1>32 DEF ReadLockDrop, accel_deactivate_sub
<1>33. ASSUME NEW p \in Procs, ReadShm(p) PROVE ReaderInv'
  BY <1>33, FoundEarly DEF ReadShm, Found
<1>34. ASSUME NEW p \in Procs, accelerator_shm_read_unlock(p) PROVE ReaderInv'
  BY <1>34 DEF accelerator_shm_read_unlock, accel_deactivate_sub, Forget
<1>35. ASSUME NEW p \in Procs, accel_deactivate(p) PROVE ReaderInv'
  BY <1>35 DEF accel_deactivate, accel_unlock_all, Released, Forget
<1>36. ASSUME NEW p \in Procs, Bailout(p) PROVE ReaderInv'
  BY <1>36 DEF Bailout, Forget
<1>37. ASSUME NEW p \in Procs, Crash(p) PROVE ReaderInv'
  BY <1>37 DEF Crash, Dies, accel_unlock_all, Released, Forget
<1>38. CASE DeadlinePasses
  BY <1>38 DEF DeadlinePasses
<1>q. QED
  BY ZenonT(60), <1>1, <1>2, <1>3, <1>4, <1>5, <1>6, <1>7, <1>8, <1>9, <1>10, <1>11,
       <1>12, <1>13, <1>14, <1>15, <1>16, <1>17, <1>18, <1>19, <1>20, <1>21,
       <1>22, <1>23, <1>24, <1>25, <1>26, <1>27, <1>28, <1>29, <1>30, <1>31,
       <1>32, <1>33, <1>34, <1>35, <1>36, <1>37, <1>38
  DEF Next, TakeWriteLock, Proceed, Begin

\* A worker leaves the locations of the flag only by clearing it or by a fault.
LEMMA FlagStep == LocalInv /\ LockInv /\ RestartFlagNotStuck /\ [Next]_vars => RestartFlagNotStuck'
<1> SUFFICES ASSUME LocalInv, LockInv, RestartFlagNotStuck, Next PROVE RestartFlagNotStuck'
  BY Zenon DEF RestartFlagNotStuck, vars, shm
<1> USE NoProcAssumption, ConfigAssumption
    DEF LocalInv, TypeOK, LockInv, HoldsWriteLock, RestartFlagNotStuck,
        FlaggedPCs, shm, Goto, BodyPCs, SchedulePCs, RestartPCs, ActivatePCs,
        UpdatePCs
<1>1. ASSUME NEW p \in Procs, Activate(p) PROVE RestartFlagNotStuck'
  BY <1>1 DEF Activate, accel_unlock_all, Released, Forget
<1>2. ASSUME NEW p \in Procs, ActivateCheck(p) \/ ActivateRecheck(p) \/
                    accel_is_inactive(p)
      PROVE RestartFlagNotStuck'
  BY ZenonT(60), <1>2 DEF ActivateCheck, ActivateRecheck, accel_is_inactive, UsageIsFree
<1>3. ASSUME NEW p \in Procs, ActivateLock(p) PROVE RestartFlagNotStuck'
  BY <1>3 DEF ActivateLock, zend_shared_alloc_lock
<1>4. ASSUME NEW p \in Procs, ActivateUnlock(p) PROVE RestartFlagNotStuck'
  BY <1>4 DEF ActivateUnlock, zend_shared_alloc_unlock, Released
<1>5. ASSUME NEW p \in Procs, RestartClearPending(p)
      PROVE RestartFlagNotStuck'
  BY <1>5 DEF RestartClearPending
<1>6. ASSUME NEW p \in Procs, zend_reset_cache_vars(p)
      PROVE RestartFlagNotStuck'
  BY <1>6 DEF zend_reset_cache_vars
<1>7. ASSUME NEW p \in Procs, RestartLock(p) \/ RestartUnlock(p)
      PROVE RestartFlagNotStuck'
  BY ZenonT(60), <1>7 DEF RestartLock, RestartLockIsFree, RestartUnlock, Released
<1>8. ASSUME NEW p \in Procs, RestartFlag(p) PROVE RestartFlagNotStuck'
  BY <1>8 DEF RestartFlag
<1>9. ASSUME NEW p \in Procs, RestartUnflag(p) PROVE RestartFlagNotStuck'
  BY <1>9 DEF RestartUnflag
<1>10. ASSUME NEW p \in Procs, RestartEnable(p) PROVE RestartFlagNotStuck'
  BY <1>10 DEF RestartEnable
<1>11. ASSUME NEW p \in Procs, RestartClean(p) PROVE RestartFlagNotStuck'
  BY <1>11 DEF RestartClean
<1>12. ASSUME NEW p \in Procs, KillClear(p) \/ KillDone(p)
      PROVE RestartFlagNotStuck'
  BY ZenonT(60), <1>12 DEF KillClear, KillDone, UsageIsFree
<1>13. ASSUME NEW p \in Procs, KillLocker(p) PROVE RestartFlagNotStuck'
  BY <1>13 DEF KillLocker, Dies, accel_unlock_all, Released, Forget
<1>14. ASSUME NEW p \in Procs, ScheduleCheck(p) \/ ScheduleForce(p)
      PROVE RestartFlagNotStuck'
  BY ZenonT(60), <1>14 DEF ScheduleCheck, ScheduleReturn, ScheduleForce
<1>15. ASSUME NEW p \in Procs, SchedulePending(p) PROVE RestartFlagNotStuck'
  BY <1>15 DEF SchedulePending
<1>16. ASSUME NEW p \in Procs, ScheduleSave(p) PROVE RestartFlagNotStuck'
  BY <1>16 DEF ScheduleSave
<1>17. ASSUME NEW p \in Procs, ScheduleDisable(p) PROVE RestartFlagNotStuck'
  BY <1>17 DEF ScheduleDisable
<1>18. ASSUME NEW p \in Procs, UpdateLock(p) PROVE RestartFlagNotStuck'
  BY <1>18 DEF UpdateLock, zend_shared_alloc_lock
<1>19. ASSUME NEW p \in Procs, UpdateBody(p) PROVE RestartFlagNotStuck'
  BY <1>19 DEF UpdateBody, Found
<1>20. ASSUME NEW p \in Procs, UpdateUnlock(p) PROVE RestartFlagNotStuck'
  BY <1>20 DEF UpdateUnlock, zend_shared_alloc_unlock, Released
<1>21. ASSUME NEW p \in Procs, SetIncludePath(p) \/ opcache_reset(p)
      PROVE RestartFlagNotStuck'
  BY ZenonT(60), <1>21 DEF SetIncludePath, opcache_reset
<1>22. ASSUME NEW p \in Procs, ResolvePath(p) \/ CompileFile(p) \/
                    ReadLock(p)
      PROVE RestartFlagNotStuck'
  BY ZenonT(60), <1>22 DEF ResolvePath, CompileFile, ReadLock
<1>23. ASSUME NEW p \in Procs, OnEnable(p) PROVE RestartFlagNotStuck'
  BY <1>23 DEF OnEnable
<1>24. ASSUME NEW p \in Procs, ResolveFlag(p) \/ CompileFlag(p) \/
                    CompileGetlk(p)
      PROVE RestartFlagNotStuck'
  BY ZenonT(60), <1>24 DEF ResolveFlag, CompileFlag, CompileGetlk, RestartLockIsFree
<1>25. ASSUME NEW p \in Procs, CompileHeal(p) PROVE RestartFlagNotStuck'
  BY <1>25 DEF CompileHeal
<1>26. ASSUME NEW p \in Procs, ResolveFind(p) PROVE RestartFlagNotStuck'
  BY <1>26 DEF ResolveFind, Found
<1>27. ASSUME NEW p \in Procs, CompileCount(p) PROVE RestartFlagNotStuck'
  BY <1>27 DEF CompileCount, accel_activate_add, Others
<1>28. ASSUME NEW p \in Procs, CompileHit(p) PROVE RestartFlagNotStuck'
  BY <1>28 DEF CompileHit, Found
<1>29. ASSUME NEW p \in Procs, CompileMiss(p) \/ CompilePending(p)
      PROVE RestartFlagNotStuck'
  BY ZenonT(60), <1>29 DEF CompileMiss, CompilePending
<1>30. ASSUME NEW p \in Procs, ReadLockAdd(p) PROVE RestartFlagNotStuck'
  BY <1>30 DEF ReadLockAdd, accel_activate_add, Others
<1>31. ASSUME NEW p \in Procs, ReadLockFlag(p) PROVE RestartFlagNotStuck'
  BY <1>31 DEF ReadLockFlag
<1>32. ASSUME NEW p \in Procs, ReadLockDrop(p) PROVE RestartFlagNotStuck'
  BY <1>32 DEF ReadLockDrop, accel_deactivate_sub
<1>33. ASSUME NEW p \in Procs, ReadShm(p) PROVE RestartFlagNotStuck'
  BY <1>33 DEF ReadShm, Found
<1>34. ASSUME NEW p \in Procs, accelerator_shm_read_unlock(p)
      PROVE RestartFlagNotStuck'
  BY ZenonT(60), <1>34 DEF accelerator_shm_read_unlock, accel_deactivate_sub, Forget
<1>35. ASSUME NEW p \in Procs, accel_deactivate(p) PROVE RestartFlagNotStuck'
  BY ZenonT(60), <1>35 DEF accel_deactivate, accel_unlock_all, Released, Forget
<1>36. ASSUME NEW p \in Procs, Bailout(p) PROVE RestartFlagNotStuck'
  BY <1>36 DEF Bailout, Forget
<1>37. ASSUME NEW p \in Procs, Crash(p) PROVE RestartFlagNotStuck'
  BY <1>37 DEF Crash, Dies, accel_unlock_all, Released, Forget
<1>38. CASE DeadlinePasses
  BY <1>38 DEF DeadlinePasses
<1>q. QED
  BY ZenonT(60), <1>1, <1>2, <1>3, <1>4, <1>5, <1>6, <1>7, <1>8, <1>9, <1>10, <1>11,
       <1>12, <1>13, <1>14, <1>15, <1>16, <1>17, <1>18, <1>19, <1>20, <1>21,
       <1>22, <1>23, <1>24, <1>25, <1>26, <1>27, <1>28, <1>29, <1>30, <1>31,
       <1>32, <1>33, <1>34, <1>35, <1>36, <1>37, <1>38
  DEF Next, TakeWriteLock, Proceed, Begin

\* A schedule saves "on", and a restart finds it saved.
LEMMA EnableStep == ~ResetApi /\ LocalInv /\ LockInv /\ PendingInv /\ EnableInv /\ [Next]_vars => EnableInv'
<1> SUFFICES ASSUME ~ResetApi, LocalInv, LockInv, PendingInv, EnableInv, Next PROVE EnableInv'
  BY DEF EnableInv, AcceleratorNotLost, vars, shm
<1> USE NoProcAssumption, ConfigAssumption
    DEF LocalInv, TypeOK, LockInv, HoldsWriteLock, PendingInv, EnableInv,
        AcceleratorNotLost, shm, Goto, BodyPCs, SchedulePCs, RestartPCs,
        ActivatePCs, UpdatePCs
<1>1. ASSUME NEW p \in Procs, Activate(p) PROVE EnableInv'
  BY <1>1 DEF Activate, accel_unlock_all, Released, Forget
<1>2. ASSUME NEW p \in Procs, ActivateCheck(p) \/ ActivateRecheck(p) \/
                    accel_is_inactive(p)
      PROVE EnableInv'
  BY <1>2 DEF ActivateCheck, ActivateRecheck, accel_is_inactive, UsageIsFree
<1>3. ASSUME NEW p \in Procs, ActivateLock(p) PROVE EnableInv'
  BY <1>3 DEF ActivateLock, zend_shared_alloc_lock
<1>4. ASSUME NEW p \in Procs, ActivateUnlock(p) PROVE EnableInv'
  BY <1>4 DEF ActivateUnlock, zend_shared_alloc_unlock, Released
<1>5. ASSUME NEW p \in Procs, RestartClearPending(p) PROVE EnableInv'
  BY <1>5 DEF RestartClearPending
<1>6. ASSUME NEW p \in Procs, zend_reset_cache_vars(p) PROVE EnableInv'
  BY <1>6 DEF zend_reset_cache_vars
<1>7. ASSUME NEW p \in Procs, RestartLock(p) \/ RestartUnlock(p)
      PROVE EnableInv'
  BY <1>7 DEF RestartLock, RestartLockIsFree, RestartUnlock, Released
<1>8. ASSUME NEW p \in Procs, RestartFlag(p) PROVE EnableInv'
  BY <1>8 DEF RestartFlag
<1>9. ASSUME NEW p \in Procs, RestartUnflag(p) PROVE EnableInv'
  BY <1>9 DEF RestartUnflag
<1>10. ASSUME NEW p \in Procs, RestartEnable(p) PROVE EnableInv'
  BY <1>10 DEF RestartEnable
<1>11. ASSUME NEW p \in Procs, RestartClean(p) PROVE EnableInv'
  BY <1>11 DEF RestartClean
<1>12. ASSUME NEW p \in Procs, KillClear(p) \/ KillDone(p) PROVE EnableInv'
  BY SMTT(40), <1>12 DEF KillClear, KillDone, UsageIsFree
<1>13. ASSUME NEW p \in Procs, KillLocker(p) PROVE EnableInv'
  BY SMTT(40), <1>13 DEF KillLocker, Dies, accel_unlock_all, Released, Forget
<1>14. ASSUME NEW p \in Procs, ScheduleCheck(p) \/ ScheduleForce(p)
      PROVE EnableInv'
  BY <1>14 DEF ScheduleCheck, ScheduleReturn, ScheduleForce
<1>15. ASSUME NEW p \in Procs, SchedulePending(p) PROVE EnableInv'
  BY <1>15 DEF SchedulePending
<1>16. ASSUME NEW p \in Procs, ScheduleSave(p) PROVE EnableInv'
  BY <1>16 DEF ScheduleSave
<1>17. ASSUME NEW p \in Procs, ScheduleDisable(p) PROVE EnableInv'
  BY <1>17 DEF ScheduleDisable
<1>18. ASSUME NEW p \in Procs, UpdateLock(p) PROVE EnableInv'
  BY <1>18 DEF UpdateLock, zend_shared_alloc_lock
<1>19. ASSUME NEW p \in Procs, UpdateBody(p) PROVE EnableInv'
  BY SMTT(40), <1>19 DEF UpdateBody, Found
<1>20. ASSUME NEW p \in Procs, UpdateUnlock(p) PROVE EnableInv'
  BY SMTT(40), <1>20 DEF UpdateUnlock, zend_shared_alloc_unlock, Released
<1>21. ASSUME NEW p \in Procs, SetIncludePath(p) \/ opcache_reset(p)
      PROVE EnableInv'
  BY SMTT(40), <1>21 DEF SetIncludePath, opcache_reset
<1>22. ASSUME NEW p \in Procs, ResolvePath(p) \/ CompileFile(p) \/
                    ReadLock(p)
      PROVE EnableInv'
  BY <1>22 DEF ResolvePath, CompileFile, ReadLock
<1>23. ASSUME NEW p \in Procs, OnEnable(p) PROVE EnableInv'
  BY ZenonT(60), <1>23 DEF OnEnable
<1>24. ASSUME NEW p \in Procs, ResolveFlag(p) \/ CompileFlag(p) \/
                    CompileGetlk(p)
      PROVE EnableInv'
  BY <1>24 DEF ResolveFlag, CompileFlag, CompileGetlk, RestartLockIsFree
<1>25. ASSUME NEW p \in Procs, CompileHeal(p) PROVE EnableInv'
  BY SMTT(40), <1>25 DEF CompileHeal
<1>26. ASSUME NEW p \in Procs, ResolveFind(p) PROVE EnableInv'
  BY SMTT(40), <1>26 DEF ResolveFind, Found
<1>27. ASSUME NEW p \in Procs, CompileCount(p) PROVE EnableInv'
  BY SMTT(40), <1>27 DEF CompileCount, accel_activate_add, Others
<1>28. ASSUME NEW p \in Procs, CompileHit(p) PROVE EnableInv'
  BY SMTT(40), <1>28 DEF CompileHit, Found
<1>29. ASSUME NEW p \in Procs, CompileMiss(p) \/ CompilePending(p)
      PROVE EnableInv'
  BY SMTT(40), <1>29 DEF CompileMiss, CompilePending
<1>30. ASSUME NEW p \in Procs, ReadLockAdd(p) PROVE EnableInv'
  BY SMTT(40), <1>30 DEF ReadLockAdd, accel_activate_add, Others
<1>31. ASSUME NEW p \in Procs, ReadLockFlag(p) PROVE EnableInv'
  BY SMTT(40), <1>31 DEF ReadLockFlag
<1>32. ASSUME NEW p \in Procs, ReadLockDrop(p) PROVE EnableInv'
  BY SMTT(40), <1>32 DEF ReadLockDrop, accel_deactivate_sub
<1>33. ASSUME NEW p \in Procs, ReadShm(p) PROVE EnableInv'
  BY SMTT(40), <1>33 DEF ReadShm, Found
<1>34. ASSUME NEW p \in Procs, accelerator_shm_read_unlock(p) PROVE EnableInv'
  BY SMTT(40), <1>34 DEF accelerator_shm_read_unlock, accel_deactivate_sub, Forget
<1>35. ASSUME NEW p \in Procs, accel_deactivate(p) PROVE EnableInv'
  BY SMTT(40), <1>35 DEF accel_deactivate, accel_unlock_all, Released, Forget
<1>36. ASSUME NEW p \in Procs, Bailout(p) PROVE EnableInv'
  BY SMTT(40), <1>36 DEF Bailout, Forget
<1>37. ASSUME NEW p \in Procs, Crash(p) PROVE EnableInv'
  BY SMTT(40), <1>37 DEF Crash, Dies, accel_unlock_all, Released, Forget
<1>38. CASE DeadlinePasses
  BY <1>38 DEF DeadlinePasses
<1>q. QED
  BY ZenonT(60), <1>1, <1>2, <1>3, <1>4, <1>5, <1>6, <1>7, <1>8, <1>9, <1>10, <1>11,
       <1>12, <1>13, <1>14, <1>15, <1>16, <1>17, <1>18, <1>19, <1>20, <1>21,
       <1>22, <1>23, <1>24, <1>25, <1>26, <1>27, <1>28, <1>29, <1>30, <1>31,
       <1>32, <1>33, <1>34, <1>35, <1>36, <1>37, <1>38
  DEF Next, TakeWriteLock, Proceed, Begin

\* The first request of every worker is still to come.
LEMMA InitLocal == Init => LocalInv
<1> SUFFICES ASSUME Init PROVE LocalInv
  OBVIOUS
<1>1. pc \in [Procs -> PCs]
  BY DEF Init, PCs
<1>2. /\ counted \in [Procs -> BOOLEAN] /\ enabled \in [Procs -> BOOLEAN]
      /\ clean \in [Procs -> BOOLEAN] /\ early \in [Procs -> BOOLEAN]
  BY Zenon DEF Init
<1>3. /\ ret \in [Procs -> {"run", "cf_pending", "store", "rl_unlock", "reset"}]
      /\ script \in [Procs -> {"none", "fresh", "stale"}]
      /\ faults \in 0 .. MaxFaults
  BY ConfigAssumption DEF Init
<1>4. /\ restart_pending \in BOOLEAN /\ restart_in_progress \in BOOLEAN
      /\ accelerator_enabled \in BOOLEAN
      /\ cache_status_before_restart \in BOOLEAN
      /\ force_restart_time \in {"off", "set", "due"}
      /\ mem_write_lock \in Procs \cup {NoProc}
      /\ mem_usage \in SUBSET Procs
      /\ restart_lock \in Procs \cup {NoProc}
  BY Zenon DEF Init
<1>5. TypeOK
  BY <1>1, <1>2, <1>3, <1>4 DEF TypeOK
<1>6. QED
  BY <1>5 DEF Init, LocalInv, UpdatePCs, SchedulePCs, ActivatePCs, RestartPCs

\* The words, locks and locals keep their types, and the locals of a worker
\* agree with where it is in accel_activate(), persistent_compile_file() and the
\* other entry points.
THEOREM TypeCorrect == Spec => []TypeOK
<1>1. Init => LocalInv
  BY SMTT(40), InitLocal
<1>2. LocalInv => TypeOK
  BY DEF LocalInv
<1>3. QED
  BY <1>1, <1>2, LocalStep, PTL DEF Spec

\* The layers hold together in every reachable state.
LEMMA LocksCorrect == Spec => [](LocalInv /\ LockInv)
<1>1. Init => LocalInv /\ LockInv
  BY InitLocal, NoProcAssumption
  DEF Init, LockInv, HoldsWriteLock, SchedulePCs, ActivatePCs, RestartPCs
<1>2. QED
  BY <1>1, LocalStep, LockStep, PTL DEF Spec

\* The F_SETLK of accel_restart_enter(), whose failure would only be logged,
\* cannot fail, whatever workers died before it.
THEOREM RestartLockCorrect == Spec => []RestartLockAvailable
<1>1. LocalInv /\ LockInv => RestartLockAvailable
  BY NoProcAssumption
  DEF LocalInv, TypeOK, LockInv, HoldsWriteLock, RestartLockAvailable,
      RestartLockIsFree, ActivatePCs, RestartPCs
<1>2. QED
  BY <1>1, LocksCorrect, PTL

\* The second test of restart_pending makes a restart happen at most once for
\* each request for it.
THEOREM OneRestartCorrect == Spec => []OneRestartPerSchedule
<1>1. Init => PendingInv
  BY DEF Init, PendingInv
<1>2. PendingInv => OneRestartPerSchedule
  BY DEF PendingInv, OneRestartPerSchedule
<1>3. QED
  BY <1>1, <1>2, LocksCorrect, PendingStep, PTL DEF Spec

\* accel_is_inactive() keeps the wipe away from the workers that took byte 1
\* before its test.
THEOREM ReadersCorrect == Spec => []RestartWaitsForReaders
<1>1. Init => ReaderInv
  BY DEF Init, ReaderInv, RestartWaitsForReaders, LockedPointerValid
<1>2. ReaderInv => RestartWaitsForReaders
  BY DEF ReaderInv
<1>3. QED
  BY <1>1, <1>2, LocksCorrect, ReaderStep, PTL DEF Spec

\* A script found after byte 1 was taken with no restart under way never
\* dangles, through opcache_invalidate(), aborted requests and forced restarts.
THEOREM PointersCorrect == Spec => []LockedPointerValid
<1>1. Init => ReaderInv
  BY DEF Init, ReaderInv, RestartWaitsForReaders, LockedPointerValid
<1>2. ReaderInv => LockedPointerValid
  BY DEF ReaderInv
<1>3. QED
  BY <1>1, <1>2, LocksCorrect, ReaderStep, PTL DEF Spec

\* Until a first fault, restart_in_progress is set only while a worker is
\* between accel_restart_enter() and accel_restart_leave().
THEOREM FlagCorrect == Spec => []RestartFlagNotStuck
<1>1. Init => RestartFlagNotStuck
  BY DEF Init, RestartFlagNotStuck
<1>2. QED
  BY <1>1, LocksCorrect, FlagStep, PTL DEF Spec

\* Where opcache_reset() is not called, and until a first fault, every restart
\* turns the accelerator on again.
THEOREM AcceleratorCorrect ==
  ASSUME ~ResetApi
  PROVE  Spec => []AcceleratorNotLost
<1>1. Init => PendingInv /\ EnableInv
  BY DEF Init, PendingInv, EnableInv, AcceleratorNotLost, RestartPCs
<1>2. EnableInv /\ LocalInv => AcceleratorNotLost
  BY DEF EnableInv, AcceleratorNotLost
<1>3. LocalInv /\ LockInv /\ PendingInv /\ EnableInv /\ [Next]_vars => EnableInv'
  BY EnableStep
<1>4. QED
  BY <1>1, <1>2, <1>3, LocksCorrect, PendingStep, PTL DEF Spec

(***************************************************************************)
(* OpcacheRestart implements SharedCache.                                  *)
(***************************************************************************)
\* What the refinement rests on.
CacheInv == LocalInv /\ LockInv /\ PendingInv /\ ReaderInv

\* A worker that moves outside the restart changes nobody's part in a wipe.
LEMMA QuietMove ==
  ASSUME NEW p \in Procs, pc \in [Procs -> PCs],
         pc[p] \notin WipePCs, NEW to, to \notin WipePCs,
         pc' = [pc EXCEPT ![p] = to]
  PROVE  Wiping' = Wiping /\ Answering' = Answering
BY DEF Wiping, Answering

\* One that moves inside the wipe past the reset of restart_pending remains the
\* worker that is going to wipe.
LEMMA WipeMove ==
  ASSUME NEW p \in Procs, pc \in [Procs -> PCs], pc[p] \in WipePCs,
         NEW to, to \in WipePCs \ {"rs_pending"}, pc' = [pc EXCEPT ![p] = to]
  PROVE  /\ Wiping' = Wiping
         /\ Answering' = Answering \cup {p}
BY DEF Wiping, Answering

\* Byte 0 is exclusive: nobody else is going to wipe while its holder looks at byte 1,
\* or wipes.
LEMMA OneWiper ==
  ASSUME CacheInv, NEW p \in Procs, HoldsWriteLock(p)
  PROVE  Wiping \subseteq {p} /\ Answering \subseteq {p}
BY DEF CacheInv, LockInv, HoldsWriteLock, Wiping, Answering, WipePCs, ActivatePCs, RestartPCs

\* What is not touched remains as it is.
LEMMA Frames ==
  /\ UNCHANGED <<script, early>> => Held' = Held
  /\ UNCHANGED <<mem_usage, clean>> => Readers' = Readers
  /\ UNCHANGED pc => Wiping' = Wiping /\ Answering' = Answering
<1>1. ASSUME UNCHANGED <<script, early>> PROVE Held' = Held
  <2>1. script' = script /\ early' = early
    BY <1>1
  <2>2. ASSUME NEW p \in Procs PROVE Holding(p)' = Holding(p)
    BY <2>1 DEF Holding
  <2> QED  BY <2>2, Zenon DEF Held
<1>2. UNCHANGED <<mem_usage, clean>> => Readers' = Readers
  BY DEF Readers
<1>3. UNCHANGED pc => Wiping' = Wiping /\ Answering' = Answering
  BY DEF Wiping, Answering
<1> QED  BY <1>1, <1>2, <1>3

\* A lookup finds a guarded script exactly for a reader.
LEMMA FoundHeld ==
  ASSUME TypeOK, NEW p \in Procs, Found(p)
  PROVE  Held' = [Held EXCEPT ![p] = IF p \in Readers THEN "guarded" ELSE "exposed"]
<1>1. /\ script' = [script EXCEPT ![p] = "fresh"]
      /\ script \in [Procs -> {"none", "fresh", "stale"}]
  BY DEF Found, TypeOK
<1>2. Holding(p)' = IF p \in Readers THEN "guarded" ELSE "exposed"
  BY <1>1, FoundEarly DEF Holding, Readers
<1>3. ASSUME NEW q \in Procs, q # p PROVE Holding(q)' = Holding(q)
  <2>1. script'[q] = script[q] /\ (early'[q] <=> early[q])
    BY <1>1, <1>3, FoundEarly
  <2> QED  BY SMTT(40), <2>1 DEF Holding
<1> QED  BY Zenon, <1>2, <1>3 DEF Held

\* A worker that lets go of its script holds nothing.
LEMMA ForgetHeld ==
  ASSUME TypeOK, NEW p \in Procs, Forget(p)
  PROVE  Held' = [Held EXCEPT ![p] = "none"]
<1>1. /\ script' = [script EXCEPT ![p] = "none"]
      /\ script \in [Procs -> {"none", "fresh", "stale"}]
      /\ early' = [early EXCEPT ![p] = FALSE] /\ early \in [Procs -> BOOLEAN]
  BY DEF Forget, TypeOK
<1>2. Holding(p)' = "none"
  BY <1>1 DEF Holding
<1>3. ASSUME NEW q \in Procs, q # p PROVE Holding(q)' = Holding(q)
  <2>1. script'[q] = script[q] /\ early'[q] = early[q]
    BY <1>1, <1>3
  <2> QED  BY <2>1 DEF Holding
<1> QED  BY Zenon, <1>2, <1>3 DEF Held

\* A worker that drops byte 1 is no reader.
LEMMA DropReader ==
  ASSUME TypeOK, NEW p \in Procs, mem_usage' = mem_usage \ {p},
         clean' = [clean EXCEPT ![p] = FALSE]
  PROVE  Readers' = Readers \ {p}
BY DEF Readers, TypeOK

\* accel_activate_add() makes a reader, unless a worker is going to wipe.
LEMMA AddReader ==
  ASSUME CacheInv, NEW p \in Procs, pc[p] \notin WipePCs, accel_activate_add(p)
  PROVE  \/ Wiping = {} /\ Readers' = Readers \cup {p}
         \/ Readers' = Readers
<1>0. TypeOK /\ RestartWaitsForReaders
  BY DEF CacheInv, LocalInv, ReaderInv
<1>1. mem_usage' = mem_usage \cup {p}
  BY DEF accel_activate_add
<1>2. CASE Wiping = {}
  <2>1. clean'[p] /\ \A q \in Procs : q # p => (clean'[q] <=> clean[q])
    BY <1>0, <1>2, AddClean DEF Wiping, Others
  <2> QED  BY <1>0, <1>1, <1>2, <2>1 DEF Readers, TypeOK
<1>3. CASE Wiping # {}
  <2>1. ~clean'[p] /\ p \notin Readers
    BY Zenon, <1>0, <1>3, AddClean DEF Wiping, Others, Readers, RestartWaitsForReaders
  <2>2. \A q \in Procs : q # p => (clean'[q] <=> clean[q])
    BY <1>0, AddClean
  <2> QED  BY ZenonT(60), <1>0, <1>1, <2>1, <2>2 DEF Readers, TypeOK
<1> QED  BY SMTT(40), <1>2, <1>3

\* A step that leaves byte 1, the scripts and restart_pending alone, and moves a worker
\* outside the wipe, does not show in the abstract cache.
LEMMA Hidden ==
  ASSUME TypeOK, NEW p \in Procs, pc[p] \notin WipePCs, NEW to, to \notin WipePCs,
         pc' = [pc EXCEPT ![p] = to],
         UNCHANGED <<restart_pending, mem_usage, clean, script, early>>
  PROVE  UNCHANGED Cache!vars
<1>1. pc \in [Procs -> PCs]  BY DEF TypeOK
<1> QED  BY Zenon, <1>1, QuietMove, Frames DEF Cache!vars

\* Looking up, letting go and storing show as Find and Drop.
LEMMA Lookups ==
  ASSUME TypeOK, NEW p \in Procs, Found(p) \/ Forget(p) \/ UNCHANGED <<script, early>>,
         pc[p] \notin WipePCs, NEW to, to \notin WipePCs, pc' = [pc EXCEPT ![p] = to],
         UNCHANGED <<restart_pending, mem_usage, clean>>
  PROVE  Cache!Find(p) \/ Cache!Drop(p) \/ UNCHANGED Cache!vars
<1>1. pc \in [Procs -> PCs]  BY DEF TypeOK
<1>2. Wiping' = Wiping /\ Answering' = Answering /\ Readers' = Readers
  BY Zenon, <1>1, QuietMove, Frames
<1>3. CASE Found(p)
  BY <1>2, <1>3, FoundHeld DEF Cache!Find
<1>4. CASE Forget(p)
  BY <1>2, <1>4, ForgetHeld DEF Cache!Drop
<1>5. CASE UNCHANGED <<script, early>>
  BY <1>2, <1>5, Frames DEF Cache!vars
<1> QED  BY <1>3, <1>4, <1>5

\* A worker that drops byte 1 shows as Leave: it keeps no guarded script.
LEMMA Leaves ==
  ASSUME TypeOK, NEW p \in Procs, mem_usage' = mem_usage \ {p},
         clean' = [clean EXCEPT ![p] = FALSE],
         Forget(p) \/ (Held[p] # "guarded" /\ UNCHANGED <<script, early>>),
         pc[p] \notin WipePCs, NEW to, to \notin WipePCs, pc' = [pc EXCEPT ![p] = to],
         UNCHANGED restart_pending
  PROVE  Cache!Leave(p)
<1>1. pc \in [Procs -> PCs]  BY DEF TypeOK
<1>2. Wiping' = Wiping /\ Answering' = Answering /\ Readers' = Readers \ {p}
  BY Zenon, <1>1, QuietMove, DropReader
<1>3. CASE Forget(p)
  BY <1>2, <1>3, ForgetHeld DEF Cache!Leave
<1>4. CASE Held[p] # "guarded" /\ UNCHANGED <<script, early>>
  BY <1>2, <1>4, Frames DEF Cache!Leave
<1> QED  BY <1>3, <1>4

\* A worker that takes byte 1 shows as Enter if it becomes a reader.
LEMMA Enters ==
  ASSUME CacheInv, NEW p \in Procs, accel_activate_add(p),
         pc[p] \notin WipePCs, NEW to, to \notin WipePCs, pc' = [pc EXCEPT ![p] = to],
         UNCHANGED <<restart_pending, script, early>>
  PROVE  Cache!Enter(p) \/ UNCHANGED Cache!vars
<1>1. pc \in [Procs -> PCs]  BY DEF CacheInv, LocalInv, TypeOK
<1>2. Wiping' = Wiping /\ Answering' = Answering /\ Held' = Held
  BY Zenon, <1>1, QuietMove, Frames
<1> QED  BY Zenon, <1>2, AddReader DEF Cache!Enter, Cache!vars

\* The death of a worker shows as such.
LEMMA Deaths ==
  ASSUME TypeOK, NEW p \in Procs, Dies(p), UNCHANGED restart_pending
  PROVE  Cache!Die(p)
<1>1. pc \in [Procs -> PCs] /\ pc' = [pc EXCEPT ![p] = "idle"]
  BY DEF TypeOK, Dies
<1>2. Wiping' = Wiping \ {p} /\ Answering' = Answering \ {p}
  BY <1>1 DEF Wiping, Answering, WipePCs
<1>3. Readers' = Readers \ {p}
  BY Zenon, DropReader DEF Dies, accel_unlock_all
<1>4. Held' = [Held EXCEPT ![p] = "none"]
  BY ForgetHeld DEF Dies
<1> QED  BY <1>2, <1>3, <1>4 DEF Cache!Die

\* The restart: the test of byte 1 chooses the worker, restart_pending is taken back,
\* the segment is wiped.
LEMMA Restarts ==
  ASSUME CacheInv, NEW p \in Procs,
         \/ accel_is_inactive(p) \/ RestartClearPending(p) \/ RestartLock(p)
         \/ RestartFlag(p) \/ zend_reset_cache_vars(p) \/ RestartClean(p)
  PROVE  Cache!Next \/ UNCHANGED Cache!vars
<1>0. TypeOK /\ pc \in [Procs -> PCs]
  BY DEF CacheInv, LocalInv, TypeOK
<1>1. CASE accel_is_inactive(p)
  <2>1. pc[p] = "act_inactive" /\ pc[p] \notin WipePCs /\ HoldsWriteLock(p)
    BY <1>1 DEF accel_is_inactive, Goto, WipePCs, HoldsWriteLock, ActivatePCs
  <2>2. CASE UsageIsFree(p)
    <3>1. pc' = [pc EXCEPT ![p] = "rs_pending"] /\ restart_pending
      BY <1>1, <2>1, <2>2 DEF accel_is_inactive, Goto, CacheInv, PendingInv
    <3>2. Wiping = {} /\ Wiping' = {p} /\ Answering' = Answering
      BY <1>0, <2>1, <3>1, OneWiper DEF Wiping, Answering, WipePCs
    <3>3. Readers \subseteq {p}
      BY <2>2 DEF UsageIsFree, Readers
    <3>4. UNCHANGED <<restart_pending, Readers, Held>>
      BY <1>1, Frames DEF accel_is_inactive, shm, locks, ghost
    <3>5. Cache!Choose(p)
      BY <3>1, <3>2, <3>3, <3>4 DEF Cache!Choose
    <3> QED  BY <3>5 DEF Cache!Next
  <2>3. CASE ~UsageIsFree(p)
    <3>1. PICK to \in {"kill_clear", "act_unlock"} : pc' = [pc EXCEPT ![p] = to]
      BY Zenon, <1>1, <2>3 DEF accel_is_inactive, Goto
    <3>2. to \notin WipePCs
      BY DEF WipePCs
    <3> QED  BY Zenon, <1>0, <1>1, <2>1, <3>1, <3>2, Hidden DEF accel_is_inactive, shm, locks, ghost
  <2> QED  BY <2>2, <2>3
<1>2. CASE RestartClearPending(p) \/ zend_reset_cache_vars(p)
  <2>1. PICK to \in {"rs_lock", "rs_clean"} :
           /\ pc[p] \in {"rs_pending", "rs_reset"} /\ pc' = [pc EXCEPT ![p] = to]
    BY <1>2 DEF RestartClearPending, zend_reset_cache_vars, Goto
  <2>2. pc[p] \in WipePCs /\ to \in WipePCs \ {"rs_pending"} /\ HoldsWriteLock(p)
    BY <2>1 DEF WipePCs, HoldsWriteLock, ActivatePCs, RestartPCs
  <2>3. Wiping' = Wiping /\ Answering' = {p} /\ p \in Wiping
    BY Zenon, <1>0, <2>1, <2>2, WipeMove, OneWiper DEF Wiping
  <2>4. restart_pending' = FALSE /\ UNCHANGED <<Readers, Held>>
    BY <1>2, Frames DEF RestartClearPending, zend_reset_cache_vars, locks, ghost
  <2>5. Cache!Answer(p)
    BY <2>3, <2>4 DEF Cache!Answer
  <2> QED  BY <2>5 DEF Cache!Next
<1>3. CASE RestartLock(p) \/ RestartFlag(p)
  <2>1. PICK to \in {"rs_flag", "rs_reset"} :
           /\ pc[p] \in {"rs_lock", "rs_flag"} /\ pc' = [pc EXCEPT ![p] = to]
    BY <1>3 DEF RestartLock, RestartFlag, Goto
  <2>2. /\ pc[p] \in WipePCs /\ to \in WipePCs \ {"rs_pending"}
        /\ p \in Answering
    BY <2>1 DEF WipePCs, Answering
  <2>3. Wiping' = Wiping /\ Answering' = Answering
    <3>1. Wiping' = Wiping /\ Answering' = Answering \cup {p}
      BY Zenon, <1>0, <2>1, <2>2, WipeMove
    <3>2. Answering \cup {p} = Answering
      BY <2>2
    <3> QED  BY <3>1, <3>2
  <2>4. UNCHANGED <<restart_pending, Readers, Held>>
    BY <1>3, Frames DEF RestartLock, RestartFlag, shm, locks, ghost
  <2> QED  BY <2>3, <2>4 DEF Cache!vars
<1>4. CASE RestartClean(p)
  <2>1. pc[p] = "rs_clean" /\ pc' = [pc EXCEPT ![p] = "rs_enable"]
    BY <1>4 DEF RestartClean, Goto
  <2>2. /\ pc[p] \in WipePCs /\ HoldsWriteLock(p) /\ p \in Answering
        /\ "rs_enable" \notin WipePCs /\ pc[p] \in ActivatePCs
    BY <2>1 DEF WipePCs, HoldsWriteLock, ActivatePCs, RestartPCs, Answering
  <2>3. Wiping' = {} /\ Answering' = {}
    BY <1>0, <2>1, <2>2, OneWiper DEF Wiping, Answering
  <2>4. UNCHANGED <<restart_pending, Readers>>
    BY <1>4, Frames DEF RestartClean, shm, locks, ghost
  <2>5. ASSUME NEW q \in Procs
        PROVE  Holding(q)' = IF Holding(q) = "exposed" THEN "dangling" ELSE Holding(q)
    <3>1. /\ script[q] \in {"none", "fresh", "stale"} /\ early' = early
          /\ script'[q] = IF script[q] = "none" THEN "none" ELSE "stale"
      BY <1>0, <1>4 DEF TypeOK, RestartClean, ghost
    <3>2. CASE script[q] # "fresh"
      BY <3>1, <3>2 DEF Holding
    <3>3. CASE script[q] = "fresh"
      <4>1. q # p
        BY Zenon, <2>2, <3>3 DEF CacheInv, LocalInv
      <4>2. ~(q \in mem_usage /\ clean[q])
        BY Zenon, <2>2, <4>1 DEF CacheInv, ReaderInv, RestartWaitsForReaders, Others
      <4>3. early[q]
        BY Zenon, <3>3, <4>2 DEF CacheInv, ReaderInv
      <4> QED  BY <3>1, <3>3, <4>3 DEF Holding
    <3> QED  BY <3>2, <3>3
  <2>6. Held' = [q \in Procs |-> IF Held[q] = "exposed" THEN "dangling" ELSE Held[q]]
    BY ZenonT(60), <2>5 DEF Held
  <2>7. Cache!Wipe(p)
    BY ZenonT(60), <2>2, <2>3, <2>4, <2>6 DEF Cache!Wipe
  <2> QED  BY <2>7 DEF Cache!Next
<1> QED  BY <1>1, <1>2, <1>3, <1>4

\* Every step of OpcacheRestart is a step of SharedCache, or does not show there.
LEMMA CacheStep == CacheInv /\ [Next]_vars => [Cache!Next]_(Cache!vars)
<1> SUFFICES ASSUME CacheInv, [Next]_vars PROVE Cache!Next \/ UNCHANGED Cache!vars
  OBVIOUS
<1>0. /\ TypeOK
      /\ \A p \in Procs : ret[p] \in {"run", "cf_pending", "store", "rl_unlock", "reset"}
  BY DEF CacheInv, LocalInv, TypeOK
<1>1. CASE UNCHANGED vars \/ DeadlinePasses
  BY <1>1, Frames DEF vars, shm, locks, ghost, DeadlinePasses, Cache!vars
<1>2. ASSUME NEW p \in Procs,
             \/ accel_is_inactive(p) \/ RestartClearPending(p) \/ RestartLock(p)
             \/ RestartFlag(p) \/ zend_reset_cache_vars(p) \/ RestartClean(p)
      PROVE  Cache!Next \/ UNCHANGED Cache!vars
  BY <1>2, Restarts
<1>3. ASSUME NEW p \in Procs,
             \/ ActivateCheck(p) \/ ActivateLock(p) \/ ActivateRecheck(p)
             \/ ActivateUnlock(p) \/ RestartEnable(p) \/ RestartUnflag(p)
             \/ RestartUnlock(p) \/ KillClear(p) \/ KillDone(p)
      PROVE  UNCHANGED Cache!vars
  <2>1. \E to : /\ pc[p] \notin WipePCs /\ to \notin WipePCs
                /\ pc' = [pc EXCEPT ![p] = to]
    BY ZenonT(60), <1>3 DEF ActivateCheck, ActivateLock, ActivateRecheck, ActivateUnlock,
                RestartEnable, RestartUnflag, RestartUnlock, KillClear, KillDone,
                Goto, WipePCs
  <2>2. UNCHANGED <<restart_pending, mem_usage, clean, script, early>>
    BY <1>3 DEF ActivateCheck, ActivateLock, ActivateRecheck, ActivateUnlock,
                RestartEnable, RestartUnflag, RestartUnlock, KillClear, KillDone,
                zend_shared_alloc_lock, zend_shared_alloc_unlock, shm, locks, ghost
  <2> QED  BY Zenon, <1>0, <2>1, <2>2, Hidden
<1>4. ASSUME NEW p \in Procs,
             \/ ScheduleCheck(p) \/ ScheduleSave(p) \/ ScheduleDisable(p)
             \/ ScheduleForce(p) \/ UpdateLock(p) \/ UpdateUnlock(p)
             \/ SetIncludePath(p) \/ ResolvePath(p) \/ ResolveFlag(p) \/ opcache_reset(p)
      PROVE  UNCHANGED Cache!vars
  <2>1. \E to : /\ pc[p] \notin WipePCs /\ to \notin WipePCs
                /\ pc' = [pc EXCEPT ![p] = to]
    BY Zenon, <1>0, <1>4 DEF ScheduleCheck, ScheduleReturn, ScheduleSave, ScheduleDisable,
                ScheduleForce, UpdateLock, UpdateUnlock, SetIncludePath, ResolvePath,
                ResolveFlag, opcache_reset, Goto, WipePCs
  <2>2. UNCHANGED <<restart_pending, mem_usage, clean, script, early>>
    BY Zenon, <1>4 DEF ScheduleCheck, ScheduleSave, ScheduleDisable,
                ScheduleForce, UpdateLock, UpdateUnlock, SetIncludePath, ResolvePath,
                ResolveFlag, opcache_reset,
                zend_shared_alloc_lock, zend_shared_alloc_unlock, shm, locks, ghost
  <2> QED  BY Zenon, <1>0, <2>1, <2>2, Hidden
<1>5. ASSUME NEW p \in Procs,
             \/ CompileFile(p) \/ CompileFlag(p) \/ CompileGetlk(p) \/ CompileHeal(p)
             \/ CompileMiss(p) \/ CompilePending(p) \/ ReadLock(p) \/ ReadLockFlag(p)
      PROVE  UNCHANGED Cache!vars
  <2>1. \E to : /\ pc[p] \notin WipePCs /\ to \notin WipePCs
                /\ pc' = [pc EXCEPT ![p] = to]
    BY Zenon, <1>5 DEF CompileFile, CompileFlag, CompileGetlk, CompileHeal, CompileMiss,
                CompilePending, ReadLock, ReadLockFlag, Goto, WipePCs
  <2>2. UNCHANGED <<restart_pending, mem_usage, clean, script, early>>
    BY ZenonT(60), <1>5 DEF CompileFile, CompileFlag, CompileGetlk, CompileHeal, CompileMiss,
                CompilePending, ReadLock, ReadLockFlag, shm, locks, ghost
  <2> QED  BY Zenon, <1>0, <2>1, <2>2, Hidden
<1>6. ASSUME NEW p \in Procs, OnEnable(p) PROVE UNCHANGED Cache!vars
  BY <1>6, Frames DEF OnEnable, shm, locks, ghost, Cache!vars
<1>7. ASSUME NEW p \in Procs, SchedulePending(p) PROVE Cache!Next
  <2>1. pc[p] \notin WipePCs /\ "sc_save" \notin WipePCs /\ pc' = [pc EXCEPT ![p] = "sc_save"]
    BY <1>7 DEF SchedulePending, Goto, WipePCs
  <2>2. UNCHANGED <<Wiping, Answering, Readers, Held>> /\ restart_pending' = TRUE
    BY Zenon, <1>0, <1>7, <2>1, QuietMove, Frames DEF SchedulePending, locks, ghost, TypeOK
  <2> QED  BY <2>2 DEF Cache!Ask, Cache!Next
<1>8. ASSUME NEW p \in Procs,
             UpdateBody(p) \/ ResolveFind(p) \/ CompileHit(p) \/ ReadShm(p) \/ Bailout(p)
      PROVE  Cache!Next \/ UNCHANGED Cache!vars
  <2>1. \E to : /\ pc[p] \notin WipePCs /\ to \notin WipePCs
                /\ pc' = [pc EXCEPT ![p] = to]
    BY ZenonT(60), <1>8
       DEF UpdateBody, ResolveFind, CompileHit, ReadShm, Bailout, Goto, WipePCs, BodyPCs,
                SchedulePCs
  <2>2. /\ Found(p) \/ Forget(p) \/ UNCHANGED <<script, early>>
        /\ UNCHANGED <<restart_pending, mem_usage, clean>>
    BY <1>8 DEF UpdateBody, ResolveFind, CompileHit, ReadShm, Bailout, shm, locks, ghost
  <2> QED  BY Zenon, <1>0, <2>1, <2>2, Lookups DEF Cache!Next
<1>9. ASSUME NEW p \in Procs, CompileCount(p) \/ ReadLockAdd(p)
      PROVE  Cache!Next \/ UNCHANGED Cache!vars
  <2>1. \E to : /\ pc[p] \notin WipePCs /\ to \notin WipePCs
                /\ pc' = [pc EXCEPT ![p] = to]
    BY <1>9 DEF CompileCount, ReadLockAdd, Goto, WipePCs
  <2>2. /\ accel_activate_add(p) \/ UNCHANGED <<mem_usage, clean>>
        /\ UNCHANGED <<restart_pending, script, early>>
    BY <1>9 DEF CompileCount, ReadLockAdd, shm, locks
  <2> QED  BY Zenon, <1>0, <2>1, <2>2, Enters, Hidden DEF Cache!Next
<1>10. ASSUME NEW p \in Procs,
              Activate(p) \/ ReadLockDrop(p) \/ accelerator_shm_read_unlock(p)
              \/ accel_deactivate(p)
       PROVE  Cache!Next \/ UNCHANGED Cache!vars
  <2>1. \E to : /\ pc[p] \notin WipePCs /\ to \notin WipePCs
                /\ pc' = [pc EXCEPT ![p] = to]
    BY Zenon, <1>10 DEF Activate, ReadLockDrop, accelerator_shm_read_unlock, accel_deactivate,
                 Goto, WipePCs
  <2>2. restart_pending' = restart_pending
    BY Zenon, <1>10 DEF Activate, ReadLockDrop, accelerator_shm_read_unlock, accel_deactivate, shm
  <2>3. \/ /\ UNCHANGED <<mem_usage, clean>>
           /\ Forget(p) \/ UNCHANGED <<script, early>>
        \/ /\ mem_usage' = mem_usage \ {p} /\ clean' = [clean EXCEPT ![p] = FALSE]
           /\ Forget(p) \/ (Held[p] # "guarded" /\ UNCHANGED <<script, early>>)
    <3>1. CASE Activate(p) \/ accel_deactivate(p)
      BY <3>1 DEF Activate, accel_deactivate, accel_unlock_all, locks
    <3>2. CASE accelerator_shm_read_unlock(p)
      BY <3>2 DEF accelerator_shm_read_unlock, accel_deactivate_sub, locks, ghost
    <3>3. CASE ReadLockDrop(p)
      <4>1. pc[p] = "rl_drop" /\ script[p] \in {"none", "fresh", "stale"}
        BY Zenon, <1>0, <3>3 DEF ReadLockDrop, Goto, TypeOK
      <4>2. ~(script[p] = "fresh" /\ ~early[p])
        BY <4>1 DEF CacheInv, ReaderInv
      <4>3. Held[p] # "guarded"
        BY <4>1, <4>2 DEF Held, Holding
      <4> QED  BY <3>3, <4>3 DEF ReadLockDrop, accel_deactivate_sub
    <3> QED  BY Zenon, <1>10, <3>1, <3>2, <3>3
  <2> QED  BY Zenon, <1>0, <2>1, <2>2, <2>3, Lookups, Leaves DEF Cache!Next
<1>11. ASSUME NEW p \in Procs, KillLocker(p) \/ Crash(p) PROVE Cache!Next
  <2>1. \E q \in Procs : Dies(q) /\ UNCHANGED restart_pending
    BY <1>0, <1>11 DEF KillLocker, Crash, shm, TypeOK
  <2> QED  BY <1>0, <2>1, Deaths DEF Cache!Next
<1> QED
  BY <1>1, <1>2, <1>3, <1>4, <1>5, <1>6, <1>7, <1>8, <1>9, <1>10, <1>11
  DEF Next, TakeWriteLock, Proceed, Begin

\* The lock file and the flags implement SharedCache: wipes happen one at a time, each for
\* a request of its own, and never take a script away from a worker that found it with
\* a byte 1 taken in time.
THEOREM RestartRefines == Spec => CacheSpec
<1>1. Init => Cache!Init
  <2> SUFFICES ASSUME Init PROVE Cache!Init  OBVIOUS
  <2>1. Wiping = {} /\ Answering = {} /\ Readers = {}
    BY DEF Init, Wiping, Answering, Readers, WipePCs
  <2>2. Held = [p \in Procs |-> "none"]
    BY DEF Init, Held, Holding
  <2> QED  BY <2>1, <2>2 DEF Init, Cache!Init
<1>2. Init => PendingInv /\ ReaderInv
  BY DEF Init, PendingInv, ReaderInv, RestartWaitsForReaders, LockedPointerValid
<1>3. Spec => []CacheInv
  BY <1>2, LocksCorrect, PendingStep, ReaderStep, PTL DEF Spec, CacheInv
<1> QED  BY <1>1, <1>3, CacheStep, PTL DEF Spec, CacheSpec, Cache!Spec
=============================================================================
