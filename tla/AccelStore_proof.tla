-------------------------- MODULE AccelStore_proof --------------------------
(* The theorems of AccelStore, and the second invariant, which says that    *)
(* wasted_shared_memory is exact.                                           *)
EXTENDS AccelStore_inv, FiniteSetTheorems

\* The segment is empty when the server starts.
LEMMA StoreInit ==
    ASSUME Init
    PROVE  StoreInv
<1> USE DEF Init
<1>1. /\ Links \in [Names -> Names] /\ MaxEvents \in Nat /\ Memory \in Nat
      /\ MaxEntries \in Nat
      /\ \A n \in Names : Links[n] \in Files /\ (n \in Files => Links[n] = n)
  BY Zenon, StoreAssumption DEF Files
<1>2. /\ ino \in [Names -> Inodes] /\ ver \in [Inodes -> 1 .. MaxEvents + 1]
      /\ \A i \in Inodes : ver[i] = 1
      /\ \A n \in Names : ino[n] = <<n, 0>>
  BY <1>1 DEF Inodes
<1>3. entries \in Seq(Entries) /\ Len(entries) = 0 /\ scripts \in Seq(Scripts)
  OBVIOUS
<1>4. Outside \in Ops
  <2>1. /\ "out" \in Locations /\ 0 \in 0 .. MaxEvents + 1
        /\ [n \in Names |-> 0] \in [Names -> 0 .. MaxEvents + 1]
    BY <1>1 DEF Locations
  <2> QED
    BY ONLY Zenon, <2>1 DEF Outside, Ops
<1>5. TypeOK
  <2>0. /\ memory_exhausted \in BOOLEAN /\ restart_pending \in BOOLEAN /\ mixed \in BOOLEAN
        /\ accelerator_enabled \in BOOLEAN /\ uncounted \in SUBSET Nat /\ undecided \in BOOLEAN
    BY Zenon
  <2>1. /\ Len(entries) <= MaxEntries /\ shared_free \in 0 .. Memory /\ wasted \in Nat
        /\ events \in 0 .. MaxEvents
    <3>1. Len(entries) = 0 /\ shared_free = Memory /\ wasted = 0 /\ events = 0
      BY Zenon, <1>3
    <3> QED
      BY ONLY <3>1, <1>1
  <2>2. op \in [Workers -> Ops] /\ counted \in [Workers -> BOOLEAN]
        /\ lock \in Workers \cup {None} /\ link \in [Names -> Names]
    BY Zenon, <1>1, <1>4
  <2> QED
    BY ONLY <1>2, <1>3, <2>0, <2>1, <2>2 DEF TypeOK
<1>6. FilesOK /\ EntriesOK /\ ScriptsOK
  BY <1>1, <1>2 DEF FilesOK, EntriesOK, ScriptsOK, Files
<1>7. ASSUME NEW w \in Workers PROVE CallOK(w)
  <2>1. op[w] = Outside
    BY Zenon
  <2>2. \A f \in Files : op[w].floor[f] = 0 /\ mtime(f) \in Int /\ mtime(f) >= 0
    <3>1. \A f \in Files : mtime(f) \in 1 .. MaxEvents + 1
      BY Zenon, <1>5, Times DEF Files
    <3>2. \A f \in Files : mtime(f) \in Int /\ mtime(f) >= 0
      BY ONLY <1>1, <3>1
    <3>3. \A f \in Files : op[w].floor[f] = 0
      BY ONLY <2>1 DEF Outside, Files
    <3> QED
      BY Zenon, <3>2, <3>3
  <2>3. NamesOK(w) /\ HandleOK(w)
    BY Zenon, <2>1, <2>2, StoreAssumption DEF NamesOK, HandleOK, At, Included, Outside
  <2>4. FoundOK(w) /\ StoringOK(w)
    BY Zenon, <2>1 DEF FoundOK, StoringOK, At, HasScript, Storing, Held, Outside
  <2> QED
    BY <2>3, <2>4 DEF CallOK
<1> QED
  BY Zenon, <1>5, <1>6, <1>7 DEF StoreInv

\* A stuttering step keeps the invariant.
LEMMA StoreUnchanged ==
    ASSUME StoreInv, UNCHANGED vars
    PROVE  StoreInv'
<1> USE DEF vars, files, segment, restart
<1>1. TypeOK' /\ FilesOK' /\ EntriesOK' /\ ScriptsOK'
  BY ZenonT(60) DEF StoreInv, TypeOK, FilesOK, EntriesOK, ScriptsOK
<1>2. ASSUME NEW w \in Workers PROVE CallOK(w)'
  BY Zenon DEF StoreInv, CallOK, NamesOK, HandleOK, FoundOK, StoringOK, At, mtime, Direct
<1> QED
  BY <1>1, <1>2 DEF StoreInv

\* Until a name changes between file and link, every step keeps the invariant;
\* Convert() and the uses of an entry as a script are never reached.
LEMMA StoreStep ==
    ASSUME StoreInv, RestartInv, [Next]_vars
    PROVE  mixed' \/ StoreInv'
<1>1. ASSUME NEW n \in Names, Edit(n) PROVE StoreInv'
  BY <1>1, EditStep
<1>2. ASSUME NEW n \in Names, NEW t \in Names, Relink(n, t) PROVE mixed' \/ StoreInv'
  BY Zenon, <1>2, RelinkStep
<1>3. ASSUME NEW w \in Workers,
             \/ accel_activate(w) \/ zend_accel_hash_clean(w)
             \/ zend_shared_alloc_restore_state(w) \/ accel_deactivate(w) \/ Crash(w)
      PROVE  StoreInv'
  BY Zenon, <1>3, ActivateStep, CleanStep, RestoreStep, EndStep, CrashStep
<1>4. ASSUME NEW w \in Workers, Lookup(w) PROVE StoreInv'
  <2>1. CASE \E n \in Names : persistent_compile_file(w, n)
    BY <2>1, IncludeStep
  <2>2. CASE \E n \in Names, force \in BOOLEAN : zend_accel_invalidate(w, n, force)
    BY Zenon, <2>2, InvalidateStep
  <2> QED
    BY SMTT(40), <1>4, <2>1, <2>2, OpenStep, FindByPathStep, ReadDataStep, ShareKeyStep, AddKeyStep,
       CheckCorruptedStep, ValidatePathStep, ValidateTimestampStep, CorruptStep, WasteDueStep
       DEF Lookup
<1>5. ASSUME NEW w \in Workers, Compile(w) PROVE StoreInv'
  <2>1. ~Convert(w)
    BY DEF StoreInv, CallOK, StoringOK, Convert, At
  <2> QED
    BY SMTT(40), <1>5, <2>1, CacheMissStep, OpenStep, StatFileStep, CompileFileStep,
       CacheScriptStep, PublishStep, WalkStep, AliasStep, ScheduleStep, AccountStep, EndStep
       DEF Compile
<1> QED
  BY <1>1, <1>2, <1>3, <1>4, <1>5, StoreUnchanged DEF Next

\* mixed is a history: it is never reset.
LEMMA MixedStays ==
    ASSUME mixed, [Next]_vars
    PROVE  mixed'
BY ZenonT(60) DEF Next, vars, files, Edit, Relink, accel_activate, zend_accel_hash_clean,
       zend_shared_alloc_restore_state, accel_deactivate, Crash, Lookup,
       Compile, Local, persistent_compile_file, zend_accel_invalidate, OpenToResolve,
       FindByPath, ReadData, ShareKey, AddKey, CheckCorrupted, ValidatePath,
       ValidateTimestamp, Corrupt, Untime, Waste, Due, CacheMiss, OpenToCompile, StatFile,
       CompileFile, cache_script_in_shared_memory, Publish, Walk, Alias, Convert, Schedule,
       Account, Return

----------------------------------------------------------------------------
\* The locals of a worker have its location, whatever the names do.
Shape == DOMAIN op = Workers /\ \A w \in Workers : "pc" \in DOMAIN op[w]

\* r are locals at l.
Stands(r, l) == "pc" \in DOMAIN r /\ r.pc = l

LEMMA Shaped ==
    ASSUME TypeOK
    PROVE  Shape
BY DEF TypeOK, Ops, Shape

\* Where a step leaves w.
LEMMA Arrives ==
    ASSUME Shape, NEW w \in Workers, NEW l
    PROVE  /\ Stands(Found(w, l), l) /\ Stands(Opened(w, l), l)
           /\ Stands(NotFound(w), "miss") \/ Stands(NotFound(w), "idle")
           /\ Stands(Inside, "idle") /\ Stands(Outside, "out")
           /\ \A x : /\ Stands([op[w] EXCEPT !.pc = l], l)
                     /\ Stands([op[w] EXCEPT !.pc = l, !.bucket = x], l)
                     /\ Stands([op[w] EXCEPT !.bucket = x, !.pc = l], l)
                     /\ Stands([op[w] EXCEPT !.script = x, !.pc = l], l)
                     /\ Stands([op[w] EXCEPT !.pc = l, !.stamp = x], l)
                     /\ Stands([op[w] EXCEPT !.pc = l, !.text = x], l)
                     /\ At(w, l) => Stands([op[w] EXCEPT !.bucket = x], l)
           /\ \A x, y : Stands([op[w] EXCEPT !.pc = l, !.script = x, !.bucket = y], l)
<1> DEFINE o == op[w]
<1>1. "pc" \in DOMAIN o
  BY DEF Shape
<1>2. Stands(Inside, "idle") /\ Stands(Outside, "out")
  BY DEF Inside, Outside, Stands
<1> HIDE DEF o
<1>3. \A x, y : /\ Stands([o EXCEPT !.pc = l, !.opened = x, !.handle = y], l)
                /\ Stands([o EXCEPT !.pc = l, !.bucket = x], l)
                /\ Stands([o EXCEPT !.pc = l, !.script = x, !.bucket = y], l)
  BY ONLY <1>1 DEF Stands
<1>4. \A x, y : Stands([o EXCEPT !.pc = "miss", !.bucket = x, !.script = y], "miss")
  BY ONLY <1>1 DEF Stands
<1>5. \A x : /\ Stands([o EXCEPT !.pc = l], l)
             /\ Stands([o EXCEPT !.bucket = x, !.pc = l], l)
             /\ Stands([o EXCEPT !.script = x, !.pc = l], l)
             /\ Stands([o EXCEPT !.pc = l, !.stamp = x], l)
             /\ Stands([o EXCEPT !.pc = l, !.text = x], l)
             /\ o.pc = l => Stands([o EXCEPT !.bucket = x], l)
  BY ONLY <1>1 DEF Stands
<1> QED
  BY Zenon, <1>2, <1>3, <1>4, <1>5 DEF Found, Opened, NotFound, At, o

\* w steps, and neither leaves its request nor begins to wipe the segment.
Lands(w) ==
    /\ op' = [op EXCEPT ![w] = op'[w]] /\ "pc" \in DOMAIN op'[w]
    /\ op'[w].pc \notin {"out", "clean", "restore"}

\* The steps without the lock.
Unlocked(w) ==
    \/ \E n \in Names : persistent_compile_file(w, n)
    \/ \E n \in Names, force \in BOOLEAN : zend_accel_invalidate(w, n, force)
    \/ OpenToResolve(w) \/ FindByPath(w) \/ ReadData(w) \/ ShareKey(w)
    \/ CheckCorrupted(w) \/ ValidatePath(w) \/ ValidateTimestamp(w)
    \/ CacheMiss(w) \/ OpenToCompile(w) \/ StatFile(w) \/ CompileFile(w) \/ Return(w)

\* They leave the segment as it is and do not come where the lock is held.
LEMMA UnlockedStep ==
    ASSUME Shape, NEW w \in Workers, Unlocked(w)
    PROVE  Lands(w) /\ UNCHANGED <<segment, lock>> /\ op[w].pc \notin Held /\ op'[w].pc \notin Held
<1> DEFINE Free == {"idle", "data", "open", "path", "share", "key", "check", "resolve", "stat",
                    "corrupt", "miss", "fopen", "fstat", "compile", "store", "run", "wild"}
<1>0. \A l \in Free : l \notin Held /\ l \notin {"out", "clean", "restore"}
  BY DEF Held, Storing
<1> HIDE DEF Free
<1>1. op[w].pc \in Free
  BY Zenon DEF Unlocked, persistent_compile_file, zend_accel_invalidate, OpenToResolve, FindByPath,
     ReadData, ShareKey, CheckCorrupted, ValidatePath, ValidateTimestamp, CacheMiss,
     OpenToCompile, StatFile, CompileFile, Return, At, Free
<1>2. UNCHANGED <<segment, lock>>
  BY Zenon DEF Unlocked, persistent_compile_file, zend_accel_invalidate, OpenToResolve, FindByPath,
     ReadData, ShareKey, CheckCorrupted, ValidatePath, ValidateTimestamp, CacheMiss,
     OpenToCompile, StatFile, CompileFile, Return, Local
<1> DEFINE Goal == \E r : op' = [op EXCEPT ![w] = r] /\ \E l \in Free : Stands(r, l)
<1>3. ASSUME NEW n \in Names, persistent_compile_file(w, n) PROVE Goal
  <2> DEFINE b == zend_accel_hash_find_entry(n)
             f == [m \in Names |-> mtime(m)]
             l == IF b # 0 THEN "data" ELSE "open"
             r == [Inside EXCEPT !.pc = l, !.call = "include", !.name = n, !.bucket = b,
                     !.floor = f, !.reach = {link[n]}]
  <2>1. op' = [op EXCEPT ![w] = r]
    BY Zenon, <1>3 DEF persistent_compile_file
  <2>2. l \in Free
    BY DEF Free
  <2>3. Stands(r, l)
    <3> HIDE DEF b, f, l
    <3> QED
      BY DEF Inside, Outside, Stands
  <2> HIDE DEF r, l
  <2> QED
    BY Zenon, <2>1, <2>2, <2>3
<1>4. ASSUME NEW n \in Names, NEW force \in BOOLEAN, zend_accel_invalidate(w, n, force)
      PROVE  Goal
  <2> DEFINE c == IF force THEN "force" ELSE "invalidate"
             r == [Inside EXCEPT !.pc = "path", !.name = link[n], !.opened = link[n], !.call = c]
  <2>1. op' = [op EXCEPT ![w] = r]
    BY Zenon, <1>4 DEF zend_accel_invalidate, Local
  <2>2. Stands(r, "path") /\ "path" \in Free
    <3> HIDE DEF c
    <3> QED
      BY DEF Inside, Outside, Stands, Free
  <2> HIDE DEF r
  <2> QED
    BY Zenon, <2>1, <2>2
<1>5. \A r, l : Local(w, r) /\ l \in Free /\ Stands(r, l) => Goal
  BY Zenon DEF Local
<1> HIDE DEF Goal
<1>6. ASSUME OpenToResolve(w) \/ OpenToCompile(w) \/ Return(w) PROVE Goal
  <2>1. "path" \in Free /\ "fstat" \in Free /\ "idle" \in Free
    BY DEF Free
  <2>2. Local(w, Opened(w, "path")) \/ Local(w, Opened(w, "fstat")) \/ Local(w, Inside)
    BY Zenon, <1>6 DEF OpenToResolve, OpenToCompile, Return
  <2>3. /\ Stands(Opened(w, "path"), "path") /\ Stands(Opened(w, "fstat"), "fstat")
        /\ Stands(Inside, "idle")
    BY Zenon, Arrives
  <2> QED
    BY Zenon, <1>5, <2>1, <2>2, <2>3
<1>7. ASSUME FindByPath(w) PROVE Goal
  <2> DEFINE b == zend_accel_hash_find_entry(op[w].opened)
  <2>1. Local(w, [op[w] EXCEPT !.pc = "data", !.bucket = b]) \/ Local(w, NotFound(w))
    BY Zenon, <1>7 DEF FindByPath
  <2>2. "data" \in Free /\ "idle" \in Free /\ "miss" \in Free
    BY DEF Free
  <2>3. /\ Stands([op[w] EXCEPT !.pc = "data", !.bucket = b], "data")
        /\ Stands(NotFound(w), "miss") \/ Stands(NotFound(w), "idle")
    BY Zenon, Arrives
  <2> QED
    BY Zenon, <1>5, <2>1, <2>2, <2>3
<1>8. ASSUME ReadData(w) PROVE Goal
  <2> DEFINE d == entries[op[w].bucket].data
             l == IF op[w].handle # None THEN "share" ELSE "check"
             b == IF l = "share" THEN op[w].bucket ELSE 0
  <2>1. \/ Local(w, [op[w] EXCEPT !.pc = l, !.script = d.at, !.bucket = b])
        \/ Local(w, [op[w] EXCEPT !.pc = "wild"])
    BY Zenon, <1>8 DEF ReadData
  <2>2. l \in Free /\ "wild" \in Free
    BY DEF Free
  <2> HIDE DEF d, l, b
  <2>3. /\ Stands([op[w] EXCEPT !.pc = l, !.script = d.at, !.bucket = b], l)
        /\ Stands([op[w] EXCEPT !.pc = "wild"], "wild")
    BY Zenon, Arrives
  <2> QED
    BY Zenon, <1>5, <2>1, <2>2, <2>3
<1>9. ASSUME ShareKey(w) \/ CheckCorrupted(w) \/ ValidatePath(w) \/ ValidateTimestamp(w) PROVE Goal
  <2>1. \/ Local(w, [op[w] EXCEPT !.pc = "key"]) \/ Local(w, NotFound(w)) \/ Local(w, Inside)
        \/ Local(w, Found(w, "check")) \/ Local(w, Found(w, "corrupt"))
        \/ Local(w, Found(w, "resolve")) \/ Local(w, Found(w, "stat"))
        \/ Local(w, Found(w, "run"))
    <3>1. CASE ShareKey(w)
      BY Zenon, <3>1 DEF ShareKey
    <3>2. CASE CheckCorrupted(w)
      BY Zenon, <3>2 DEF CheckCorrupted
    <3>3. CASE ValidatePath(w)
      BY Zenon, <3>3 DEF ValidatePath
    <3>4. CASE ValidateTimestamp(w)
      BY Zenon, <3>4 DEF ValidateTimestamp
    <3> QED
      BY Zenon, <1>9, <3>1, <3>2, <3>3, <3>4
  <2>2. /\ "key" \in Free /\ "miss" \in Free /\ "idle" \in Free /\ "check" \in Free
        /\ "corrupt" \in Free /\ "resolve" \in Free /\ "stat" \in Free /\ "run" \in Free
    BY DEF Free
  <2>3. /\ Stands([op[w] EXCEPT !.pc = "key"], "key") /\ Stands(Inside, "idle")
        /\ Stands(NotFound(w), "miss") \/ Stands(NotFound(w), "idle")
        /\ Stands(Found(w, "check"), "check") /\ Stands(Found(w, "corrupt"), "corrupt")
        /\ Stands(Found(w, "resolve"), "resolve") /\ Stands(Found(w, "stat"), "stat")
        /\ Stands(Found(w, "run"), "run")
    BY Zenon, Arrives
  <2> QED
    BY Zenon, <1>5, <2>1, <2>2, <2>3
<1>10. ASSUME CacheMiss(w) \/ StatFile(w) \/ CompileFile(w) PROVE Goal
  <2>1. \/ Local(w, Inside)
        \/ \E l \in {"fopen", "fstat"} : Local(w, [op[w] EXCEPT !.pc = l])
        \/ \E x : Local(w, [op[w] EXCEPT !.pc = "compile", !.stamp = x])
        \/ \E x : Local(w, [op[w] EXCEPT !.pc = "store", !.text = x])
    <3>1. CASE CacheMiss(w)
      BY Zenon, <3>1 DEF CacheMiss
    <3>2. CASE StatFile(w) \/ CompileFile(w)
      BY Zenon, <3>2 DEF StatFile, CompileFile
    <3> QED
      BY Zenon, <1>10, <3>1, <3>2
  <2>2. /\ "idle" \in Free /\ "fopen" \in Free /\ "fstat" \in Free /\ "compile" \in Free
        /\ "store" \in Free
    BY DEF Free
  <2>3. /\ Stands(Inside, "idle")
        /\ \A l : Stands([op[w] EXCEPT !.pc = l], l)
        /\ \A x : Stands([op[w] EXCEPT !.pc = "compile", !.stamp = x], "compile")
        /\ \A x : Stands([op[w] EXCEPT !.pc = "store", !.text = x], "store")
    BY Zenon, Arrives
  <2> QED
    BY Zenon, <1>5, <2>1, <2>2, <2>3
<1>11. Goal
  BY Zenon, <1>3, <1>4, <1>6, <1>7, <1>8, <1>9, <1>10 DEF Unlocked
<1>12. PICK r : op' = [op EXCEPT ![w] = r] /\ \E l \in Free : Stands(r, l)
  BY Zenon, <1>11 DEF Goal
<1>13. op'[w] = r
  BY Zenon, <1>12 DEF Shape
<1> QED
  BY Zenon, <1>0, <1>1, <1>2, <1>12, <1>13 DEF Lands, Stands

\* The steps under the lock, or that take it.
Locked(w) ==
    \/ AddKey(w) \/ Corrupt(w) \/ Untime(w) \/ Waste(w) \/ Due(w)
    \/ cache_script_in_shared_memory(w) \/ Publish(w) \/ Walk(w) \/ Alias(w)
    \/ Convert(w) \/ Schedule(w) \/ Account(w)

\* A step of w that makes a restart due is followed by the decision, and a
\* decision leaves no restart due to a cache that is on.
Decides(w) ==
    \/ ~Deciding(w) /\ UNCHANGED <<memory_exhausted, wasted, restart>>
    \/ Deciding(w)' /\ UNCHANGED restart
    \/ zend_accel_schedule_restart_if_necessary /\ UNCHANGED <<memory_exhausted, wasted>>
    \/ ~memory_exhausted' /\ UNCHANGED restart

LEMMA Placed ==
    ASSUME Shape, NEW w \in Workers, NEW r, NEW l, Stands(r, l),
           l \notin {"out", "clean", "restore"}, op' = [op EXCEPT ![w] = r]
    PROVE  Lands(w) /\ op'[w].pc = l
<1>1. op'[w] = r
  BY Zenon DEF Shape
<1> QED
  BY Zenon, <1>1 DEF Lands, Stands

LEMMA KeyDoneLands ==
    ASSUME Shape, NEW w \in Workers, KeyDone(w)
    PROVE  Lands(w)
<1>1. \/ op' = [op EXCEPT ![w] = Found(w, "check")] \/ op' = [op EXCEPT ![w] = Inside]
      \/ op' = [op EXCEPT ![w] = [op[w] EXCEPT !.pc = "account"]]
  BY Zenon DEF KeyDone
<1>2. /\ Stands(Found(w, "check"), "check") /\ Stands(Inside, "idle")
      /\ Stands([op[w] EXCEPT !.pc = "account"], "account")
  BY Zenon, Arrives
<1>3. \A l \in {"check", "idle", "account"} : l \notin {"out", "clean", "restore"}
  OBVIOUS
<1> QED
  BY Zenon, <1>1, <1>2, <1>3, Placed

LEMMA FullLands ==
    ASSUME Shape, NEW w \in Workers, NEW b, Full(w, b)
    PROVE  Lands(w) /\ Deciding(w)'
<1>1. op' = [op EXCEPT ![w] = Found(w, "schedule")] /\ Stands(Found(w, "schedule"), "schedule")
  BY Zenon, Arrives DEF Full
<1>2. "schedule" \notin {"out", "clean", "restore"}
  OBVIOUS
<1> QED
  BY Zenon, <1>1, <1>2, Placed DEF Deciding

LEMMA AddKeyLands ==
    ASSUME Shape, NEW w \in Workers, NEW k, NEW b, zend_accel_add_key(w, k, b),
           ~Deciding(w), wasted' = wasted
    PROVE  Lands(w) /\ Decides(w)
<1>1. restart' = restart
  BY Zenon DEF zend_accel_add_key
<1>2. CASE KeyDone(w) /\ UNCHANGED <<shared_free, memory_exhausted>>
  BY Zenon, <1>1, <1>2, KeyDoneLands DEF Decides
<1>3. CASE \E x : Full(w, x)
  BY Zenon, <1>1, <1>3, FullLands DEF Decides
<1>4. CASE op' = [op EXCEPT ![w].pc = "walk", ![w].bucket = b] /\ memory_exhausted' = memory_exhausted
  <2>1. op' = [op EXCEPT ![w] = [op[w] EXCEPT !.pc = "walk", !.bucket = b]]
    BY Zenon, <1>4 DEF Shape
  <2>2. Stands([op[w] EXCEPT !.pc = "walk", !.bucket = b], "walk")
    BY Zenon, Arrives
  <2>3. "walk" \notin {"out", "clean", "restore"}
    OBVIOUS
  <2> QED
    BY Zenon, <1>1, <1>4, <2>1, <2>2, <2>3, Placed DEF Decides
<1> QED
  BY Zenon, <1>2, <1>3, <1>4 DEF zend_accel_add_key

LEMMA MarkLands ==
    ASSUME Shape, NEW w \in Workers, Corrupt(w) \/ Untime(w) \/ Waste(w) \/ Due(w)
    PROVE  Lands(w) /\ Decides(w)
<1>1. \A l \in {"untime", "waste", "due", "miss", "idle"} : l \notin {"out", "clean", "restore"}
  OBVIOUS
<1>2. \A l : Stands([op[w] EXCEPT !.pc = l], l)
  BY Zenon, Arrives
<1>3. ASSUME NEW l \in {"untime", "waste", "due"}, Goto(w, l) PROVE Lands(w) /\ op'[w].pc = l
  BY Zenon, <1>1, <1>2, <1>3, Placed DEF Goto
<1>4. ASSUME op' = [op EXCEPT ![w] = NotFound(w)] PROVE Lands(w)
  BY Zenon, <1>1, <1>4, Arrives, Placed
<1>5. CASE Corrupt(w)
  <2>1. ~Deciding(w) /\ UNCHANGED <<memory_exhausted, wasted, restart>>
    BY <1>5 DEF Corrupt, Deciding, At
  <2> QED
    BY Zenon, <1>3, <1>4, <1>5, <2>1 DEF Corrupt, Decides
<1>6. CASE Untime(w)
  <2>1. ~Deciding(w) /\ UNCHANGED <<memory_exhausted, wasted, restart>>
    BY <1>6 DEF Untime, Deciding, At
  <2> QED
    BY Zenon, <1>3, <1>6, <2>1 DEF Untime, Decides
<1>7. CASE Waste(w)
  BY Zenon, <1>3, <1>7 DEF Waste, Decides, Deciding
<1>8. CASE Due(w)
  BY Zenon, <1>4, <1>8 DEF Due, Decides
<1> QED
  BY <1>5, <1>6, <1>7, <1>8

LEMMA StoreLands ==
    ASSUME Shape, NEW w \in Workers, cache_script_in_shared_memory(w)
    PROVE  Lands(w) /\ Decides(w)
<1>0. ~Deciding(w)
  BY DEF cache_script_in_shared_memory, Deciding, At
<1>1. \A l \in {"wild", "idle", "publish"} : l \notin {"out", "clean", "restore"}
  OBVIOUS
<1>2. /\ \A l, x : Stands([op[w] EXCEPT !.pc = l], l) /\ Stands([op[w] EXCEPT !.script = x, !.pc = l], l)
      /\ Stands(Inside, "idle")
  BY Zenon, Arrives
<1>3. CASE Goto(w, "wild") /\ UNCHANGED segment
  BY Zenon, <1>0, <1>1, <1>2, <1>3, Placed DEF Goto, segment, Decides
<1>4. CASE StoreInFull(w)
  BY Zenon, <1>4, FullLands DEF StoreInFull, Decides
<1>5. CASE StoreFound(w)
  <2>1. CASE op' = [op EXCEPT ![w] = Inside] /\ UNCHANGED <<shared_free, memory_exhausted, restart, lock>>
    BY Zenon, <1>0, <1>1, <1>2, <1>5, <2>1, Placed DEF StoreFound, Decides
  <2> QED
    BY Zenon, <1>0, <1>5, <2>1, AddKeyLands DEF StoreFound
<1>6. CASE StoreNew(w)
  <2>1. CASE \E x : Full(w, x) /\ UNCHANGED restart
    BY Zenon, <2>1, FullLands DEF Decides
  <2>2. CASE /\ op' = [op EXCEPT ![w].script = Len(scripts'), ![w].pc = "publish"]
             /\ UNCHANGED <<entries, wasted, memory_exhausted, restart>>
    <3>1. op' = [op EXCEPT ![w] = [op[w] EXCEPT !.script = Len(scripts'), !.pc = "publish"]]
      BY Zenon, <2>2 DEF Shape
    <3> QED
      BY Zenon, <1>0, <1>1, <1>2, <2>2, <3>1, Placed DEF Decides
  <2> QED
    BY Zenon, <1>6, <2>1, <2>2 DEF StoreNew
<1> QED
  BY Zenon, <1>3, <1>4, <1>5, <1>6 DEF cache_script_in_shared_memory

LEMMA LockedStep ==
    ASSUME Shape, NEW w \in Workers, Locked(w)
    PROVE  Lands(w) /\ Decides(w)
<1>1. \A l \in {"walk", "account", "alias", "convert", "run"} : l \notin {"out", "clean", "restore"}
  OBVIOUS
<1>2. \A l, x : /\ Stands([op[w] EXCEPT !.pc = l], l) /\ Stands(Found(w, l), l)
                /\ Stands([op[w] EXCEPT !.bucket = x, !.pc = l], l)
                /\ At(w, l) => Stands([op[w] EXCEPT !.bucket = x], l)
  BY Zenon, Arrives
<1>3. CASE AddKey(w)
  <2>1. ~Deciding(w)
    BY <1>3 DEF AddKey, Deciding, At
  <2> QED
    BY Zenon, <1>3, <2>1, AddKeyLands DEF AddKey
<1>4. CASE Publish(w)
  <2>1. ~Deciding(w) /\ UNCHANGED <<memory_exhausted, wasted, restart>>
    BY <1>4 DEF Publish, Deciding, At
  <2> DEFINE old == Published(op[w].opened)
             b == IF old = {} THEN Len(entries') ELSE CHOOSE e \in old : TRUE
             l == IF op[w].name # op[w].opened THEN "walk" ELSE "account"
  <2>2. op' = [op EXCEPT ![w] = [op[w] EXCEPT !.bucket = b, !.pc = l]]
    BY Zenon, <1>4 DEF Publish, Shape
  <2>3. l \in {"walk", "account"}
    OBVIOUS
  <2> HIDE DEF b, l
  <2>4. Stands([op[w] EXCEPT !.bucket = b, !.pc = l], l) /\ l \notin {"out", "clean", "restore"}
    BY Zenon, <1>1, <1>2, <2>3
  <2>5. Lands(w)
    BY Zenon, <2>2, <2>4, Placed
  <2> QED
    BY Zenon, <2>1, <2>5 DEF Decides
<1>5. CASE Walk(w)
  <2>1. ~Deciding(w) /\ UNCHANGED <<memory_exhausted, wasted, restart>>
    BY <1>5 DEF Walk, Deciding, At, Local, segment
  <2>2. \/ \E x : op' = [op EXCEPT ![w] = [op[w] EXCEPT !.bucket = x]]
        \/ op' = [op EXCEPT ![w] = [op[w] EXCEPT !.pc = "alias"]]
    BY Zenon, <1>5 DEF Walk, Local
  <2>3. /\ \A x : Stands([op[w] EXCEPT !.bucket = x], "walk")
        /\ Stands([op[w] EXCEPT !.pc = "alias"], "alias")
        /\ "walk" \notin {"out", "clean", "restore"} /\ "alias" \notin {"out", "clean", "restore"}
    BY Zenon, <1>1, <1>2, <1>5 DEF Walk
  <2>4. Lands(w)
    BY Zenon, <2>2, <2>3, Placed
  <2> QED
    BY Zenon, <2>1, <2>4 DEF Decides
<1>6. CASE Alias(w)
  <2>1. ~Deciding(w) /\ UNCHANGED <<wasted, restart>>
    BY <1>6 DEF Alias, Deciding, At
  <2>2. \/ Full(w, TRUE)
        \/ memory_exhausted' = memory_exhausted /\ (KeyDone(w) \/ Goto(w, "convert"))
    BY Zenon, <1>6 DEF Alias
  <2>3. ASSUME Goto(w, "convert") PROVE Lands(w)
    <3>1. Stands([op[w] EXCEPT !.pc = "convert"], "convert")
      BY Zenon, <1>2
    <3>2. "convert" \notin {"out", "clean", "restore"}
      OBVIOUS
    <3>3. op' = [op EXCEPT ![w] = [op[w] EXCEPT !.pc = "convert"]]
      BY Zenon, <2>3 DEF Goto
    <3> QED
      BY Zenon, <3>1, <3>2, <3>3, Placed
  <2> QED
    BY Zenon, <2>1, <2>2, <2>3, FullLands, KeyDoneLands DEF Decides
<1>7. CASE Convert(w)
  <2>1. ~Deciding(w) /\ UNCHANGED <<memory_exhausted, wasted, restart>>
    BY <1>7 DEF Convert, Deciding, At
  <2> QED
    BY Zenon, <1>7, <2>1, KeyDoneLands DEF Convert, Decides
<1>8. CASE Schedule(w)
  BY Zenon, <1>8, KeyDoneLands DEF Schedule, Decides
<1>9. CASE Account(w)
  <2>1. ~Deciding(w) /\ UNCHANGED <<memory_exhausted, wasted, restart>>
    BY <1>9 DEF Account, Deciding, At
  <2> QED
    BY Zenon, <1>1, <1>2, <1>9, <2>1, Placed DEF Account, Decides
<1> QED
  BY Zenon, <1>3, <1>4, <1>5, <1>6, <1>7, <1>8, <1>9, MarkLands, StoreLands DEF Locked

\* The two together.
LEMMA CallStep ==
    ASSUME Shape, NEW w \in Workers, Lookup(w) \/ Compile(w)
    PROVE  Lands(w) /\ Decides(w)
<1>1. Unlocked(w) \/ Locked(w)
  BY Zenon DEF Lookup, Compile, Unlocked, Locked
<1>2. CASE Unlocked(w)
  <2>1. op[w].pc \notin Held /\ UNCHANGED <<memory_exhausted, wasted, restart>> /\ Lands(w)
    BY Zenon, <1>2, UnlockedStep DEF segment
  <2>2. ~Deciding(w)
    BY <2>1 DEF Deciding, Held, Storing
  <2> QED
    BY Zenon, <2>1, <2>2 DEF Decides
<1> QED
  BY Zenon, <1>1, <1>2, LockedStep

\* Relink() adds to what the calls have reached, and to nothing else.
LEMMA RelinkKeeps ==
    ASSUME Shape, NEW n \in Names, NEW t \in Names, Relink(n, t), NEW v \in Workers
    PROVE  /\ "pc" \in DOMAIN op'[v] /\ op'[v].pc = op[v].pc /\ DOMAIN op' = Workers
           /\ op'[v].opened = op[v].opened
           /\ op'[v].script = op[v].script /\ op'[v].text = op[v].text
<1> DEFINE o == op[v]
           q == op'[v]
<1>1. /\ q = IF o.name = n THEN [o EXCEPT !.reach = @ \cup {t}] ELSE o
      /\ DOMAIN op' = Workers /\ "pc" \in DOMAIN o
  BY Zenon DEF Relink, Shape
<1> HIDE DEF o, q
<1>2. /\ q.pc = o.pc /\ q.opened = o.opened /\ q.script = o.script /\ q.text = o.text
      /\ "pc" \in DOMAIN q
  BY ONLY <1>1
<1> QED
  BY <1>1, <1>2 DEF o, q

----------------------------------------------------------------------------
LEMMA RestartInit ==
    ASSUME Init
    PROVE  RestartInv
BY DEF Init, RestartInv, Outside, At

\* A call goes on in a cache that is on, or that is to be restarted.
LEMMA CallLive ==
    ASSUME RestartInv, NEW w \in Workers, Lookup(w) \/ Compile(w)
    PROVE  accelerator_enabled \/ restart_pending
<1>1. CASE \E n \in Names : persistent_compile_file(w, n)
  BY Zenon, <1>1 DEF persistent_compile_file, RestartInv
<1>2. CASE \E n \in Names, force \in BOOLEAN : zend_accel_invalidate(w, n, force)
  BY Zenon, <1>2 DEF zend_accel_invalidate
<1>3. CASE op[w].pc \notin Resting
  BY Zenon, <1>3 DEF RestartInv
<1>6. CASE Lookup(w)
  BY <1>1, <1>2, <1>3, <1>6 DEF Lookup, OpenToResolve, FindByPath, ReadData, ShareKey, AddKey,
     CheckCorrupted, ValidatePath, ValidateTimestamp, Corrupt, Untime, Waste, Due, At, Resting
<1>7. CASE Compile(w)
  BY <1>3, <1>7 DEF Compile, CacheMiss, OpenToCompile, StatFile, CompileFile,
     cache_script_in_shared_memory, Publish, Walk, Alias, Convert, Schedule, Account, Return,
     At, Resting
<1> QED
  BY <1>6, <1>7

\* Every step keeps what is known of the restart.
LEMMA RestartStep ==
    ASSUME StoreInv, RestartInv, [Next]_vars
    PROVE  RestartInv'
<1>0. TypeOK /\ Shape /\ \A v \in Workers : op[v].pc \in Held => lock = v
  BY Zenon, Shaped DEF StoreInv, CallOK, StoringOK
<1>1. ASSUME NEW w \in Workers, Lookup(w) \/ Compile(w) PROVE RestartInv'
  <2>1. Lands(w) /\ Decides(w) /\ (accelerator_enabled \/ restart_pending)
    BY Zenon, <1>0, <1>1, CallStep, CallLive
  <2>2. /\ restart_pending' => ~accelerator_enabled'
        /\ accelerator_enabled' \/ restart_pending'
    <3>1. CASE UNCHANGED restart
      BY <2>1, <3>1 DEF restart, RestartInv
    <3>2. CASE zend_accel_schedule_restart_if_necessary
      BY <1>0, <2>1, <3>2 DEF zend_accel_schedule_restart_if_necessary, TypeOK
    <3> QED
      BY Zenon, <2>1, <3>1, <3>2 DEF Decides
  <2>3. ASSUME NEW v \in Workers PROVE op'[v].pc \notin {"clean", "restore"}
    <3>1. CASE v = w
      BY Zenon, <2>1, <3>1 DEF Lands
    <3>2. CASE v # w
      <4>1. op'[v] = op[v]
        BY Zenon, <1>0, <2>1, <3>2 DEF Lands, TypeOK
      <4> QED
        BY Zenon, <2>1, <4>1 DEF RestartInv
    <3> QED
      BY <3>1, <3>2
  <2> QED
    BY <2>2, <2>3 DEF RestartInv, At
<1>2. ASSUME UNCHANGED <<restart_pending, accelerator_enabled, entries>>,
             \A v \in Workers : op'[v].pc = op[v].pc \/ op'[v].pc \in {"out", "idle"},
             \A v \in Workers : counted'[v] => counted[v]
      PROVE  RestartInv'
  <2>1. \A v \in Workers : op[v].pc \in Resting => op'[v].pc \in Resting
    BY <1>2 DEF Resting
  <2>2. \A v \in Workers : op'[v].pc \in {"clean", "restore"} => op'[v].pc = op[v].pc
    BY <1>2
  <2> QED
    BY <1>2, <2>1, <2>2 DEF RestartInv, At
<1>3. ASSUME NEW w \in Workers, op' = [op EXCEPT ![w] = Inside] \/ op' = [op EXCEPT ![w] = Outside]
      PROVE  \A v \in Workers : op'[v].pc = op[v].pc \/ op'[v].pc \in {"out", "idle"}
  <2>1. Inside.pc = "idle" /\ Outside.pc = "out"
    BY DEF Inside, Outside
  <2> QED
    BY ZenonT(30), <1>0, <1>3, <2>1 DEF TypeOK
<1>4. ASSUME NEW w \in Workers, accel_deactivate(w) \/ Crash(w) PROVE RestartInv'
  <2>1. /\ UNCHANGED <<restart_pending, accelerator_enabled, entries>>
        /\ op' = [op EXCEPT ![w] = Outside] /\ counted' = [counted EXCEPT ![w] = FALSE]
    BY Zenon, <1>4 DEF accel_deactivate, Crash, segment, restart
  <2>2. \A v \in Workers : counted'[v] => counted[v]
    BY Zenon, <1>0, <2>1 DEF TypeOK
  <2> QED
    BY Zenon, <1>2, <1>3, <2>1, <2>2
<1>5. ASSUME NEW w \in Workers, accel_activate(w) PROVE RestartInv'
  <2>1. CASE op' = [op EXCEPT ![w] = Inside] /\ UNCHANGED <<restart, lock>>
    BY Zenon, <1>2, <1>3, <1>5, <2>1 DEF accel_activate, restart
  <2>2. CASE /\ restart_pending /\ (\A v \in Workers : ~Using(v)) /\ restart_pending' = FALSE
             /\ op' = [op EXCEPT ![w] = [Inside EXCEPT !.pc = "clean"]]
             /\ UNCHANGED accelerator_enabled
    <3>1. counted' = counted
      BY <1>5 DEF accel_activate
    <3>2. [Inside EXCEPT !.pc = "clean"].pc = "clean"
      BY DEF Inside, Outside
    <3>3. \A v \in Workers : op'[v].pc = "clean" \/ op'[v] = op[v]
      BY Zenon, <1>0, <2>2, <3>2 DEF TypeOK
    <3>4. \A v \in Workers : ~counted[v] /\ op[v].pc \in Resting
      BY <2>2 DEF Using, Resting
    <3>5. \A v \in Workers : op'[v].pc \in Resting
      BY <3>3, <3>4 DEF Resting
    <3>6. \A v \in Workers : op[v].pc \notin {"clean", "restore"}
      BY <2>2 DEF RestartInv
    <3>7. \A v \in Workers : op'[v].pc # "restore"
      BY <3>3, <3>6
    <3> QED
      BY <2>2, <3>1, <3>4, <3>5, <3>7 DEF RestartInv, At
  <2> QED
    BY Zenon, <1>5, <2>1, <2>2 DEF accel_activate
<1>6. ASSUME NEW w \in Workers, zend_accel_hash_clean(w) PROVE RestartInv'
  <2>1. /\ op[w].pc = "clean" /\ ~accelerator_enabled /\ ~restart_pending
        /\ UNCHANGED <<restart_pending, accelerator_enabled, counted>> /\ entries' = <<>>
    BY Zenon, <1>6 DEF zend_accel_hash_clean, restart, RestartInv, At
  <2>2. \A v \in Workers : op'[v].pc = "restore" \/ op'[v] = op[v]
    <3>1. op' = [op EXCEPT ![w] = [op[w] EXCEPT !.pc = "restore"]]
      BY Zenon, <1>6 DEF zend_accel_hash_clean, Goto
    <3>2. Stands([op[w] EXCEPT !.pc = "restore"], "restore")
      BY Zenon, <1>0, Arrives
    <3> QED
      BY Zenon, <1>0, <3>1, <3>2 DEF TypeOK, Stands
  <2>3. \A v \in Workers : op'[v].pc \in Resting
    BY <2>1, <2>2 DEF RestartInv, Resting
  <2> QED
    BY <2>1, <2>3 DEF RestartInv, At
<1>7. ASSUME NEW w \in Workers, zend_shared_alloc_restore_state(w) PROVE RestartInv'
  <2>1. /\ op[w].pc = "restore" /\ ~restart_pending /\ restart_pending' = restart_pending
        /\ accelerator_enabled' = TRUE /\ op' = [op EXCEPT ![w] = Inside]
    BY Zenon, <1>7 DEF zend_shared_alloc_restore_state, RestartInv, At
  <2>2. Inside.pc = "idle"
    BY DEF Inside, Outside
  <2>3. \A v \in Workers \ {w} : op[v].pc \in {"out", "idle"}
    BY <2>1, WipesAlone
  <2>4. \A v \in Workers : op'[v].pc \in {"out", "idle"}
    BY Zenon, <1>0, <2>1, <2>2, <2>3 DEF TypeOK
  <2> QED
    BY <2>1, <2>4 DEF RestartInv, At
<1>8. CASE \/ \E n \in Names : Edit(n)
           \/ UNCHANGED vars
  BY Zenon, <1>2, <1>8 DEF Edit, vars, segment, restart
<1>9. ASSUME NEW n \in Names, NEW t \in Names, Relink(n, t) PROVE RestartInv'
  BY Zenon, <1>0, <1>2, <1>9, RelinkKeeps DEF Relink, segment, restart
<1> QED
  BY Zenon, <1>1, <1>4, <1>5, <1>6, <1>7, <1>8, <1>9 DEF Next

\* The invariant holds until a name changes between file and link.
LEMMA StoreAlways == Spec => [](mixed \/ (StoreInv /\ RestartInv))
<1>1. Init => StoreInv /\ RestartInv
  BY StoreInit, RestartInit
<1>2. (mixed \/ (StoreInv /\ RestartInv)) /\ [Next]_vars
        => (mixed \/ (StoreInv /\ RestartInv))'
  BY StoreStep, RestartStep, MixedStays
<1> HIDE DEF StoreInv, RestartInv
<1> QED
  BY <1>1, <1>2, PTL DEF Spec

\* As long as no name changes between file and link, the types of the state hold:
\* the segment is never over-allocated and the table within its size.
THEOREM StoreTypes == Spec => [](~mixed => TypeOK)
<1>1. mixed \/ StoreInv => (~mixed => TypeOK)
  BY DEF StoreInv
<1> QED
  BY <1>1, StoreAlways, PTL

\* zend_accel_hash_find(), without the lock, comes from any key to a script and
\* from a path to the script of that path.
THEOREM StoreFindRight == Spec => []FindRight
<1>1. mixed \/ StoreInv => FindRight
  BY Zenon DEF StoreInv, EntriesOK, FindRight
<1> QED
  BY <1>1, StoreAlways, PTL

\* If no file is both mapped and replaced by rename(), a script that runs from the
\* cache is one of a file that the name led to, compiled from contents not older
\* than the file had when the call began.
THEOREM StoreRunsCurrent ==
    ASSUME NoneMappedRenamed
    PROVE  Spec => [](~mixed => RunsCurrent)
<1>1. mixed \/ StoreInv => (~mixed => RunsCurrent)
  BY Zenon DEF StoreInv, CallOK, FoundOK, RunsCurrent
<1> QED
  BY <1>1, StoreAlways, PTL

----------------------------------------------------------------------------
\* Every step keeps the shape of the locals.
LEMMA ShapeStep ==
    ASSUME Shape, [Next]_vars
    PROVE  Shape'
<1>1. ASSUME NEW w \in Workers, op' = [op EXCEPT ![w] = op'[w]], "pc" \in DOMAIN op'[w]
      PROVE  Shape'
  BY Zenon, <1>1 DEF Shape
<1>2. ASSUME NEW w \in Workers, NEW r, op' = [op EXCEPT ![w] = r], "pc" \in DOMAIN r
      PROVE  Shape'
  BY Zenon, <1>2 DEF Shape
<1>3. /\ "pc" \in DOMAIN Inside /\ "pc" \in DOMAIN Outside
      /\ "pc" \in DOMAIN [Inside EXCEPT !.pc = "clean"]
  BY DEF Inside, Outside
<1>4. ASSUME NEW w \in Workers,
             \/ accel_activate(w) \/ zend_shared_alloc_restore_state(w)
             \/ accel_deactivate(w) \/ Crash(w)
      PROVE  Shape'
  BY Zenon, <1>2, <1>3, <1>4
     DEF accel_activate, zend_shared_alloc_restore_state, accel_deactivate, Crash
<1>5. ASSUME NEW w \in Workers, zend_accel_hash_clean(w) PROVE Shape'
  <2>1. op' = [op EXCEPT ![w] = [op[w] EXCEPT !.pc = "restore"]]
    BY Zenon, <1>5 DEF zend_accel_hash_clean, Goto
  <2>2. Stands([op[w] EXCEPT !.pc = "restore"], "restore")
    BY Zenon, Arrives
  <2> QED
    BY Zenon, <1>2, <2>1, <2>2 DEF Stands
<1>6. ASSUME NEW w \in Workers, Lookup(w) \/ Compile(w) PROVE Shape'
  BY Zenon, <1>1, <1>6, CallStep DEF Lands
<1>7. ASSUME NEW n \in Names, NEW t \in Names, Relink(n, t) PROVE Shape'
  <2>1. DOMAIN op' = Workers
    BY Zenon, <1>7 DEF Relink
  <2> QED
    BY Zenon, <1>7, <2>1, RelinkKeeps DEF Shape
<1>8. CASE (\E n \in Names : Edit(n)) \/ UNCHANGED vars
  BY Zenon, <1>8 DEF Edit, vars, Shape
<1> QED
  BY Zenon, <1>4, <1>5, <1>6, <1>7, <1>8 DEF Next

\* The cache is full before, or wasteful before: either way the worker that makes
\* it both comes to decide, and if it dies before that, that is on record.
LEMMA DecideStep ==
    ASSUME Shape, RestartNotMissed, [Next]_vars
    PROVE  RestartNotMissed'
<1>1. ASSUME UNCHANGED <<memory_exhausted, wasted, accelerator_enabled, undecided>>,
             \A v \in Workers : Deciding(v) => Deciding(v)'
      PROVE  RestartNotMissed'
  BY Zenon, <1>1 DEF RestartNotMissed, RestartDue
<1>2. ASSUME NEW w \in Workers, NEW r, op' = [op EXCEPT ![w] = r], ~Deciding(w)
      PROVE  \A v \in Workers : Deciding(v) => Deciding(v)'
  BY Zenon, <1>2 DEF Deciding, Shape
<1>3. ASSUME NEW w \in Workers, Lookup(w) \/ Compile(w) PROVE RestartNotMissed'
  <2>1. Lands(w) /\ Decides(w)
    BY Zenon, <1>3, CallStep
  <2>2. CASE ~Deciding(w) /\ UNCHANGED <<memory_exhausted, wasted, restart>>
    BY Zenon, <1>1, <1>2, <2>1, <2>2 DEF Lands, restart
  <2>3. CASE Deciding(w)' /\ UNCHANGED restart
    BY Zenon, <2>3 DEF RestartNotMissed
  <2>4. CASE zend_accel_schedule_restart_if_necessary /\ UNCHANGED <<memory_exhausted, wasted>>
    BY Zenon, <2>4 DEF zend_accel_schedule_restart_if_necessary, RestartNotMissed, RestartDue
  <2>5. CASE ~memory_exhausted'
    BY Zenon, <2>5 DEF RestartNotMissed, RestartDue
  <2> QED
    BY Zenon, <2>1, <2>2, <2>3, <2>4, <2>5 DEF Decides
<1>4. ASSUME NEW w \in Workers,
             accel_activate(w) \/ zend_accel_hash_clean(w) \/ accel_deactivate(w)
      PROVE  RestartNotMissed'
  <2>1. ~Deciding(w)
    BY <1>4 DEF accel_activate, zend_accel_hash_clean, accel_deactivate, Deciding, At
  <2>2. /\ UNCHANGED <<memory_exhausted, wasted, accelerator_enabled, undecided>>
        /\ \E r : op' = [op EXCEPT ![w] = r]
    BY Zenon, <1>4 DEF accel_activate, zend_accel_hash_clean, accel_deactivate, restart, segment,
                       Goto
  <2> QED
    BY Zenon, <1>1, <1>2, <2>1, <2>2
<1>5. ASSUME NEW w \in Workers, zend_shared_alloc_restore_state(w) PROVE RestartNotMissed'
  BY Zenon, <1>5 DEF zend_shared_alloc_restore_state, RestartNotMissed, RestartDue
<1>6. ASSUME NEW w \in Workers, Crash(w) PROVE RestartNotMissed'
  <2>1. /\ UNCHANGED <<memory_exhausted, wasted, accelerator_enabled>>
        /\ undecided' = (undecided \/ (Deciding(w) /\ RestartDue))
        /\ op' = [op EXCEPT ![w] = Outside]
    BY Zenon, <1>6 DEF Crash
  <2>2. \A v \in Workers : v # w => (Deciding(v) => Deciding(v)')
    BY Zenon, <2>1 DEF Deciding, Shape
  <2> QED
    BY Zenon, <2>1, <2>2 DEF RestartNotMissed, RestartDue
<1>7. CASE (\E n \in Names : Edit(n)) \/ UNCHANGED vars
  BY Zenon, <1>1, <1>7 DEF Edit, vars, segment, restart, Deciding
<1>8. ASSUME NEW n \in Names, NEW t \in Names, Relink(n, t) PROVE RestartNotMissed'
  <2>1. UNCHANGED <<memory_exhausted, wasted, accelerator_enabled, undecided>>
    BY Zenon, <1>8 DEF Relink, segment, restart
  <2>2. \A v \in Workers : op'[v].pc = op[v].pc
    BY Zenon, <1>8, RelinkKeeps
  <2> QED
    BY Zenon, <1>1, <2>1, <2>2 DEF Deciding
<1> QED
  BY Zenon, <1>3, <1>4, <1>5, <1>6, <1>7, <1>8 DEF Next

\* A full cache with enough waste is about to be restarted, whichever came first
\* and whatever happens to the files, unless the worker that had to decide died
\* between two of its stores.
THEOREM StoreRestartNotMissed == Spec => []RestartNotMissed
<1>1. Init => Shape /\ RestartNotMissed
  BY DEF Init, Outside, Shape, RestartNotMissed, RestartDue
<1>2. Shape /\ RestartNotMissed /\ [Next]_vars => (Shape /\ RestartNotMissed)'
  BY ShapeStep, DecideStep
<1> HIDE DEF Shape, RestartNotMissed
<1> QED
  BY <1>1, <1>2, PTL DEF Spec

----------------------------------------------------------------------------
\* A script that is being stored, and the scripts whose memory is wasted.
Fresh(i) == ~scripts[i].corrupted /\ scripts[i].consumption = 0
Bad == {i \in DOMAIN scripts \ Uncounted : scripts[i].corrupted /\ scripts[i].consumption # 0}

\* A script that counts and is not wasted is the one in the table.
KeptOK ==
    \A i \in DOMAIN scripts :
        scripts[i].consumption # 0 /\ ~scripts[i].corrupted => Existing(scripts[i].path) = i

\* What is not yet counted, or never, is marked, and not both.
MarksOK ==
    /\ \A i \in uncounted : i \in DOMAIN scripts /\ scripts[i].corrupted
    /\ \A w \in Workers : Marking(w) =>
        scripts[op[w].script].corrupted /\ op[w].script \notin uncounted

\* What w stores takes the place of nothing, or of a script that went bad; once
\* it is entered it is found.
Late == {"walk", "alias", "schedule", "account"}
PlaceOK(w) ==
    /\ At(w, "publish") =>
        /\ Fresh(op[w].script)
        /\ LET i == Existing(op[w].opened) IN i # 0 => scripts[i].corrupted
    /\ op[w].pc \in Late /\ op[w].text # 0 /\ op[w].script # 0 =>
        Fresh(op[w].script) /\ Existing(op[w].opened) = op[w].script

\* The inductive invariant, together with StoreInv and RestartInv, while the cache
\* is on or waits to be restarted.
Live == accelerator_enabled \/ restart_pending
WasteInv ==
    /\ wasted = ScriptSize * Cardinality(Bad)
    /\ KeptOK /\ MarksOK
    /\ \A w \in Workers : PlaceOK(w)

\* A step of w leaves to what v stores its place, and to what it marks its mark.
Quiet(v) ==
    /\ \/ op'[v].pc \notin Storing
       \/ op'[v].pc \in Late /\ (op'[v].text = 0 \/ op'[v].script = 0)
       \/ /\ op'[v].opened = op[v].opened /\ op'[v].script = op[v].script
          /\ op'[v].text = op[v].text
          /\ op'[v].pc = op[v].pc \/ (op[v].pc \in Late /\ op'[v].pc \in Late)
    /\ Marking(v)' <=> Marking(v)
    /\ Marking(v) => op'[v].script = op[v].script

----------------------------------------------------------------------------
\* The script of a path is that of its entry.
LEMMA SameExisting ==
    ASSUME EntriesOK, EntriesOK', TypeOK, NEW p \in Files, Published(p)' = Published(p),
           \A e \in Published(p) : entries'[e].data = entries[e].data
    PROVE  Existing(p)' = Existing(p)
<1>1. CASE Published(p) = {}
  BY <1>1 DEF Existing, zend_accel_hash_find_entry
<1>2. CASE Published(p) # {}
  <2> DEFINE e == CHOOSE e \in Published(p) : TRUE
  <2>1. e \in Published(p) /\ e \in Published(p)'
    BY <1>2
  <2>2. e \in DOMAIN entries /\ entries[e].key = p /\ e \in DOMAIN entries' /\ entries'[e].key = p
    BY <2>1 DEF Published
  <2>3. ~entries[e].indirect /\ ~entries'[e].indirect /\ entries[e].data.kind = "script"
    BY <2>2 DEF EntriesOK
  <2>4. entries'[e].data = entries[e].data
    BY <2>1
  <2>5. zend_accel_hash_find_entry(p) = e /\ zend_accel_hash_find_entry(p)' = e
    BY Zenon, <1>2, <2>3 DEF zend_accel_hash_find_entry
  <2> QED
    BY <2>3, <2>4, <2>5 DEF Existing
<1> QED
  BY <1>1, <1>2

\* No script or waste changes, and what workers store keeps its place.
LEMMA WasteFrame ==
    ASSUME StoreInv, WasteInv, UNCHANGED <<scripts, wasted, uncounted>>,
           \A p \in Files : Existing(p)' = Existing(p),
           \A v \in Workers : Quiet(v)
    PROVE  WasteInv'
<1>0. /\ \A v \in Workers : Marking(v)' <=> Marking(v)
      /\ \A v \in Workers : Marking(v) => op'[v].script = op[v].script
  BY DEF Quiet
<1>1. wasted' = ScriptSize * Cardinality(Bad')
  <2>1. {op'[w].script : w \in {v \in Workers : Marking(v)'}}
          = {op[w].script : w \in {v \in Workers : Marking(v)}}
    BY <1>0
  <2>2. Uncounted' = Uncounted
    BY <2>1 DEF Uncounted
  <2>3. Bad' = Bad
    BY <2>2 DEF Bad
  <2> QED
    BY <2>3 DEF WasteInv
<1>2. KeptOK'
  BY DEF WasteInv, KeptOK, StoreInv, ScriptsOK
<1>3. ASSUME NEW v \in Workers PROVE PlaceOK(v)'
  <2>1. PlaceOK(v) /\ Quiet(v) /\ CallOK(v)
    BY DEF WasteInv, StoreInv
  <2>2. op[v].pc = "publish" \/ op[v].text # 0 => op[v].opened \in Files
    BY <2>1 DEF CallOK, StoringOK, HandleOK, At
  <2> QED
    BY <2>1, <2>2 DEF PlaceOK, Quiet, Fresh, At, Storing, Late
<1>4. MarksOK'
  BY <1>0 DEF WasteInv, MarksOK
<1> QED
  BY <1>1, <1>2, <1>3, <1>4 DEF WasteInv

\* As WasteFrame, for a step that does not touch the table.
LEMMA WasteLocal ==
    ASSUME StoreInv, WasteInv, UNCHANGED <<entries, scripts, wasted, uncounted>>,
           NEW w \in Workers, op' = [op EXCEPT ![w] = op'[w]], Quiet(w)
    PROVE  WasteInv'
<1>1. \A p \in Files : Existing(p)' = Existing(p)
  BY DEF Existing, zend_accel_hash_find_entry, Published
<1>2. ASSUME NEW v \in Workers PROVE Quiet(v)
  <2>1. CASE v = w
    BY <2>1
  <2>2. CASE v # w
    BY <2>2 DEF StoreInv, TypeOK, Quiet, Marking
  <2> QED
    BY <2>1, <2>2
<1> QED
  BY <1>1, <1>2, WasteFrame

\* The steps without the lock.
LEMMA WasteLookup ==
    ASSUME StoreInv, WasteInv, NEW w \in Workers, Unlocked(w)
    PROVE  WasteInv'
<1>1. Shape
  BY Zenon, Shaped DEF StoreInv
<1>2. Lands(w) /\ UNCHANGED segment /\ op[w].pc \notin Held /\ op'[w].pc \notin Held
  BY Zenon, <1>1, UnlockedStep
<1>3. op'[w].pc \notin Storing /\ ~Marking(w) /\ ~Marking(w)'
  BY <1>2 DEF Held, Marking
<1>4. Quiet(w)
  BY Zenon, <1>3 DEF Quiet
<1> QED
  BY Zenon, <1>2, <1>4, WasteLocal DEF Lands, segment, restart

\* KeyDone(): what is stored keeps its place.
LEMMA KeyQuiet ==
    ASSUME TypeOK, NEW w \in Workers, KeyDone(w), ~Marking(w),
           op[w].text # 0 /\ op[w].script # 0 => op[w].pc \in Late
    PROVE  op' = [op EXCEPT ![w] = op'[w]] /\ Quiet(w)
<1> DEFINE o == op[w]
           q == op'[w]
<1>0. o \in Ops
  BY OpTypes
<1>1. CASE o.text = 0 \/ o.script = 0
  <2>1. op' = [op EXCEPT ![w] = IF o.text = 0 THEN Found(w, "check") ELSE Inside]
    BY <1>1 DEF KeyDone
  <2>2. op' = [op EXCEPT ![w] = op'[w]] /\ q.pc \in {"check", "idle"}
    <3>1. Stands(Found(w, "check"), "check") /\ Stands(Inside, "idle")
      BY Zenon, Shaped, Arrives
    <3> QED
      BY Zenon, <2>1, <3>1 DEF TypeOK, Stands
  <2> QED
    BY <2>2 DEF Quiet, Storing, Marking
<1>2. CASE o.text # 0 /\ o.script # 0
  <2>1. op' = [op EXCEPT ![w] = op'[w]] /\ q = [o EXCEPT !.pc = "account"]
    BY Zenon, <1>2 DEF KeyDone, TypeOK
  <2>2. o.pc \in Late
    BY <1>2
  <2>3. /\ q.pc = "account" /\ q.opened = o.opened /\ q.script = o.script
        /\ q.text = o.text
    <3>1. q = [o EXCEPT !.pc = "account"]
      BY <2>1
    <3> HIDE DEF o, q
    <3> QED
      BY ONLY <1>0, <3>1 DEF Ops
  <2> QED
    BY <2>1, <2>2, <2>3 DEF Quiet, Late, Marking
<1> QED
  BY <1>1, <1>2

\* Full(): so does it here.
LEMMA FullQuiet ==
    ASSUME TypeOK, NEW w \in Workers, NEW b, Full(w, b), ~Marking(w),
           op[w].text # 0 /\ op[w].script # 0 => op[w].pc \in Late
    PROVE  op' = [op EXCEPT ![w] = op'[w]] /\ Quiet(w)
<1> DEFINE o == op[w]
           q == op'[w]
<1>0. o \in Ops
  BY OpTypes
<1>1. op' = [op EXCEPT ![w] = op'[w]] /\ q = [o EXCEPT !.pc = "schedule", !.bucket = 0]
  BY Zenon DEF Full, Found, TypeOK
<1>2. q.pc = "schedule" /\ q.opened = o.opened /\ q.script = o.script /\ q.text = o.text
  <2>1. q = [o EXCEPT !.pc = "schedule", !.bucket = 0]
    BY <1>1
  <2> HIDE DEF o, q
  <2> QED
    BY ONLY <1>0, <2>1 DEF Ops
<1> QED
  BY <1>1, <1>2 DEF Quiet, Late, Marking

\* zend_accel_add_key() leaves the table as it is, up to "walk".
LEMMA WasteAddKey ==
    ASSUME StoreInv, WasteInv, NEW w \in Workers, NEW k, NEW b,
           zend_accel_add_key(w, k, b), op[w].text = 0 \/ op[w].script = 0, ~Marking(w),
           UNCHANGED <<entries, scripts, wasted>>
    PROVE  WasteInv'
<1> DEFINE o == op[w]
           q == op'[w]
<1>0. TypeOK /\ o \in Ops
  BY OpTypes DEF StoreInv
<1>a. uncounted' = uncounted
  BY DEF zend_accel_add_key, restart
<1>1. CASE KeyDone(w)
  BY <1>0, <1>1, <1>a, KeyQuiet, WasteLocal
<1>3. CASE \E x : Full(w, x)
  BY <1>0, <1>3, <1>a, FullQuiet, WasteLocal
<1>2. CASE op' = [op EXCEPT ![w].pc = "walk", ![w].bucket = b]
  <2>1. q = [o EXCEPT !.pc = "walk", !.bucket = b] /\ op' = [op EXCEPT ![w] = op'[w]]
    BY Zenon, <1>0, <1>2 DEF TypeOK
  <2>2. q.pc = "walk" /\ q.script = o.script /\ q.text = o.text
    <3>1. q = [o EXCEPT !.pc = "walk", !.bucket = b]
      BY <2>1
    <3> HIDE DEF o, q
    <3> QED
      BY ONLY <1>0, <3>1 DEF Ops
  <2>3. Quiet(w)
    BY <2>2 DEF Quiet, Late, Marking
  <2> QED
    BY Zenon, <1>a, <2>1, <2>3, WasteLocal
<1> QED
  BY Zenon, <1>1, <1>2, <1>3 DEF zend_accel_add_key

\* Walk() ends at the entry that the key is to refer to.
LEMMA WasteWalk ==
    ASSUME StoreInv, WasteInv, NEW w \in Workers, Walk(w)
    PROVE  WasteInv'
<1> DEFINE o == op[w]
           q == op'[w]
           e == entries[o.bucket]
<1>0. TypeOK /\ o \in Ops /\ o.pc = "walk"
  BY OpTypes DEF StoreInv, Walk, At
<1>1. q = IF e.indirect THEN [o EXCEPT !.bucket = e.data.at] ELSE [o EXCEPT !.pc = "alias"]
  BY Zenon, <1>0 DEF Walk, Local, TypeOK
<1>2. q.pc \in Late /\ q.opened = o.opened /\ q.script = o.script /\ q.text = o.text
  <2> HIDE DEF o, q, e
  <2> QED
    BY ONLY <1>0, <1>1 DEF Ops, Late
<1>3. op' = [op EXCEPT ![w] = op'[w]] /\ UNCHANGED <<entries, scripts, wasted, uncounted>>
  BY <1>0 DEF Walk, Local, segment, restart, TypeOK
<1>4. Quiet(w)
  BY SMTT(40), <1>0, <1>2 DEF Quiet, Late, Marking
<1> QED
  BY Zenon, <1>3, <1>4, WasteLocal

\* Alias(): the key is not a file, so no file's entry changes.
LEMMA WasteAlias ==
    ASSUME StoreInv, StoreInv', WasteInv, NEW w \in Workers, Alias(w)
    PROVE  WasteInv'
<1> DEFINE k == op[w].name
           d == EntryRef(op[w].bucket)
<1>0. TypeOK /\ CallOK(w) /\ EntriesOK /\ EntriesOK'
  BY DEF StoreInv
<1>1. op[w].pc = "alias" /\ k \in Names /\ k \notin Files /\ op[w].bucket \in Nat \ {0}
  BY <1>0, OpTypes DEF Alias, CallOK, NamesOK, FoundOK, At, Direct, TypeOK
<1>2. d \in [kind : {"script", "entry"}, at : Nat \ {0}]
  BY <1>1 DEF EntryRef
<1>3. \A e \in Published(k) : e \in DOMAIN entries /\ entries[e].key = k /\ entries[e].indirect
  BY <1>0, <1>1 DEF Published, EntriesOK
<1>4. /\ KeyDone(w) \/ Full(w, TRUE)
      /\ UNCHANGED <<scripts, wasted, uncounted>>
      /\ \/ entries' = entries
         \/ ~zend_accel_hash_is_full /\ entries' = NewEntry(k, TRUE, d)
         \/ \E e \in Published(k) : entries' = [entries EXCEPT ![e].data = d]
  BY Zenon, <1>3 DEF Alias, restart
<1>a. ~Marking(w) /\ op[w].pc \in Late
  BY <1>1 DEF Marking, Late
<1>5. op' = [op EXCEPT ![w] = op'[w]] /\ Quiet(w)
  BY Zenon, <1>0, <1>4, <1>a, KeyQuiet, FullQuiet
<1> HIDE DEF d, k
<1>6. ASSUME NEW p \in Files PROVE Existing(p)' = Existing(p)
  <2>0. p # k
    BY <1>1
  <2>1. CASE entries' = entries
    BY <2>1 DEF Existing, zend_accel_hash_find_entry, Published
  <2>2. CASE ~zend_accel_hash_is_full /\ entries' = NewEntry(k, TRUE, d)
    <3>1. Len(entries) < MaxEntries
      BY <1>0, <2>2, StoreAssumption DEF TypeOK, zend_accel_hash_is_full
    <3>2. /\ DOMAIN entries' = DOMAIN entries \cup {Len(entries')}
          /\ entries'[Len(entries')].key = k
          /\ \A f \in DOMAIN entries : entries'[f] = entries[f]
      BY Zenon, <1>0, <1>1, <1>2, <2>2, <3>1, EntryAdded
    <3>3. Published(p)' = Published(p) /\ \A e \in Published(p) : entries'[e] = entries[e]
      BY Zenon, <2>0, <3>2 DEF Published
    <3> QED
      BY <1>0, <3>3, SameExisting
  <2>3. CASE \E e \in Published(k) : entries' = [entries EXCEPT ![e].data = d]
    <3>1. PICK e \in Published(k) : entries' = [entries EXCEPT ![e].data = d]
      BY Zenon, <2>3
    <3>2. /\ DOMAIN entries' = DOMAIN entries /\ entries'[e].key = k /\ entries[e].key = k
          /\ \A f \in DOMAIN entries : f # e => entries'[f] = entries[f]
      BY Zenon, <1>0, <1>2, <1>3, <3>1, DataSet
    <3>3. Published(p)' = Published(p) /\ \A f \in Published(p) : entries'[f] = entries[f]
      BY <2>0, <3>2 DEF Published
    <3> QED
      BY <1>0, <3>3, SameExisting
  <2> QED
    BY Zenon, <1>4, <2>1, <2>2, <2>3
<1>7. ASSUME NEW v \in Workers PROVE Quiet(v)
  <2>1. CASE v = w
    BY SMTT(40), <1>5, <2>1
  <2>2. CASE v # w
    BY SMTT(40), <1>0, <1>5, <2>2 DEF TypeOK, Quiet, Marking
  <2> QED
    BY <2>1, <2>2
<1> QED
  BY <1>4, <1>6, <1>7, WasteFrame

\* Under the lock nobody else is storing or marking.
LEMMA Alone ==
    ASSUME StoreInv, NEW w \in Workers, lock \in {None, w},
           op' = [op EXCEPT ![w] = op'[w]], NEW v \in Workers, v # w
    PROVE  PlaceOK(v)' /\ ~Marking(v) /\ ~Marking(v)'
<1>1. op'[v] = op[v] /\ CallOK(v)
  BY Zenon DEF StoreInv, TypeOK
<1>2. op[v].pc \notin Held
  BY Zenon, <1>1, StoreAssumption DEF CallOK, StoringOK
<1> QED
  BY <1>1, <1>2 DEF PlaceOK, At, Storing, Held, Late, Marking

\* So that the scripts not yet counted are those of dead workers, if w has none.
LEMMA HolderMarks ==
    ASSUME StoreInv, WasteInv, NEW w \in Workers, lock \in {None, w},
           op' = [op EXCEPT ![w] = op'[w]], uncounted' = uncounted, ~Marking(w), ~Marking(w)',
           \A i \in DOMAIN scripts :
                i \in DOMAIN scripts' /\ scripts'[i].corrupted = scripts[i].corrupted
    PROVE  Uncounted = uncounted /\ Uncounted' = uncounted /\ MarksOK'
<1>1. \A v \in Workers : ~Marking(v) /\ ~Marking(v)'
  BY Zenon, Alone
<1>2. {v \in Workers : Marking(v)} = {} /\ {v \in Workers : Marking(v)'} = {}
  BY Zenon, <1>1
<1>3. Uncounted = uncounted /\ Uncounted' = uncounted
  BY <1>2 DEF Uncounted
<1> QED
  BY <1>1, <1>3 DEF WasteInv, MarksOK

\* Corrupt(), Untime(), Waste(), Due(): w is the only one that marks.
LEMMA OnlyMark ==
    ASSUME StoreInv, NEW w \in Workers, lock \in {None, w},
           op' = [op EXCEPT ![w] = op'[w]], uncounted' = uncounted
    PROVE  /\ Uncounted = IF Marking(w) THEN uncounted \cup {op[w].script} ELSE uncounted
           /\ Uncounted' = IF Marking(w)' THEN uncounted \cup {op'[w].script} ELSE uncounted
<1>1. \A v \in Workers : v # w => ~Marking(v) /\ ~Marking(v)'
  BY Zenon, Alone
<1>2. /\ {v \in Workers : Marking(v)} = IF Marking(w) THEN {w} ELSE {}
      /\ {v \in Workers : Marking(v)'} = IF Marking(w)' THEN {w} ELSE {}
  BY <1>1
<1>3. Uncounted' = uncounted \cup {op'[v].script : v \in {u \in Workers : Marking(u)'}}
  BY Zenon DEF Uncounted
<1>4. Uncounted = uncounted \cup {op[v].script : v \in {u \in Workers : Marking(u)}}
  BY Zenon DEF Uncounted
<1> QED
  BY <1>2, <1>3, <1>4

\* Corrupt(), Untime(): what is marked does not count yet.
LEMMA WasteCorrupt ==
    ASSUME StoreInv, WasteInv, NEW w \in Workers, Corrupt(w) \/ Untime(w)
    PROVE  WasteInv'
<1> DEFINE i == op[w].script
           o == op[w]
           q == op'[w]
<1>0. TypeOK /\ CallOK(w) /\ KeptOK /\ MarksOK /\ wasted = ScriptSize * Cardinality(Bad) /\ o \in Ops
  BY OpTypes DEF StoreInv, WasteInv
<1>1. i \in DOMAIN scripts /\ lock \in {None, w}
  BY <1>0 DEF Corrupt, Untime, CallOK, FoundOK, StoringOK, HasScript, Held, At
<1>2. entries' = entries /\ wasted' = wasted /\ uncounted' = uncounted
  BY Zenon DEF Corrupt, Untime, restart
<1>3. CASE /\ op[w].pc = "corrupt" /\ op' = [op EXCEPT ![w] = NotFound(w)] /\ scripts' = scripts
  <2>1. op' = [op EXCEPT ![w] = op'[w]] /\ (op'[w].pc = "miss" \/ op'[w].pc = "idle")
    <3>1. Stands(NotFound(w), "miss") \/ Stands(NotFound(w), "idle")
      BY Zenon, <1>0, Shaped, Arrives
    <3> QED
      BY Zenon, <1>0, <1>3, <3>1 DEF TypeOK, Stands
  <2>2. Quiet(w)
    BY <1>3, <2>1 DEF Quiet, Storing, Marking
  <2> QED
    BY Zenon, <1>2, <1>3, <2>1, <2>2, WasteLocal
<1>4. CASE \/ /\ o.pc = "corrupt" /\ ~scripts[i].corrupted /\ Goto(w, "untime")
              /\ scripts' = [scripts EXCEPT ![i].corrupted = TRUE]
           \/ /\ o.pc = "untime" /\ Goto(w, "waste")
              /\ scripts' = [scripts EXCEPT ![i].timestamp = 0]
  <2>1. scripts[i] \in Scripts /\ scripts \in Seq(Scripts)
    BY <1>0, <1>1 DEF TypeOK
  <2>2. PICK r : /\ scripts' = [scripts EXCEPT ![i] = r]
                 /\ \/ /\ r = [scripts[i] EXCEPT !.corrupted = TRUE] /\ o.pc = "corrupt"
                       /\ ~scripts[i].corrupted
                    \/ r = [scripts[i] EXCEPT !.timestamp = 0] /\ o.pc = "untime"
    BY Zenon, <1>4
  <2>3. /\ DOMAIN scripts' = DOMAIN scripts /\ scripts'[i] = r
        /\ \A j \in DOMAIN scripts : j # i => scripts'[j] = scripts[j]
    BY ONLY SMTT(40), <1>1, <2>1, <2>2
  <2>4. /\ r.path = scripts[i].path /\ r.consumption = scripts[i].consumption
        /\ o.pc = "corrupt" => r.corrupted /\ ~scripts[i].corrupted
        /\ o.pc = "untime" => r.corrupted = scripts[i].corrupted
    <3> DEFINE s == scripts[i]
    <3>1. /\ s \in Scripts
          /\ \/ r = [s EXCEPT !.corrupted = TRUE] /\ o.pc = "corrupt" /\ ~s.corrupted
             \/ r = [s EXCEPT !.timestamp = 0] /\ o.pc = "untime"
      BY <2>1, <2>2
    <3> HIDE DEF s, o
    <3>2. /\ r.path = s.path /\ r.consumption = s.consumption
          /\ o.pc = "corrupt" => r.corrupted /\ ~s.corrupted
          /\ o.pc = "untime" => r.corrupted = s.corrupted
      BY ONLY <3>1 DEF Scripts
    <3> QED
      BY <3>2 DEF s
  <2>5. PICK l \in {"untime", "waste"} : Goto(w, l)
    BY <1>4
  <2>6. op' = [op EXCEPT ![w] = op'[w]] /\ q = [o EXCEPT !.pc = l]
    BY Zenon, <1>0, <2>5 DEF Goto, TypeOK
  <2>7. q.pc = l /\ q.script = i
    <3>1. q = [o EXCEPT !.pc = l] /\ i = o.script
      BY <2>6
    <3> HIDE DEF o, q, i
    <3> QED
      BY ONLY <1>0, <3>1 DEF Ops
  <2>8. Marking(w)' /\ (Marking(w) <=> o.pc = "untime")
    BY <1>4, <2>7 DEF Marking
  <2>9. /\ o.pc = "corrupt" => Uncounted = uncounted
        /\ o.pc = "untime" => Uncounted = uncounted \cup {i}
        /\ Uncounted' = uncounted \cup {i}
    <3>1. /\ Uncounted = IF Marking(w) THEN uncounted \cup {op[w].script} ELSE uncounted
          /\ Uncounted' = IF Marking(w)' THEN uncounted \cup {op'[w].script} ELSE uncounted
      BY Zenon, <1>1, <1>2, <2>6, OnlyMark
    <3> QED
      BY <2>7, <2>8, <3>1
  <2>10. o.pc = "corrupt" \/ o.pc = "untime"
    BY <1>4
  <2>11. i \notin uncounted /\ (o.pc = "untime" => scripts[i].corrupted)
    BY Zenon, <1>0, <2>4, <2>8, <2>10 DEF MarksOK
  <2>12. r.corrupted
    BY Zenon, <2>4, <2>10, <2>11
  <2> HIDE DEF i, o, q
  <2>13. Bad' = Bad
    BY <1>1, <2>3, <2>4, <2>9, <2>10 DEF Bad
  <2>14. KeptOK'
    <3>1. \A p : Existing(p)' = Existing(p)
      BY <1>2 DEF Existing, zend_accel_hash_find_entry, Published
    <3> QED
      BY Zenon, <1>0, <2>3, <2>4, <2>12, <3>1 DEF KeptOK
  <2>15. MarksOK'
    <3>1. \A v \in Workers : v # w => ~Marking(v)'
      BY Zenon, <1>1, <2>6, Alone
    <3>2. op'[w].script = i
      BY <2>7 DEF q
    <3>3. \A j \in uncounted : j \in DOMAIN scripts' /\ scripts'[j].corrupted
      BY <1>0, <2>3, <2>11 DEF MarksOK
    <3>4. \A v \in Workers : Marking(v)' =>
            scripts'[op'[v].script].corrupted /\ op'[v].script \notin uncounted
      BY Zenon, <2>3, <2>11, <2>12, <3>1, <3>2
    <3> QED
      BY Zenon, <1>2, <3>3, <3>4 DEF MarksOK
  <2>16. \A v \in Workers : PlaceOK(v)'
    <3>1. PlaceOK(w)'
      BY <2>7 DEF PlaceOK, At, Late, q
    <3> QED
      BY Zenon, <1>1, <2>6, <3>1, Alone
  <2> QED
    BY Zenon, <1>0, <1>2, <2>13, <2>14, <2>15, <2>16 DEF WasteInv
<1> QED
  BY Zenon, <1>3, <1>4 DEF Corrupt, Untime, At

\* Waste(): the waste grows by what the script takes, if that was recorded.
LEMMA WasteWaste ==
    ASSUME StoreInv, WasteInv, NEW w \in Workers, Waste(w)
    PROVE  WasteInv'
<1> DEFINE i == op[w].script
           n == scripts[i].consumption
<1>0. TypeOK /\ CallOK(w) /\ KeptOK /\ MarksOK /\ wasted = ScriptSize * Cardinality(Bad)
  BY DEF StoreInv, WasteInv
<1>1. i \in DOMAIN scripts /\ lock = w /\ op[w].pc = "waste"
  BY <1>0 DEF Waste, CallOK, FoundOK, StoringOK, HasScript, Held, At
<1>2. /\ entries' = entries /\ scripts' = scripts /\ uncounted' = uncounted
      /\ wasted' = wasted + n
  BY Zenon DEF Waste, restart
<1>3. op' = [op EXCEPT ![w] = op'[w]] /\ op'[w].pc = "due"
  <2>1. op' = [op EXCEPT ![w] = [op[w] EXCEPT !.pc = "due"]]
    BY Zenon DEF Waste, Goto
  <2>2. Stands([op[w] EXCEPT !.pc = "due"], "due")
    BY Zenon, <1>0, Shaped, Arrives
  <2> QED
    BY Zenon, <1>0, <2>1, <2>2 DEF TypeOK, Stands
<1>4. Marking(w) /\ ~Marking(w)'
  BY <1>1, <1>3 DEF Marking
<1>5. Uncounted = uncounted \cup {i} /\ Uncounted' = uncounted
  BY Zenon, <1>1, <1>2, <1>3, <1>4, OnlyMark
<1>6. scripts[i].corrupted /\ i \notin uncounted
  BY Zenon, <1>0, <1>4 DEF MarksOK
<1>7. n \in {0, ScriptSize} /\ IsFiniteSet(Bad) /\ Cardinality(Bad) \in Nat
  <2>1. scripts[i] \in Scripts /\ scripts \in Seq(Scripts)
    BY <1>0, <1>1 DEF TypeOK
  <2>2. \A c \in Scripts : c.consumption \in {0, ScriptSize}
    BY DEF Scripts
  <2>3. DOMAIN scripts = 1 .. Len(scripts) /\ Len(scripts) \in Int
    BY <2>1
  <2>4. IsFiniteSet(DOMAIN scripts)
    BY <2>3, FS_Interval
  <2>5. Bad \in SUBSET (DOMAIN scripts)
    BY DEF Bad
  <2> QED
    BY Zenon, <2>1, <2>2, <2>4, <2>5, FS_Subset, FS_CardinalityType
<1>8. i \notin Bad
  BY <1>5 DEF Bad
<1> HIDE DEF i
<1>9. Bad' = IF n # 0 THEN Bad \cup {i} ELSE Bad
  BY <1>1, <1>2, <1>5, <1>6 DEF Bad
<1>10. Cardinality(Bad \cup {i}) = Cardinality(Bad) + 1
  BY Zenon, <1>7, <1>8, FS_AddElement
<1>11. wasted' = ScriptSize * Cardinality(Bad')
  <2>1. \A c \in Nat : ScriptSize * (c + 1) = ScriptSize * c + ScriptSize
    BY StoreAssumption
  <2>2. ScriptSize * Cardinality(Bad) \in Nat /\ ScriptSize \in Nat \ {0}
    BY <1>7, StoreAssumption
  <2>3. CASE n = 0
    <3>1. wasted' = wasted + 0 /\ wasted \in Nat /\ Bad' = Bad
      BY <1>0, <1>2, <1>9, <2>2, <2>3
    <3>2. wasted' = wasted
      BY ONLY <3>1
    <3> QED
      BY Zenon, <1>0, <3>1, <3>2
  <2>4. CASE n = ScriptSize
    <3>1. Bad' = Bad \cup {i} /\ wasted' = wasted + ScriptSize
      BY <1>2, <1>9, <2>2, <2>4
    <3> QED
      BY Zenon, <1>0, <1>7, <1>10, <2>1, <3>1
  <2> QED
    BY Zenon, <1>7, <2>3, <2>4
<1>12. KeptOK'
  <2>1. \A p : Existing(p)' = Existing(p)
    BY <1>2 DEF Existing, zend_accel_hash_find_entry, Published
  <2> QED
    BY Zenon, <1>0, <1>2, <2>1 DEF KeptOK
<1>13. \A v \in Workers : ~Marking(v)' /\ PlaceOK(v)'
  <2>1. PlaceOK(w)'
    BY <1>3 DEF PlaceOK, At, Late
  <2> QED
    BY Zenon, <1>1, <1>3, <1>4, <2>1, Alone
<1>14. MarksOK'
  BY Zenon, <1>0, <1>2, <1>13 DEF MarksOK
<1> QED
  BY Zenon, <1>11, <1>12, <1>13, <1>14 DEF WasteInv

\* Due(), Schedule(): the decision changes no waste.
LEMMA WasteDecide ==
    ASSUME StoreInv, WasteInv, NEW w \in Workers, Due(w) \/ Schedule(w)
    PROVE  WasteInv'
<1>0. TypeOK
  BY DEF StoreInv
<1>1. UNCHANGED <<entries, scripts, wasted, uncounted>> /\ op[w].pc \in {"due", "schedule"}
  BY Zenon DEF Due, Schedule, zend_accel_schedule_restart_if_necessary, restart, At
<1>2. ~Marking(w)
  BY <1>1 DEF Marking
<1>3. CASE Due(w)
  <2>1. op' = [op EXCEPT ![w] = op'[w]] /\ (op'[w].pc = "miss" \/ op'[w].pc = "idle")
    <3>1. Stands(NotFound(w), "miss") \/ Stands(NotFound(w), "idle")
      BY Zenon, <1>0, Shaped, Arrives
    <3> QED
      BY Zenon, <1>0, <1>3, <3>1 DEF Due, TypeOK, Stands
  <2>2. Quiet(w)
    BY <1>2, <2>1 DEF Quiet, Storing, Marking
  <2> QED
    BY Zenon, <1>1, <2>1, <2>2, WasteLocal
<1>4. CASE Schedule(w)
  <2>1. KeyDone(w) /\ op[w].pc \in Late
    BY <1>4 DEF Schedule, At, Late
  <2> QED
    BY Zenon, <1>0, <1>1, <1>2, <2>1, KeyQuiet, WasteLocal
<1> QED
  BY <1>3, <1>4

\* A new script takes the place of one that went bad.
LEMMA WasteAllocate ==
    ASSUME StoreInv, WasteInv, NEW w \in Workers, At(w, "store"), lock = None,
           LET i == Existing(op[w].opened) IN i # 0 => scripts[i].corrupted,
           scripts' = Append(scripts,
                [path |-> op[w].opened, timestamp |-> op[w].stamp, text |-> op[w].text,
                 corrupted |-> FALSE, consumption |-> 0]),
           op' = [op EXCEPT ![w].script = Len(scripts'), ![w].pc = "publish"],
           UNCHANGED <<entries, wasted, uncounted>>
    PROVE  WasteInv'
<1> DEFINE o == op[w]
           q == op'[w]
           i == Len(scripts')
           s == [path |-> o.opened, timestamp |-> o.stamp, text |-> o.text,
                 corrupted |-> FALSE, consumption |-> 0]
<1>0. TypeOK /\ KeptOK /\ o \in Ops /\ CallOK(w) /\ EntriesOK
  BY OpTypes DEF StoreInv, WasteInv
<1>1. scripts' = Append(scripts, s) /\ scripts \in Seq(Scripts)
  BY <1>0 DEF TypeOK
<1>2. s.corrupted = FALSE /\ s.consumption = 0
  OBVIOUS
<1> HIDE DEF s
<1>3. /\ i = Len(scripts) + 1 /\ DOMAIN scripts' = DOMAIN scripts \cup {i}
      /\ scripts'[i] = s /\ \A j \in DOMAIN scripts : scripts'[j] = scripts[j]
  BY ONLY <1>1
<1>4. \A p : Existing(p)' = Existing(p)
  <2>1. entries' = entries
    OBVIOUS
  <2> QED
    BY ONLY <2>1 DEF Existing, zend_accel_hash_find_entry, Published
<1>7. q = [o EXCEPT !.pc = "publish", !.script = i] /\ op' = [op EXCEPT ![w] = op'[w]]
  BY Zenon, <1>0 DEF TypeOK
<1>8. q.pc = "publish" /\ q.opened = o.opened /\ q.script = i
  <2> HIDE DEF o, q, i
  <2> QED
    BY ONLY <1>0, <1>7 DEF Ops
<1>a. Uncounted = uncounted /\ Uncounted' = uncounted /\ MarksOK'
  <2>1. ~Marking(w) /\ ~Marking(w)'
    BY <1>8 DEF Marking, At
  <2> HIDE DEF i
  <2>2. \A j \in DOMAIN scripts : j \in DOMAIN scripts' /\ scripts'[j].corrupted = scripts[j].corrupted
    BY <1>3
  <2> QED
    BY Zenon, <1>7, <2>1, <2>2, HolderMarks
<1>5. wasted' = ScriptSize * Cardinality(Bad')
  <2>1. i \notin DOMAIN scripts
    BY ONLY <1>1, <1>3
  <2> HIDE DEF i
  <2>2. Bad' = Bad
    BY <1>2, <1>3, <1>a, <2>1 DEF Bad
  <2> QED
    BY <2>2 DEF WasteInv
<1>6. KeptOK'
  <2> HIDE DEF i
  <2> QED
    BY <1>0, <1>2, <1>3, <1>4 DEF KeptOK
<1> HIDE DEF i
<1>9. PlaceOK(w)'
  <2>1. o.opened \in Files
    BY SMTT(40), <1>0 DEF CallOK, StoringOK, HandleOK, At
  <2>2. Existing(o.opened) # 0 => Existing(o.opened) \in DOMAIN scripts
    <3>1. SUFFICES ASSUME Existing(o.opened) # 0 PROVE Existing(o.opened) \in DOMAIN scripts
      OBVIOUS
    <3>2. Direct(zend_accel_hash_find_entry(o.opened))
      BY Zenon, <1>0, <3>1, FindEntry DEF Existing
    <3> QED
      BY <1>0, <3>1, <3>2 DEF Existing, Direct, EntriesOK
  <2>3. /\ Existing(op[w].opened) # 0 => scripts'[Existing(op[w].opened)].corrupted
        /\ ~scripts'[i].corrupted /\ scripts'[i].consumption = 0
    BY <1>2, <1>3, <2>2
  <2> QED
    BY Zenon, <1>4, <1>8, <2>3 DEF PlaceOK, Fresh, At, Late
<1> QED
  BY Zenon, <1>5, <1>6, <1>7, <1>9, <1>a, Alone DEF WasteInv

\* The script that a path leads to, when its entry is known.
LEMMA OwnEntry ==
    ASSUME EntriesOK, TypeOK, NEW p \in Files, NEW e \in DOMAIN entries,
           Published(p) # {}, e = CHOOSE f \in Published(p) : TRUE
    PROVE  zend_accel_hash_find_entry(p) = e /\ entries[e].key = p
           /\ Existing(p) = entries[e].data.at
<1>1. e \in Published(p)
  BY Zenon
<1>2. entries[e].key = p
  BY <1>1 DEF Published
<1>3. ~entries[e].indirect /\ entries[e].data.kind = "script"
  BY <1>2 DEF EntriesOK
<1>4. zend_accel_hash_find_entry(p) = e
  BY Zenon, <1>3 DEF zend_accel_hash_find_entry
<1>5. 0 \notin DOMAIN entries
  BY DEF TypeOK
<1>6. e # 0
  BY Zenon, <1>5
<1> QED
  BY <1>2, <1>3, <1>4, <1>6 DEF Existing

\* Publish(): the path leads to the new script, other paths to theirs.
LEMMA PublishPlace ==
    ASSUME StoreInv, StoreInv', NEW w \in Workers, Publish(w), NEW a, a = op[w].opened
    PROVE  /\ Existing(a)' = op[w].script
           /\ \A p \in Files : p # a => Existing(p)' = Existing(p)
<1> DEFINE d == ScriptRef(op[w].script)
<1>0. TypeOK /\ TypeOK' /\ CallOK(w) /\ EntriesOK /\ EntriesOK'
  BY SMTT(40) DEF StoreInv
<1>1. a \in Files /\ a \in Names /\ op[w].script \in Nat \ {0} /\ Len(entries) < MaxEntries
  BY <1>0, OpTypes DEF Publish, CallOK, HandleOK, FoundOK, StoringOK, HasScript, Storing,
                      At, Files
<1>2. d \in [kind : {"script", "entry"}, at : Nat \ {0}] /\ d.at = op[w].script
  BY <1>1 DEF ScriptRef
<1>3. PICK e : /\ e \in DOMAIN entries' /\ entries'[e].data = d
               /\ e = CHOOSE f \in Published(a)' : TRUE
               /\ Published(a)' # {}
               /\ \A p \in Files : p # a => Published(p)' = Published(p)
               /\ \A f \in DOMAIN entries : entries[f].key # a => entries'[f] = entries[f]
  <2>1. CASE Published(a) = {}
    <3> DEFINE b == Len(entries')
    <3>1. entries' = NewEntry(a, FALSE, d)
      BY <2>1 DEF Publish
    <3> HIDE DEF d
    <3>2. /\ DOMAIN entries' = DOMAIN entries \cup {b} /\ b \notin DOMAIN entries
          /\ entries'[b].data = d /\ entries'[b].key = a
          /\ \A f \in DOMAIN entries : entries'[f] = entries[f]
      BY Zenon, <1>0, <1>1, <1>2, <3>1, EntryAdded
    <3> HIDE DEF b
    <3>3. Published(a)' = {b} /\ \A p \in Files : p # a => Published(p)' = Published(p)
      BY <2>1, <3>2 DEF Published
    <3>4. b = CHOOSE f \in {b} : TRUE
      OBVIOUS
    <3> QED
      BY <3>2, <3>3, <3>4
  <2>2. CASE Published(a) # {}
    <3> DEFINE c == CHOOSE f \in Published(a) : TRUE
    <3>1. c \in DOMAIN entries
      BY <2>2 DEF Published
    <3>2. zend_accel_hash_find_entry(a) = c /\ entries[c].key = a
      BY Zenon, <1>0, <1>1, <2>2, <3>1, OwnEntry
    <3>3. entries' = [entries EXCEPT ![c].data = d]
      BY Zenon, <2>2, <3>2 DEF Publish
    <3> HIDE DEF c, d
    <3>4. /\ DOMAIN entries' = DOMAIN entries /\ entries'[c].data = d
          /\ entries'[c].key = entries[c].key
          /\ \A f \in DOMAIN entries : f # c => entries'[f] = entries[f]
      BY Zenon, <1>0, <1>2, <3>1, <3>3, DataSet
    <3>5. \A f \in DOMAIN entries : entries'[f].key = entries[f].key
      BY <3>4
    <3>6. \A p : Published(p)' = Published(p)
      BY <3>4, <3>5 DEF Published
    <3>7. c = CHOOSE f \in Published(a)' : TRUE
      BY <3>6 DEF c
    <3> QED
      BY Zenon, <2>2, <3>1, <3>2, <3>4, <3>6, <3>7
  <2> QED
    BY <2>1, <2>2
<1> HIDE DEF d
<1>4. ASSUME NEW p \in Files, p # a PROVE Existing(p)' = Existing(p)
  <2>1. \A f \in Published(p) : entries'[f] = entries[f]
    BY SMTT(40), <1>3, <1>4 DEF Published
  <2> QED
    BY SMTT(40), <1>0, <1>3, <1>4, <2>1, SameExisting
<1>5. Existing(a)' = op[w].script
  <2>1. e \in Published(a)'
    BY Zenon, <1>3
  <2>2. entries'[e].key = a
    BY <2>1 DEF Published
  <2>3. ~entries'[e].indirect /\ entries'[e].data.kind = "script"
    BY Zenon, <1>0, <1>1, <1>3, <2>2 DEF EntriesOK
  <2>4. zend_accel_hash_find_entry(a)' = e /\ e # 0
    <3>1. e # 0
      <4>1. 0 \notin DOMAIN entries'
        BY <1>0 DEF TypeOK
      <4> QED
        BY Zenon, <1>3, <4>1
    <3> QED
      BY Zenon, <1>3, <2>3, <3>1 DEF zend_accel_hash_find_entry
  <2> QED
    BY <1>2, <1>3, <2>3, <2>4 DEF Existing
<1> QED
  BY <1>4, <1>5

\* Publish(): what was in the place of the new script had gone bad.
LEMMA WastePublish ==
    ASSUME StoreInv, StoreInv', WasteInv, NEW w \in Workers, Publish(w)
    PROVE  WasteInv'
<1> DEFINE o == op[w]
           q == op'[w]
           s == o.script
<1>0. TypeOK /\ CallOK(w) /\ KeptOK /\ PlaceOK(w) /\ o \in Ops /\ ScriptsOK
  BY OpTypes DEF StoreInv, WasteInv
<1>1. /\ o.pc = "publish" /\ o.opened \in Files /\ s # 0 /\ s \in DOMAIN scripts
      /\ scripts[s].path = o.opened /\ lock = w
  BY <1>0 DEF Publish, CallOK, HandleOK, FoundOK, StoringOK, HasScript, Storing, Held, At
<1>2. /\ Fresh(s) /\ (Existing(o.opened) # 0 => scripts[Existing(o.opened)].corrupted)
  BY <1>0, <1>1 DEF PlaceOK, At
<1>3. PICK a, c : a = o.opened /\ c = s
  OBVIOUS
<1>4. /\ Existing(a)' = c /\ \A p \in Files : p # a => Existing(p)' = Existing(p)
  BY <1>3, PublishPlace
<1>5. scripts' = scripts /\ wasted' = wasted /\ uncounted' = uncounted
  BY DEF Publish, restart
<1> DEFINE old == Published(o.opened)
           b == IF old = {} THEN Len(entries') ELSE CHOOSE e \in old : TRUE
           l == IF o.name # o.opened THEN "walk" ELSE "account"
<1>6. q = [o EXCEPT !.bucket = b, !.pc = l] /\ op' = [op EXCEPT ![w] = op'[w]]
  BY Zenon, <1>0 DEF Publish, TypeOK
<1>7. q.pc \in {"walk", "account"} /\ q.opened = o.opened /\ q.script = s
  <2>1. l \in {"walk", "account"}
    OBVIOUS
  <2> HIDE DEF o, q, b, l
  <2> QED
    BY ONLY <1>0, <1>6, <2>1 DEF Ops, s
<1> HIDE DEF o, q, s
<1>a. Uncounted = uncounted /\ Uncounted' = uncounted /\ MarksOK'
  <2>1. ~Marking(w) /\ ~Marking(w)'
    BY <1>1, <1>7 DEF Marking, o, q
  <2> QED
    BY Zenon, <1>1, <1>5, <1>6, <2>1, HolderMarks
<1>8. wasted' = ScriptSize * Cardinality(Bad')
  BY <1>5, <1>a DEF WasteInv, Bad
<1>9. KeptOK'
  <2>1. SUFFICES ASSUME NEW j \in DOMAIN scripts, scripts[j].consumption # 0,
                        ~scripts[j].corrupted
                 PROVE  Existing(scripts[j].path)' = j
    BY <1>5 DEF KeptOK
  <2>2. PICK p : p = scripts[j].path
    OBVIOUS
  <2>3. p \in Files /\ Existing(p) = j /\ j # 0
    BY <1>0, <2>1, <2>2 DEF KeptOK, ScriptsOK, TypeOK
  <2>4. p # a
    BY SMTT(40), <1>2, <1>3, <2>1, <2>3
  <2> QED
    BY SMTT(40), <1>4, <1>5, <2>2, <2>3, <2>4
<1>10. PlaceOK(w)'
  <2>1. op'[w].pc \in {"walk", "account"} /\ op'[w].opened = a /\ op'[w].script = c
    BY <1>3, <1>7 DEF q
  <2>2. Fresh(c)'
    BY <1>2, <1>3, <1>5 DEF Fresh
  <2> QED
    BY <1>4, <2>1, <2>2 DEF PlaceOK, At, Late
<1> QED
  BY Zenon, <1>1, <1>6, <1>8, <1>9, <1>10, <1>a, Alone DEF WasteInv

\* Account(): a script begins to count when it is in the table.
LEMMA WasteAccount ==
    ASSUME StoreInv, WasteInv, NEW w \in Workers, Account(w)
    PROVE  WasteInv'
<1> DEFINE i == op[w].script
<1>0. TypeOK /\ CallOK(w) /\ KeptOK /\ PlaceOK(w)
  BY DEF StoreInv, WasteInv
<1>1. /\ op[w].pc = "account" /\ i # 0 /\ i \in DOMAIN scripts /\ lock = w
      /\ op[w].text # 0 /\ scripts[i].path = op[w].opened
  BY SMTT(40), <1>0 DEF Account, CallOK, FoundOK, StoringOK, HasScript, Storing, Held, At
<1>2. ~scripts[i].corrupted /\ Existing(scripts[i].path) = i
  BY <1>0, <1>1 DEF PlaceOK, Late, Fresh
<1>3. /\ op'[w] = Found(w, "run") /\ op' = [op EXCEPT ![w] = op'[w]]
      /\ scripts' = [scripts EXCEPT ![i].consumption = ScriptSize]
      /\ entries' = entries /\ wasted' = wasted /\ uncounted' = uncounted
  BY <1>0 DEF Account, TypeOK, restart
<1>4. scripts[i] \in Scripts /\ scripts \in Seq(Scripts)
  BY <1>0, <1>1 DEF TypeOK
<1>5. /\ DOMAIN scripts' = DOMAIN scripts
      /\ scripts'[i] = [scripts[i] EXCEPT !.consumption = ScriptSize]
      /\ \A j \in DOMAIN scripts : j # i => scripts'[j] = scripts[j]
  BY SMTT(40), <1>1, <1>3, <1>4
<1>6. scripts'[i].path = scripts[i].path /\ scripts'[i].corrupted = scripts[i].corrupted
  <2> DEFINE s == scripts[i]
             r == scripts'[i]
  <2>1. s \in Scripts /\ r = [s EXCEPT !.consumption = ScriptSize]
    BY <1>4, <1>5
  <2> HIDE DEF s, r
  <2>2. r.path = s.path /\ r.corrupted = s.corrupted
    BY ONLY Zenon, <2>1 DEF Scripts
  <2> QED
    BY <2>2 DEF s, r
<1>a. op'[w].pc = "run"
  <2>1. Stands(Found(w, "run"), "run")
    BY Zenon, <1>0, Shaped, Arrives
  <2> QED
    BY Zenon, <1>0, <1>3, <2>1 DEF Account, TypeOK, Stands
<1>7. PlaceOK(w)'
  BY <1>a DEF PlaceOK, At, Late
<1>b. Uncounted = uncounted /\ Uncounted' = uncounted /\ MarksOK'
  <2>1. ~Marking(w) /\ ~Marking(w)'
    BY <1>1, <1>a DEF Marking
  <2> HIDE DEF i
  <2>2. \A j \in DOMAIN scripts : j \in DOMAIN scripts' /\ scripts'[j].corrupted = scripts[j].corrupted
    BY Zenon, <1>5, <1>6
  <2> QED
    BY Zenon, <1>1, <1>3, <2>1, <2>2, HolderMarks
<1>8. \A p : Existing(p)' = Existing(p)
  BY <1>3 DEF Existing, zend_accel_hash_find_entry, Published
<1>9. \A v \in Workers : PlaceOK(v)'
  BY <1>1, <1>3, <1>7, Alone
<1> HIDE DEF i
<1>10. KeptOK'
  BY Zenon, <1>0, <1>2, <1>5, <1>6, <1>8 DEF KeptOK
<1>11. Bad' = Bad
  BY Zenon, <1>2, <1>5, <1>6, <1>b DEF Bad
<1> QED
  BY <1>3, <1>9, <1>10, <1>11, <1>b DEF WasteInv

\* cache_script_in_shared_memory() up to the allocation.
LEMMA WasteStore ==
    ASSUME StoreInv, StoreInv', WasteInv, NEW w \in Workers, cache_script_in_shared_memory(w)
    PROVE  WasteInv'
<1>0. TypeOK /\ CallOK(w) /\ TypeOK'
  BY SMTT(40) DEF StoreInv
<1>1. At(w, "store") /\ lock = None /\ op[w].script = 0
  BY <1>0 DEF cache_script_in_shared_memory, CallOK, StoringOK, At
<1>a. ~Marking(w)
  BY <1>1 DEF Marking, At
<1>2. CASE op' = [op EXCEPT ![w] = Inside] /\ UNCHANGED <<entries, scripts, wasted, uncounted>>
  <2>1. op' = [op EXCEPT ![w] = op'[w]] /\ op'[w].pc = "idle"
    BY Zenon, <1>0, <1>2, Shaped, Arrives DEF TypeOK, Stands
  <2>2. Quiet(w)
    BY <1>a, <2>1 DEF Quiet, Storing, Marking
  <2> QED
    BY Zenon, <1>2, <2>1, <2>2, WasteLocal
<1>b. CASE (\E x : Full(w, x)) /\ UNCHANGED <<entries, scripts, wasted, restart>>
  BY Zenon, <1>0, <1>1, <1>a, <1>b, FullQuiet, WasteLocal DEF restart
<1>3. CASE Goto(w, "wild")
  <2>1. op'[w].pc = "wild"
    BY <1>0, <1>3 DEF Goto, TypeOK, Ops
  <2>2. StoringOK(w)'
    BY DEF StoreInv, CallOK
  <2> QED
    BY <2>1, <2>2 DEF StoringOK
<1>4. CASE StoreInFull(w)
  BY Zenon, <1>b, <1>4 DEF StoreInFull
<1>5. CASE StoreFound(w)
  <2>1. UNCHANGED <<entries, scripts, wasted>>
    BY <1>5 DEF StoreFound
  <2>2. \/ op' = [op EXCEPT ![w] = Inside] /\ uncounted' = uncounted
        \/ zend_accel_add_key(w, op[w].name, zend_accel_hash_find_entry(op[w].opened))
    BY Zenon, <1>5 DEF StoreFound, restart
  <2> QED
    BY Zenon, <1>1, <1>2, <1>a, <2>1, <2>2, WasteAddKey
<1>6. CASE StoreNew(w)
  <2>2. CASE Fits(ScriptSize)
    BY Zenon, <1>1, <1>6, <2>2, WasteAllocate DEF StoreNew, restart
  <2> QED
    BY Zenon, <1>6, <1>b, <2>2 DEF StoreNew
<1> QED
  BY <1>3, <1>4, <1>5, <1>6 DEF cache_script_in_shared_memory

\* The start and the end of a request.
LEMMA WasteRequest ==
    ASSUME StoreInv, WasteInv, NEW w \in Workers, accel_activate(w) \/ accel_deactivate(w)
    PROVE  WasteInv'
<1>0. TypeOK /\ op[w].pc \in {"out", "idle"}
  BY DEF StoreInv, accel_activate, accel_deactivate, At
<1>1. UNCHANGED <<entries, scripts, wasted, uncounted>>
  BY Zenon DEF accel_activate, accel_deactivate, segment, restart
<1>2. op' = [op EXCEPT ![w] = op'[w]] /\ op'[w].pc \in {"idle", "out", "clean"}
  <2>1. \/ op' = [op EXCEPT ![w] = Inside] \/ op' = [op EXCEPT ![w] = Outside]
        \/ op' = [op EXCEPT ![w] = [Inside EXCEPT !.pc = "clean"]]
    BY Zenon DEF accel_activate, accel_deactivate
  <2>2. Inside.pc = "idle" /\ Outside.pc = "out" /\ [Inside EXCEPT !.pc = "clean"].pc = "clean"
    BY DEF Inside, Outside
  <2> QED
    BY Zenon, <1>0, <2>1, <2>2 DEF TypeOK
<1>3. Quiet(w)
  BY <1>0, <1>2 DEF Quiet, Storing, Marking
<1> QED
  BY Zenon, <1>1, <1>2, <1>3, WasteLocal

\* A death: what was marked is not going to be counted.
LEMMA WasteCrash ==
    ASSUME StoreInv, WasteInv, NEW w \in Workers, Crash(w)
    PROVE  WasteInv'
<1> DEFINE i == op[w].script
<1>0. TypeOK /\ CallOK(w) /\ KeptOK /\ MarksOK
  BY DEF StoreInv, WasteInv
<1>1. /\ UNCHANGED <<entries, scripts, wasted>> /\ op' = [op EXCEPT ![w] = Outside]
      /\ uncounted' = uncounted \cup {j \in {i} : Marking(w)}
  BY Zenon DEF Crash
<1>2. /\ op'[w].pc = "out" /\ op' = [op EXCEPT ![w] = op'[w]]
      /\ \A v \in Workers : v # w => op'[v] = op[v]
  BY Zenon, <1>0, <1>1, Shaped, Arrives DEF TypeOK, Stands
<1>3. ~Marking(w)' /\ \A v \in Workers : v # w => (Marking(v)' <=> Marking(v))
  BY <1>2 DEF Marking
<1>4. Marking(w) => i \in DOMAIN scripts /\ scripts[i].corrupted /\ \A v \in Workers : v # w => ~Marking(v)
  <2>1. SUFFICES ASSUME Marking(w)
                 PROVE  /\ i \in DOMAIN scripts /\ scripts[i].corrupted
                        /\ \A v \in Workers : v # w => ~Marking(v)
    OBVIOUS
  <2>2. op[w].pc \in HasScript /\ op[w].pc \in Held
    BY <2>1 DEF Marking, HasScript, Held
  <2>3. i \in DOMAIN scripts /\ lock = w
    BY Zenon, <1>0, <2>2 DEF CallOK, FoundOK, StoringOK
  <2> QED
    BY Zenon, <1>0, <1>2, <2>1, <2>3, Alone DEF MarksOK
<1>5. Uncounted' = Uncounted
  <2>1. Uncounted' = uncounted' \cup {op'[v].script : v \in {u \in Workers : Marking(u)'}}
    BY Zenon DEF Uncounted
  <2>2. Uncounted = uncounted \cup {op[v].script : v \in {u \in Workers : Marking(u)}}
    BY Zenon DEF Uncounted
  <2>3. CASE Marking(w)
    <3>1. {u \in Workers : Marking(u)'} = {} /\ {u \in Workers : Marking(u)} = {w}
      BY <1>3, <1>4, <2>3
    <3>2. uncounted' = uncounted \cup {i}
      BY <1>1, <2>3
    <3> QED
      BY <2>1, <2>2, <3>1, <3>2
  <2>4. CASE ~Marking(w)
    <3>1. {op'[v].script : v \in {u \in Workers : Marking(u)'}}
            = {op[v].script : v \in {u \in Workers : Marking(u)}}
      <4>1. \A v \in {u \in Workers : Marking(u)} : op'[v] = op[v]
        BY Zenon, <1>2, <2>4
      <4>2. {u \in Workers : Marking(u)'} = {u \in Workers : Marking(u)}
        BY Zenon, <1>3, <2>4
      <4> QED
        BY ONLY <4>1, <4>2
    <3>2. uncounted' = uncounted
      BY <1>1, <2>4
    <3> QED
      BY <2>1, <2>2, <3>1, <3>2
  <2> QED
    BY <2>3, <2>4
<1>6. Bad' = Bad /\ KeptOK'
  <2>1. \A p : Existing(p)' = Existing(p)
    BY <1>1 DEF Existing, zend_accel_hash_find_entry, Published
  <2> QED
    BY Zenon, <1>0, <1>1, <1>5, <2>1 DEF Bad, KeptOK
<1>7. MarksOK'
  <2>1. \A j \in uncounted' : j \in DOMAIN scripts /\ scripts[j].corrupted
    BY Zenon, <1>0, <1>1, <1>4 DEF MarksOK
  <2>2. ASSUME NEW v \in Workers, Marking(v)'
        PROVE  scripts'[op'[v].script].corrupted /\ op'[v].script \notin uncounted'
    <3>1. v # w /\ Marking(v) /\ op'[v] = op[v]
      BY Zenon, <1>2, <1>3, <2>2
    <3>2. ~Marking(w)
      BY Zenon, <1>4, <3>1
    <3>3. uncounted' = uncounted
      BY <1>1, <3>2
    <3> QED
      BY Zenon, <1>0, <1>1, <3>1, <3>3 DEF MarksOK
  <2> QED
    BY Zenon, <1>1, <2>1, <2>2 DEF MarksOK
<1>8. ASSUME NEW v \in Workers PROVE PlaceOK(v)'
  <2>1. CASE v = w
    BY <1>2, <2>1 DEF PlaceOK, At, Late
  <2>2. CASE v # w
    <3>1. PlaceOK(v) /\ op'[v] = op[v]
      BY Zenon, <1>2, <2>2 DEF WasteInv
    <3>2. \A p : Existing(p)' = Existing(p)
      BY <1>1 DEF Existing, zend_accel_hash_find_entry, Published
    <3> QED
      BY Zenon, <1>1, <3>1, <3>2 DEF PlaceOK, At, Fresh
  <2> QED
    BY <2>1, <2>2
<1> QED
  BY Zenon, <1>1, <1>6, <1>7, <1>8 DEF WasteInv

\* The wipe has ended: nothing is wasted any more.
LEMMA WasteRestore ==
    ASSUME StoreInv, RestartInv, NEW w \in Workers, zend_shared_alloc_restore_state(w)
    PROVE  WasteInv'
<1>0. TypeOK /\ op[w].pc = "restore"
  BY DEF StoreInv, zend_shared_alloc_restore_state, At
<1>1. scripts' = <<>> /\ wasted' = 0 /\ uncounted' = {} /\ op' = [op EXCEPT ![w] = Inside]
  BY Zenon DEF zend_shared_alloc_restore_state
<1>2. DOMAIN scripts' = {}
  BY <1>1
<1>3. Bad' = {} /\ KeptOK'
  BY ONLY <1>2 DEF Bad, KeptOK
<1>4. wasted' = ScriptSize * Cardinality(Bad')
  BY SMTT(40), <1>1, <1>3, FS_EmptySet, StoreAssumption
<1>5. \A v \in Workers : op'[v].pc \in {"idle", "out"}
  <2>1. \A v \in Workers \ {w} : op[v].pc \in {"out", "idle"}
    BY <1>0, WipesAlone
  <2>2. Inside.pc = "idle"
    BY DEF Inside, Outside
  <2> QED
    BY Zenon, <1>0, <1>1, <2>1, <2>2 DEF TypeOK
<1>6. \A v \in Workers : PlaceOK(v)' /\ ~Marking(v)'
  BY <1>5 DEF PlaceOK, At, Late, Marking
<1>7. MarksOK'
  BY Zenon, <1>1, <1>6 DEF MarksOK
<1> QED
  BY Zenon, <1>3, <1>4, <1>6, <1>7 DEF WasteInv

\* Every step keeps the waste exact, until a name changes between file and link.
LEMMA WasteStep ==
    ASSUME StoreInv, StoreInv', RestartInv, Live => WasteInv, Live', [Next]_vars
    PROVE  WasteInv'
<1>a. Shape /\ TypeOK
  BY Zenon, Shaped DEF StoreInv
<1>1. ASSUME WasteInv, UNCHANGED segment,
             \A v \in Workers : /\ op'[v].pc = op[v].pc /\ op'[v].opened = op[v].opened
                                /\ op'[v].script = op[v].script /\ op'[v].text = op[v].text
      PROVE  WasteInv'
  <2>1. \A p \in Files : Existing(p)' = Existing(p)
    BY <1>1 DEF segment, Existing, zend_accel_hash_find_entry, Published
  <2>2. \A v \in Workers : Quiet(v)
    BY Zenon, <1>1 DEF Quiet, Marking
  <2> QED
    BY Zenon, <1>1, <2>1, <2>2, WasteFrame DEF segment, restart
<1>2. ASSUME NEW n \in Names, Edit(n) PROVE WasteInv'
  BY Zenon, <1>1, <1>2 DEF Edit, Live, segment, restart
<1>3. ASSUME NEW n \in Names, NEW t \in Names, Relink(n, t) PROVE WasteInv'
  <2>1. UNCHANGED segment /\ Live
    BY Zenon, <1>3 DEF Relink, Live, segment, restart
  <2> QED
    BY Zenon, <1>1, <1>3, <1>a, <2>1, RelinkKeeps
<1>4. ASSUME NEW w \in Workers, accel_activate(w) \/ accel_deactivate(w) \/ Crash(w)
      PROVE  WasteInv'
  <2>1. Live
    BY Zenon, <1>4 DEF accel_activate, accel_deactivate, Crash, Live, segment, restart
  <2> QED
    BY Zenon, <1>4, <2>1, WasteRequest, WasteCrash
<1>5. ASSUME NEW w \in Workers, zend_accel_hash_clean(w) PROVE FALSE
  BY Zenon, <1>5 DEF zend_accel_hash_clean, Live, restart, RestartInv, At
<1>6. ASSUME NEW w \in Workers, AddKey(w), WasteInv PROVE WasteInv'
  <2>1. op[w].text = 0 /\ ~Marking(w)
    BY <1>6, NothingCompiled DEF AddKey, At, Storing, Marking
  <2> QED
    BY Zenon, <1>6, <2>1, WasteAddKey DEF AddKey
<1>7. ASSUME NEW w \in Workers, Lookup(w) \/ Compile(w) PROVE WasteInv'
  <2>1. Live /\ ~Convert(w)
    BY Zenon, <1>7, CallLive DEF Live, StoreInv, CallOK, StoringOK, Convert, At
  <2>2. Unlocked(w) \/ Locked(w)
    BY Zenon, <1>7 DEF Lookup, Compile, Unlocked, Locked
  <2> QED
    BY Zenon, <1>6, <2>1, <2>2, WasteLookup, WasteCorrupt, WasteWaste, WasteDecide, WasteStore,
       WastePublish, WasteWalk, WasteAlias, WasteAccount DEF Locked
<1>8. CASE UNCHANGED vars
  BY Zenon, <1>1, <1>8 DEF vars, Live, segment, restart
<1> QED
  BY Zenon, <1>2, <1>3, <1>4, <1>5, <1>7, <1>8, WasteRestore DEF Next

\* wasted_shared_memory is exactly what the scripts take that no lookup can return
\* any more, but for those a worker is about to add or died before it added.
THEOREM StoreWastedExact == Spec => []WastedExact
<1>1. Init => WasteInv
  <2> SUFFICES ASSUME Init PROVE WasteInv
    OBVIOUS
  <2>1. DOMAIN scripts = {} /\ wasted = 0 /\ uncounted = {} /\ \A w \in Workers : op[w].pc = "out"
    BY DEF Init, Outside
  <2>2. Bad = {} /\ KeptOK /\ \A w \in Workers : PlaceOK(w) /\ ~Marking(w)
    BY ONLY Zenon, <2>1 DEF Bad, KeptOK, PlaceOK, At, Late, Marking
  <2>3. MarksOK
    BY Zenon, <2>1, <2>2 DEF MarksOK
  <2> QED
    BY <2>1, <2>2, <2>3, FS_EmptySet, StoreAssumption DEF WasteInv
<1>2. (mixed \/ (StoreInv /\ RestartInv /\ (Live => WasteInv))) /\ [Next]_vars
        => (mixed \/ (StoreInv /\ RestartInv /\ (Live => WasteInv)))'
  BY Zenon, StoreStep, RestartStep, MixedStays, WasteStep
<1>3. mixed \/ (StoreInv /\ RestartInv /\ (Live => WasteInv)) => WastedExact
  <2>1. SUFFICES ASSUME WasteInv
                 PROVE  {i \in DOMAIN scripts \ (Served \cup Uncounted) : scripts[i].consumption # 0}
                          = Bad
    BY Zenon DEF WastedExact, WasteInv, Live
  <2>2. KeptOK
    BY <2>1 DEF WasteInv
  <2> QED
    BY <2>2 DEF Served, Bad, KeptOK
<1>4. Init => StoreInv /\ RestartInv
  BY StoreInit, RestartInit
<1> HIDE DEF StoreInv, RestartInv, WasteInv, WastedExact, Live
<1> QED
  BY <1>1, <1>2, <1>3, <1>4, PTL DEF Spec
=============================================================================
