----------------------------- MODULE AccelStore -----------------------------
(***************************************************************************)
(* The scripts in the segment of the opcode cache: the shared hash table   *)
(* (ext/opcache/zend_accelerator_hash.c), the allocator                    *)
(* (zend_shared_alloc.c), and persistent_compile_file(),                   *)
(* compile_and_cache_file(), cache_script_in_shared_memory() and           *)
(* zend_accel_invalidate() (ZendAccelerator.c), which use them.            *)
(*                                                                         *)
(* Workers store under an exclusive lock (byte 0), and look up without it. *)
(* One action is one access to what another worker, or the administrator   *)
(* who edits the files, may change in between, or that the death of a      *)
(* worker may separate from the next.  That nobody uses the segment when   *)
(* it is wiped, and the stores of zend_accel_schedule_restart(), are the   *)
(* subject of OpcacheRestart and are taken from there.  Configuration:     *)
(* validate_timestamps on with revalidate_freq 0, revalidate_path off, no  *)
(* consistency checks.                                                     *)
(***************************************************************************)
EXTENDS Integers, Sequences, FiniteSets

CONSTANTS
    Workers,
    Names,          \* absolute file names, the keys of the table
    None,
    Links,          \* [Names -> Names]: what each name is at the start
    Moves,          \* pairs <<n, t>>: n may be made a link to t, or a file if t = n
    Mapped,         \* files of a size that php_stream_open_for_zend_ex() maps
    Renamed,        \* files that are replaced by rename(), not edited in place
    MaxEntries,     \* max_num_entries of the hash table
    Memory,         \* size of the segment after startup
    ScriptSize,     \* what a script takes
    KeySize,        \* what the copy of a key takes
    MinFree,        \* MIN_FREE_MEMORY
    MaxWasted,      \* max_wasted_percentage of the segment
    MaxEvents       \* bound: changes of the file system, deaths of workers

ASSUME StoreAssumption ==
    /\ None \notin Names \cup Workers \cup {"include", "invalidate", "force"}
    /\ \A n \in Names, k \in 0 .. MaxEvents : None # <<n, k>>
    /\ Links \in [Names -> Names]
    /\ \A n \in Names : Links[Links[n]] = Links[n]
    /\ Moves \subseteq Names \X Names
    /\ Mapped \subseteq Names /\ Renamed \subseteq Names
    /\ MaxEntries \in Nat \ {0} /\ Memory \in Nat
    /\ ScriptSize \in Nat \ {0} /\ KeySize \in Nat
    /\ MinFree \in Nat /\ MaxWasted \in Nat
    /\ MaxEvents \in Nat

VARIABLES
    \* the file system
    link,           \* what each name is: itself if a file, else the file it leads to
    ino,            \* the inode of each file
    ver,            \* contents of each inode, and its st_mtime
    events,
    mixed,          \* history: a name has changed between file and link
    \* the segment
    entries,        \* hash_entries[0 .. num_entries - 1], all in hash_table
    scripts,        \* persistent scripts, in the order of their allocation
    shared_free,    \* ZSMMG(shared_free)
    wasted,         \* ZSMMG(wasted_shared_memory)
    memory_exhausted,
    restart_pending, accelerator_enabled,
    uncounted,      \* history: scripts whose waste was lost with a worker
    undecided,      \* history: so was the last decision whether to restart
    lock,           \* the holder of byte 0
    \* the workers
    counted,        \* ZCG(counted): holds byte 1 until the request ends
    op              \* where a worker is, and its locals

files == <<link, ino, ver, events, mixed>>
restart == <<restart_pending, accelerator_enabled, uncounted, undecided>>
segment == <<entries, scripts, shared_free, wasted, memory_exhausted, restart>>
vars == <<files, segment, lock, counted, op>>

(***************************************************************************)
(* An entry is [key, indirect, data]; data refers to a script or, if the   *)
(* entry is indirect, to another entry.  A script is [path, timestamp,     *)
(* text, corrupted, consumption]: text is the contents it was compiled     *)
(* from.  op[w] is                                                         *)
(*   pc      where the worker is: out of a request, wiping the segment at  *)
(*           the start of one, idle in one, or in a call of                *)
(*           persistent_compile_file or zend_accel_invalidate              *)
(*   call    which of the two, "include", "invalidate" or "force"          *)
(*   name    file_handle->filename                                         *)
(*   opened  file_handle->opened_path or None, and                         *)
(*   handle  the inode that is open, or None                               *)
(*   bucket, script    what was found, or is being stored                  *)
(*   stamp, text       timestamp and contents of the new script            *)
(* and, as history of the call,                                            *)
(*   floor   the contents of every file when it began                      *)
(*   reach   the files that the name has led to since                      *)
(* A local that is not used any more has the value it has in Inside.       *)
(***************************************************************************)
ScriptRef(i) == [kind |-> "script", at |-> i]
EntryRef(i) == [kind |-> "entry", at |-> i]
Outside == [pc |-> "out", call |-> None, name |-> None, opened |-> None,
            handle |-> None, bucket |-> 0, script |-> 0, stamp |-> 0, text |-> 0,
            floor |-> [n \in Names |-> 0], reach |-> {}]
Inside == [Outside EXCEPT !.pc = "idle"]
At(w, l) == op[w].pc = l
Goto(w, l) == op' = [op EXCEPT ![w].pc = l]

Init ==
    /\ link = Links
    /\ ino = [n \in Names |-> <<n, 0>>]
    /\ ver = [i \in Names \X (0 .. MaxEvents) |-> 1]
    /\ events = 0 /\ mixed = FALSE
    /\ entries = <<>> /\ scripts = <<>>
    /\ shared_free = Memory /\ wasted = 0
    /\ memory_exhausted = FALSE
    /\ restart_pending = FALSE /\ accelerator_enabled = TRUE
    /\ uncounted = {} /\ undecided = FALSE
    /\ lock = None
    /\ counted = [w \in Workers |-> FALSE]
    /\ op = [w \in Workers |-> Outside]

----------------------------------------------------------------------------
(* The file system, which the administrator changes at any time.           *)

\* file n gets new contents, in its inode or in a new one.
Edit(n) ==
    /\ events < MaxEvents /\ link[n] = n
    /\ events' = events + 1
    /\ ino' = IF n \in Renamed THEN [ino EXCEPT ![n] = <<n, events'>>] ELSE ino
    /\ ver' = [ver EXCEPT ![ino'[n]] = events' + 1]
    /\ UNCHANGED <<link, mixed, segment, lock, counted, op>>

\* n becomes a link to file t or, if t = n, a file of its own.
Relink(n, t) ==
    /\ events < MaxEvents /\ <<n, t>> \in Moves /\ link[n] # t
    /\ t # n => link[t] = t /\ \A o \in Names \ {n} : link[o] # n
    /\ events' = events + 1
    /\ link' = [link EXCEPT ![n] = t]
    /\ mixed' = (mixed \/ n \in {t, link[n]})
    /\ ino' = [ino EXCEPT ![n] = <<n, events'>>]
    /\ ver' = [ver EXCEPT ![ino'[n]] = events' + 1]
    /\ op' = [w \in Workers |->
                IF op[w].name = n THEN [op[w] EXCEPT !.reach = @ \cup {t}] ELSE op[w]]
    /\ UNCHANGED <<segment, lock, counted>>

\* stat() of n.
mtime(n) == ver[ino[link[n]]]

\* The timestamp of what w has open: that of the path if the file is mapped.
zend_get_file_handle_timestamp(w) ==
    IF op[w].handle = None \/ op[w].opened \in Mapped
    THEN mtime(op[w].opened) ELSE ver[op[w].handle]

----------------------------------------------------------------------------
(* The hash table.  An entry is linked into it by one store, after its     *)
(* fields are filled in, so a lookup finds it complete or not at all.      *)

Published(k) == {e \in DOMAIN entries : entries[e].key = k}

\* The entry itself or the one it refers to; 0 if there is none.
zend_accel_hash_find_entry(k) ==
    IF Published(k) = {} THEN 0
    ELSE LET e == CHOOSE e \in Published(k) : TRUE
         IN  IF entries[e].indirect THEN entries[e].data.at ELSE e

zend_accel_hash_is_full == Len(entries) = MaxEntries

NewEntry(k, indirect, data) ==
    Append(entries, [key |-> k, indirect |-> indirect, data |-> data])

----------------------------------------------------------------------------
(* The allocator.                                                          *)

\* One segment: a block that is not found is too large for what is free.
ExhaustedAfter(size) ==
    memory_exhausted \/ (size > shared_free /\ shared_free < MinFree)

\* With enough waste, zend_accel_schedule_restart() turns the cache off.
zend_accel_schedule_restart_if_necessary ==
    /\ restart_pending' = (restart_pending \/ wasted >= MaxWasted)
    /\ accelerator_enabled' = (accelerator_enabled /\ ~restart_pending')
    /\ undecided' = FALSE
    /\ UNCHANGED uncounted

\* Bug: the allocation does not look how much is free.
Fits_always(size) == TRUE
Fits(size) == size <= shared_free

----------------------------------------------------------------------------
(* Requests.                                                               *)

\* Workers that hold byte 1: counted, or inside zend_accel_invalidate().
Using(w) == counted[w] \/ op[w].pc \notin {"out", "idle", "clean", "restore"}

\* The request starts; a pending restart begins if nobody uses the segment.
accel_activate(w) ==
    /\ At(w, "out")
    /\ \/ /\ restart_pending /\ lock = None
          /\ \A v \in Workers : ~Using(v)
          /\ restart_pending' = FALSE /\ lock' = w
          /\ op' = [op EXCEPT ![w] = [Inside EXCEPT !.pc = "clean"]]
          /\ UNCHANGED <<accelerator_enabled, uncounted, undecided>>
       \/ /\ restart_pending => lock = None /\ \E v \in Workers : Using(v)
          /\ op' = [op EXCEPT ![w] = Inside]
          /\ UNCHANGED <<restart, lock>>
    /\ UNCHANGED <<files, entries, scripts, shared_free, wasted, memory_exhausted, counted>>

zend_accel_hash_clean(w) ==
    /\ At(w, "clean")
    /\ entries' = <<>>
    /\ Goto(w, "restore")
    /\ UNCHANGED <<files, scripts, shared_free, wasted, memory_exhausted, restart,
                   lock, counted>>

\* The cache is as it was at startup, and turned on again.  (It stays off for
\* good if the worker dies before that, whatever it has restored by then.)
zend_shared_alloc_restore_state(w) ==
    /\ At(w, "restore")
    /\ scripts' = <<>> /\ shared_free' = Memory
    /\ memory_exhausted' = FALSE /\ wasted' = 0
    /\ accelerator_enabled' = TRUE
    /\ uncounted' = {} /\ undecided' = FALSE
    /\ lock' = None
    /\ op' = [op EXCEPT ![w] = Inside]
    /\ UNCHANGED <<files, entries, restart_pending, counted>>

accel_deactivate(w) ==
    /\ At(w, "idle")
    /\ op' = [op EXCEPT ![w] = Outside]
    /\ counted' = [counted EXCEPT ![w] = FALSE]
    /\ UNCHANGED <<files, segment, lock>>

\* Between setting corrupted and adding to the waste, and between that, or
\* finding the cache full, and the decision whether to restart it.
Marking(w) == op[w].pc \in {"untime", "waste"}
Deciding(w) == op[w].pc \in {"due", "schedule"}
RestartDue == memory_exhausted /\ wasted >= MaxWasted

\* A worker dies; the kernel drops its locks and another takes its place.
Crash(w) ==
    /\ events < MaxEvents /\ ~At(w, "out")
    /\ events' = events + 1
    /\ op' = [op EXCEPT ![w] = Outside]
    /\ counted' = [counted EXCEPT ![w] = FALSE]
    /\ lock' = IF lock = w THEN None ELSE lock
    /\ uncounted' = uncounted \cup {i \in {op[w].script} : Marking(w)}
    /\ undecided' = (undecided \/ (Deciding(w) /\ RestartDue))
    /\ UNCHANGED <<link, ino, ver, mixed, entries, scripts, shared_free, wasted,
                   memory_exhausted, restart_pending, accelerator_enabled>>

----------------------------------------------------------------------------
(* persistent_compile_file(): the lookup.                                  *)

\* w goes on with locals r; nothing shared changes.
Local(w, r) ==
    /\ op' = [op EXCEPT ![w] = r]
    /\ UNCHANGED <<files, segment, lock, counted>>

\* w at l, with its script.
Found(w, l) == [op[w] EXCEPT !.pc = l, !.bucket = 0]

\* Without one: persistent_compile_file() has a miss, zend_accel_invalidate()
\* is done and drops byte 1.
NotFound(w) ==
    IF op[w].call = "include"
    THEN [op[w] EXCEPT !.pc = "miss", !.bucket = 0, !.script = 0]
    ELSE Inside

Opened(w, l) ==
    LET p == link[op[w].name]
    IN  [op[w] EXCEPT !.pc = l, !.opened = p, !.handle = ino[p]]

\* include of n, through the accelerator: the request is counted, and the
\* script looked for by its key.
persistent_compile_file(w, n) ==
    /\ At(w, "idle")
    /\ counted[w] \/ accelerator_enabled
    /\ counted' = [counted EXCEPT ![w] = TRUE]
    /\ LET b == zend_accel_hash_find_entry(n)
       IN  op' = [op EXCEPT ![w] = [Inside EXCEPT
                    !.pc = IF b # 0 THEN "data" ELSE "open",
                    !.call = "include", !.name = n, !.bucket = b,
                    !.floor = [m \in Names |-> mtime(m)], !.reach = {link[n]}]]
    /\ UNCHANGED <<files, segment, lock>>

\* zend_accel_invalidate(): byte 1 is taken and the path resolved.
zend_accel_invalidate(w, n, force) ==
    /\ At(w, "idle") /\ accelerator_enabled
    /\ Local(w, [Inside EXCEPT !.pc = "path", !.name = link[n], !.opened = link[n],
                               !.call = IF force THEN "force" ELSE "invalidate"])

\* accelerator_orig_zend_stream_open_function(), to resolve the path.
OpenToResolve(w) ==
    /\ At(w, "open")
    /\ Local(w, Opened(w, "path"))

FindByPath(w) ==
    /\ At(w, "path")
    /\ LET b == zend_accel_hash_find_entry(op[w].opened)
       IN  Local(w, IF b # 0 THEN [op[w] EXCEPT !.pc = "data", !.bucket = b]
                             ELSE NotFound(w))

\* bucket->data.  A hash entry taken for a script is not a script.
ReadData(w) ==
    /\ At(w, "data")
    /\ LET d == entries[op[w].bucket].data
           l == IF op[w].handle # None THEN "share" ELSE "check"
       IN  Local(w, IF d.kind = "script"
                    THEN [op[w] EXCEPT !.pc = l, !.script = d.at,
                                       !.bucket = IF l = "share" THEN @ ELSE 0]
                    ELSE [op[w] EXCEPT !.pc = "wild"])

\* The key is in the table, or cannot be: the lookup goes on, or the worker
\* runs what it has compiled, or what it stores is accounted for.
KeyDone(w) ==
    IF op[w].text = 0 \/ op[w].script = 0
    THEN /\ lock' = None
         /\ op' = [op EXCEPT ![w] = IF op[w].text = 0 THEN Found(w, "check") ELSE Inside]
    ELSE /\ lock' = lock
         /\ op' = [op EXCEPT ![w].pc = "account"]

\* The table or the segment is found full; Schedule() comes next.
Full(w, exhausted) ==
    /\ memory_exhausted' = exhausted
    /\ lock' = w
    /\ op' = [op EXCEPT ![w] = Found(w, "schedule")]

Schedule(w) ==
    /\ At(w, "schedule")
    /\ zend_accel_schedule_restart_if_necessary
    /\ KeyDone(w)
    /\ UNCHANGED <<files, entries, scripts, shared_free, wasted, memory_exhausted, counted>>

\* zend_accel_add_key(), called under the lock: another key for the bucket, if
\* it has none; zend_accel_hash_update() is at "walk".
zend_accel_add_key(w, k, bucket) ==
    /\ \/ /\ zend_accel_hash_find_entry(k) # 0
          /\ KeyDone(w)
          /\ UNCHANGED <<shared_free, memory_exhausted>>
       \/ /\ zend_accel_hash_find_entry(k) = 0
          /\ zend_accel_hash_is_full \/ ~Fits(KeySize)
          /\ Full(w, zend_accel_hash_is_full \/ ExhaustedAfter(KeySize))
          /\ UNCHANGED shared_free
       \/ /\ zend_accel_hash_find_entry(k) = 0
          /\ ~zend_accel_hash_is_full /\ Fits(KeySize)
          /\ shared_free' = shared_free - KeySize
          /\ lock' = w
          /\ op' = [op EXCEPT ![w].pc = "walk", ![w].bucket = bucket]
          /\ UNCHANGED memory_exhausted
    /\ UNCHANGED restart

\* A script found by its path gets the key, under the lock.
ShareKey(w) ==
    /\ At(w, "share")
    /\ Local(w, IF scripts[op[w].script].corrupted THEN Found(w, "check")
                ELSE [op[w] EXCEPT !.pc = "key"])

AddKey(w) ==
    /\ At(w, "key") /\ lock = None
    /\ zend_accel_add_key(w, op[w].name, op[w].bucket)
    /\ UNCHANGED <<files, entries, scripts, wasted, counted>>

CheckCorrupted(w) ==
    /\ At(w, "check")
    /\ Local(w, IF scripts[op[w].script].corrupted THEN NotFound(w)
                ELSE Found(w, IF op[w].call = "force" THEN "corrupt" ELSE "resolve"))

\* do_validate_timestamps(): "check that the persistant script is indeed the
\* same file we cached".  An unopened name is resolved.
ValidatePath(w) ==
    /\ At(w, "resolve")
    /\ LET p == IF op[w].opened # None THEN op[w].opened ELSE link[op[w].name]
       IN  Local(w, Found(w, IF scripts[op[w].script].path = p THEN "stat" ELSE "corrupt"))

\* The timestamp of the handle, and then that of the path, is compared.
ValidateTimestamp(w) ==
    /\ At(w, "stat")
    /\ LET s == scripts[op[w].script]
           valid == /\ s.timestamp # 0
                    /\ \/ /\ op[w].opened # None
                          /\ zend_get_file_handle_timestamp(w) = s.timestamp
                       \/ mtime(s.path) = s.timestamp
       IN  Local(w, IF ~valid THEN Found(w, "corrupt")
                    ELSE IF op[w].call = "include" THEN Found(w, "run")
                    ELSE Inside)

\* Bug: not looked at again under the lock.
Corrupt_again(w) ==
    /\ At(w, "corrupt") /\ lock = None
    /\ scripts' = [scripts EXCEPT ![op[w].script].corrupted = TRUE]
    /\ lock' = w
    /\ Goto(w, "untime")
    /\ UNCHANGED <<files, entries, shared_free, wasted, memory_exhausted, restart, counted>>

\* The script is out of date or to be invalidated, under the lock: it is marked,
Corrupt(w) ==
    /\ At(w, "corrupt") /\ lock = None
    /\ LET i == op[w].script
       IN  \/ /\ ~scripts[i].corrupted
              /\ scripts' = [scripts EXCEPT ![i].corrupted = TRUE]
              /\ lock' = w
              /\ Goto(w, "untime")
           \/ /\ scripts[i].corrupted
              /\ op' = [op EXCEPT ![w] = NotFound(w)]
              /\ UNCHANGED <<scripts, lock>>
    /\ UNCHANGED <<files, entries, shared_free, wasted, memory_exhausted, restart, counted>>

\* its timestamp is cleared,
Untime(w) ==
    /\ At(w, "untime")
    /\ scripts' = [scripts EXCEPT ![op[w].script].timestamp = 0]
    /\ Goto(w, "waste")
    /\ UNCHANGED <<files, entries, shared_free, wasted, memory_exhausted, restart,
                   lock, counted>>

\* its memory is wasted,
Waste(w) ==
    /\ At(w, "waste")
    /\ wasted' = wasted + scripts[op[w].script].consumption
    /\ Goto(w, "due")
    /\ UNCHANGED <<files, entries, scripts, shared_free, memory_exhausted, restart,
                   lock, counted>>

\* Bug: a full cache is not restarted when scripts go bad.
Due_silent(w) ==
    /\ At(w, "due")
    /\ op' = [op EXCEPT ![w] = NotFound(w)]
    /\ lock' = None
    /\ UNCHANGED <<files, segment, counted>>

\* and a full cache may be restarted.
Due(w) ==
    /\ At(w, "due")
    /\ IF memory_exhausted THEN zend_accel_schedule_restart_if_necessary
       ELSE UNCHANGED restart
    /\ op' = [op EXCEPT ![w] = NotFound(w)]
    /\ lock' = None
    /\ UNCHANGED <<files, entries, scripts, shared_free, wasted, memory_exhausted, counted>>

----------------------------------------------------------------------------
(* compile_and_cache_file().                                               *)

\* A full cache, or one about to be wiped, takes no more scripts; the file is
\* compiled for this call only.
CacheMiss(w) ==
    /\ At(w, "miss")
    /\ Local(w, IF memory_exhausted \/ restart_pending THEN Inside
                ELSE [op[w] EXCEPT !.pc = IF op[w].handle = None THEN "fopen" ELSE "fstat"])

OpenToCompile(w) ==
    /\ At(w, "fopen")
    /\ Local(w, Opened(w, "fstat"))

\* "Obtain the file timestamps, *before* actually compiling them".  A file
\* that is blacklisted, too new or too large is not cached.
StatFile(w) ==
    /\ At(w, "fstat")
    /\ \/ Local(w, [op[w] EXCEPT !.pc = "compile",
                                 !.stamp = zend_get_file_handle_timestamp(w)])
       \/ Local(w, Inside)

\* Bug: the timestamp is obtained after the compilation.
CompileFile_stamp(w) ==
    /\ At(w, "compile")
    /\ \/ /\ op[w].text = 0
          /\ Local(w, [op[w] EXCEPT !.text = ver[op[w].handle]])
       \/ /\ op[w].text # 0
          /\ Local(w, [op[w] EXCEPT !.pc = "store",
                                    !.stamp = zend_get_file_handle_timestamp(w)])

\* The compiler may fail, and the script may not be persistable.
CompileFile(w) ==
    /\ At(w, "compile")
    /\ \/ Local(w, [op[w] EXCEPT !.pc = "store", !.text = ver[op[w].handle]])
       \/ Local(w, Inside)

----------------------------------------------------------------------------
(* cache_script_in_shared_memory(), under the lock.                        *)

\* The script that find_entry() on the path leads to, 0 if none.
Existing(p) ==
    LET b == zend_accel_hash_find_entry(p)
    IN  IF b # 0 /\ entries[b].data.kind = "script" THEN entries[b].data.at ELSE 0

\* It leads to an entry that refers to another, which is taken for a script.
Misled(p) ==
    LET b == zend_accel_hash_find_entry(p)
    IN  b # 0 /\ entries[b].data.kind = "entry"

StoreInFull(w) ==
    /\ zend_accel_hash_is_full
    /\ Full(w, TRUE)
    /\ UNCHANGED <<entries, scripts, shared_free, wasted, restart>>

\* Another worker has stored it meanwhile.
StoreFound(w) ==
    /\ ~zend_accel_hash_is_full
    /\ LET i == Existing(op[w].opened)
       IN  /\ i # 0 /\ ~scripts[i].corrupted
           /\ \/ /\ op[w].stamp = scripts[i].timestamp
                 /\ zend_accel_add_key(w, op[w].name,
                                       zend_accel_hash_find_entry(op[w].opened))
              \/ /\ op[w].stamp # scripts[i].timestamp
                 /\ op' = [op EXCEPT ![w] = Inside]
                 /\ UNCHANGED <<shared_free, memory_exhausted, restart, lock>>
    /\ UNCHANGED <<entries, scripts, wasted>>

StoreNew(w) ==
    /\ ~zend_accel_hash_is_full
    /\ LET i == Existing(op[w].opened) IN i # 0 => scripts[i].corrupted
    /\ \/ /\ ~Fits(ScriptSize)
          /\ Full(w, ExhaustedAfter(ScriptSize))
          /\ UNCHANGED <<entries, scripts, shared_free, wasted, restart>>
       \/ /\ Fits(ScriptSize)
          /\ shared_free' = shared_free - ScriptSize
          /\ scripts' = Append(scripts,
                [path |-> op[w].opened, timestamp |-> op[w].stamp, text |-> op[w].text,
                 corrupted |-> FALSE, consumption |-> 0])
          /\ op' = [op EXCEPT ![w].script = Len(scripts'), ![w].pc = "publish"]
          /\ lock' = w
          /\ UNCHANGED <<entries, wasted, memory_exhausted, restart>>

cache_script_in_shared_memory(w) ==
    /\ At(w, "store") /\ lock = None
    /\ IF Misled(op[w].opened) /\ ~zend_accel_hash_is_full
       THEN Goto(w, "wild") /\ lock' = w /\ UNCHANGED segment
       ELSE StoreInFull(w) \/ StoreFound(w) \/ StoreNew(w)
    /\ UNCHANGED <<files, counted>>

\* Bug: the script is entered under the name it was asked for.
Publish_name(w) ==
    /\ At(w, "publish")
    /\ LET k == op[w].name
           d == ScriptRef(op[w].script)
           old == Published(k)
       IN  /\ entries' =
                IF old = {} THEN NewEntry(k, FALSE, d)
                ELSE [entries EXCEPT ![zend_accel_hash_find_entry(k)].data = d]
           /\ op' = [op EXCEPT ![w].pc = "account"]
    /\ UNCHANGED <<files, scripts, shared_free, wasted, memory_exhausted, restart,
                   lock, counted>>

\* zend_accel_hash_update() of the path with the script: a new entry, or the
\* data of the entry that is there or that it refers to.  The entry for the
\* path is returned.
Publish(w) ==
    /\ At(w, "publish")
    /\ LET p == op[w].opened
           d == ScriptRef(op[w].script)
           old == Published(p)
       IN  /\ entries' =
                IF old = {} THEN NewEntry(p, FALSE, d)
                ELSE [entries EXCEPT ![zend_accel_hash_find_entry(p)].data = d]
           /\ op' = [op EXCEPT
                ![w].bucket = IF old = {} THEN Len(entries')
                              ELSE CHOOSE e \in old : TRUE,
                ![w].pc = IF op[w].name # p THEN "walk" ELSE "account"]
    /\ UNCHANGED <<files, scripts, shared_free, wasted, memory_exhausted, restart,
                   lock, counted>>

\* zend_accel_hash_update() of the key: "while (indirect_bucket->indirect)".
Walk(w) ==
    /\ At(w, "walk")
    /\ LET e == entries[op[w].bucket]
       IN  Local(w, IF e.indirect THEN [op[w] EXCEPT !.bucket = e.data.at]
                    ELSE [op[w] EXCEPT !.pc = "alias"])

\* The key is entered, or made to refer to the bucket.  An entry with a script
\* of its own becomes indirect by two stores.
Alias(w) ==
    /\ At(w, "alias")
    /\ LET k == op[w].name
           d == EntryRef(op[w].bucket)
           old == Published(k)
       IN  \/ /\ old = {} /\ zend_accel_hash_is_full
              /\ Full(w, TRUE)
              /\ UNCHANGED entries
           \/ /\ old = {} /\ ~zend_accel_hash_is_full
              /\ entries' = NewEntry(k, TRUE, d)
              /\ KeyDone(w)
              /\ UNCHANGED memory_exhausted
           \/ \E e \in old :
              /\ entries' = [entries EXCEPT ![e].data = d]
              /\ IF entries[e].indirect THEN KeyDone(w)
                 ELSE Goto(w, "convert") /\ lock' = lock
              /\ UNCHANGED memory_exhausted
    /\ UNCHANGED <<files, scripts, shared_free, wasted, restart, counted>>

Convert(w) ==
    /\ At(w, "convert")
    /\ \E e \in Published(op[w].name) :
        entries' = [entries EXCEPT ![e].indirect = TRUE]
    /\ KeyDone(w)
    /\ UNCHANGED <<files, scripts, shared_free, wasted, memory_exhausted, restart, counted>>

\* dynamic_members.memory_consumption is set last; the lock is dropped and the
\* script run from the segment.
Account(w) ==
    /\ At(w, "account")
    /\ scripts' = [scripts EXCEPT ![op[w].script].consumption = ScriptSize]
    /\ lock' = None
    /\ op' = [op EXCEPT ![w] = Found(w, "run")]
    /\ UNCHANGED <<files, entries, shared_free, wasted, memory_exhausted, restart, counted>>

\* The script has run.
Return(w) ==
    /\ At(w, "run")
    /\ Local(w, Inside)

----------------------------------------------------------------------------
Lookup(w) ==
    \/ \E n \in Names : persistent_compile_file(w, n)
    \/ \E n \in Names, force \in BOOLEAN : zend_accel_invalidate(w, n, force)
    \/ OpenToResolve(w) \/ FindByPath(w) \/ ReadData(w) \/ ShareKey(w) \/ AddKey(w)
    \/ CheckCorrupted(w) \/ ValidatePath(w) \/ ValidateTimestamp(w)
    \/ Corrupt(w) \/ Untime(w) \/ Waste(w) \/ Due(w)

Compile(w) ==
    \/ CacheMiss(w) \/ OpenToCompile(w) \/ StatFile(w) \/ CompileFile(w)
    \/ cache_script_in_shared_memory(w) \/ Publish(w) \/ Walk(w) \/ Alias(w)
    \/ Convert(w) \/ Schedule(w) \/ Account(w) \/ Return(w)

Next ==
    \/ \E n \in Names : Edit(n)
    \/ \E n, t \in Names : Relink(n, t)
    \/ \E w \in Workers :
        \/ accel_activate(w) \/ zend_accel_hash_clean(w)
        \/ zend_shared_alloc_restore_state(w) \/ accel_deactivate(w) \/ Crash(w)
        \/ Lookup(w) \/ Compile(w)

Spec == Init /\ [][Next]_vars

----------------------------------------------------------------------------
(* Properties                                                              *)

Locations == {"out", "clean", "restore", "idle", "data", "open", "path", "share", "key",
    "check", "resolve", "stat", "corrupt", "untime", "waste", "due", "miss", "fopen",
    "fstat", "compile", "store", "publish", "walk", "alias", "convert", "schedule",
    "account", "run", "wild"}
Inodes == Names \X (0 .. MaxEvents)
Scripts == [path : Names, timestamp : 0 .. MaxEvents + 1, text : 1 .. MaxEvents + 1,
            corrupted : BOOLEAN, consumption : {0, ScriptSize}]
Entries == [key : Names, indirect : BOOLEAN,
            data : [kind : {"script", "entry"}, at : Nat \ {0}]]
Ops == [pc : Locations, call : {"include", "invalidate", "force", None},
        name : Names \cup {None}, opened : Names \cup {None},
        handle : Inodes \cup {None}, bucket : Nat, script : Nat,
        stamp : 0 .. MaxEvents + 1, text : 0 .. MaxEvents + 1,
        floor : [Names -> 0 .. MaxEvents + 1], reach : SUBSET Names]

\* The words of the segment and the locals keep their ranges; the segment is
\* never over-allocated and the table holds no more than max_num_entries.
TypeOK ==
    /\ link \in [Names -> Names]
    /\ ino \in [Names -> Inodes]
    /\ ver \in [Inodes -> 1 .. MaxEvents + 1]
    /\ events \in 0 .. MaxEvents /\ mixed \in BOOLEAN
    /\ entries \in Seq(Entries) /\ Len(entries) <= MaxEntries
    /\ scripts \in Seq(Scripts)
    /\ shared_free \in 0 .. Memory
    /\ wasted \in Nat
    /\ memory_exhausted \in BOOLEAN
    /\ restart_pending \in BOOLEAN /\ accelerator_enabled \in BOOLEAN
    /\ uncounted \in SUBSET Nat /\ undecided \in BOOLEAN
    /\ lock \in Workers \cup {None}
    /\ counted \in [Workers -> BOOLEAN]
    /\ op \in [Workers -> Ops]

\* "zend_accel_hash_update() requires exclusive lock, however,
\* zend_accel_hash_find() does not", and find() "Returns the data associated with
\* key": as long as no name changes between file and link, at every moment
\* find(), which follows one reference, comes from any key to a script, and from
\* a path to the script of that path.
FindRight ==
    ~mixed => \A e \in DOMAIN entries :
        LET d == entries[e].data
        IN  IF entries[e].indirect
            THEN /\ d.kind = "entry" /\ d.at \in DOMAIN entries
                 /\ ~entries[d.at].indirect
            ELSE /\ d.kind = "script" /\ d.at \in DOMAIN scripts
                 /\ scripts[d.at].path = entries[e].key

\* As long as no name does that, and the cache is on or waits to be restarted,
\* wasted_shared_memory is what the scripts take that no lookup can return any
\* more, except one that a worker is about to add, or died before it added: no
\* script is counted twice, however many workers find it out of date at once,
\* and none is displaced from the table uncounted.  (What a worker was storing
\* when it died counts nowhere.)
Served == {i \in DOMAIN scripts :
              ~scripts[i].corrupted /\ Existing(scripts[i].path) = i}
Uncounted == uncounted \cup {op[w].script : w \in {v \in Workers : Marking(v)}}
WastedExact ==
    ~mixed /\ (accelerator_enabled \/ restart_pending) =>
        wasted = ScriptSize * Cardinality({i \in DOMAIN scripts \ (Served \cup Uncounted) :
                                             scripts[i].consumption # 0})

\* A cache that is on is not left full with enough waste, whichever of the two
\* came first: a worker is about to schedule the restart, or the worker that was
\* died, and no other has come to decide since.
RestartNotMissed ==
    accelerator_enabled /\ RestartDue => undecided \/ \E w \in Workers : Deciding(w)

\* "Obtain the file timestamps, *before* actually compiling them, otherwise we
\* have a race-condition": a script that runs from the cache is one of a file
\* that the name led to during the call, and was compiled from contents not
\* older than the file had when the call began.
RunsCurrent ==
    \A w \in Workers : At(w, "run") =>
        LET s == scripts[op[w].script]
        IN  s.path \in op[w].reach /\ s.text >= op[w].floor[s.path]
=============================================================================
